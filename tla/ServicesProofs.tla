---------------------------- MODULE ServicesProofs ----------------------------
(***************************************************************************)
(* Proofs about the services behind the handlers, for any number of        *)
(* requests and any values: records and row policies, whose BI objects     *)
(* they are, what runs and imports of pipelines leave behind, what the     *)
(* settings keep, which databases restores keep, and, by the proofs of the *)
(* module itself, logins.                                                  *)
(***************************************************************************)
EXTENDS Services, WellFoundedInduction, FiniteSetTheorems, TLAPS

----------------------------------------------------------------------------
(* Records: the lock keeps identifiers unique, and a policy in force lets a session at   *)
(* its own rows only                                                                     *)

Name == User \cup {Nobody}

Row == [id : Nat, owner : Name]

Kind == {"get", "insert", "update", "delete"}

AskingSteps == {"resolve", "max", "statement"}

\* What a request carries while it is about a record, and while it is not.
Asking == [at : AskingSteps, user : Name, kind : Kind, row : Nat, id : Nat, owner : Name,
           sure : BOOLEAN, restricted : BOOLEAN]

OtherSteps == {"idle", "policy insert"}

Other == [at : OtherSteps, user : Name, sure : BOOLEAN]

Doing == Asking \cup Other

TypeInv ==
    /\ rows = [n \in DOMAIN rows |-> rows[n]]
    /\ \A n \in DOMAIN rows : rows[n] \in Row
    /\ op \in [Req -> Doing]
    /\ misread \in BOOLEAN /\ inserts \in Nat

\* The identifiers have a highest one.
Bounded == \E b \in Nat : \A n \in DOMAIN rows : rows[n].id <= b

Writes(o) == o.at = "statement" /\ o.kind = "insert"

\* Who has read the highest identifier and has not inserted yet holds the lock ...
LockHeld == \A r \in Req : Writes(op[r]) => holder = r

\* ... and its identifier is still a new one.
Fresh ==
    ~misread => \A r \in Req : Writes(op[r]) => \A n \in DOMAIN rows : rows[n].id < op[r].id

\* Who is sure to be restricted will know it before its statement runs.
Restrained(o) ==
    o.sure => /\ o.at \in AskingSteps /\ o.user \notin Admin
              /\ o.at # "resolve" => o.restricted /\ o.owner = o.user

PolicyKnown == \A r \in Req : Restrained(op[r])

RecordInv ==
    TypeInv /\ Bounded /\ LockHeld /\ Fresh /\ IdsUnique /\ PolicyKnown /\ OwnRowsOnly

----------------------------------------------------------------------------
(* Highest numbers *)

\* Numbers have a least one.
LEMMA Least ==
    ASSUME NEW T \in SUBSET Nat, T # {}
    PROVE  \E x \in T : \A y \in T : x <= y
<1>1. PICK x \in T : \A y \in T : ~ (<<y, x>> \in OpToRel(<, Nat))
  BY NatLessThanWellFounded, WFMin, Zenon
<1>2. \A y \in T : ~(y < x)
  BY <1>1 DEF OpToRel
<1> QED BY <1>2

\* Numbers with a bound have a greatest one: their least bound.
LEMMA Greatest ==
    ASSUME NEW S \in SUBSET Nat, S # {}, NEW b \in Nat, \A k \in S : k <= b
    PROVE  \E m \in S : \A k \in S : k <= m
<1> DEFINE U == {n \in Nat : \A k \in S : k <= n}
<1>1. PICK u \in U : \A n \in U : u <= n
  <2>1. U \in SUBSET Nat /\ b \in U
    OBVIOUS
  <2> HIDE DEF U
  <2> QED BY <2>1, Least
<1>2. u \in S
  <2> SUFFICES ASSUME u \notin S PROVE FALSE
    OBVIOUS
  <2>1. u \in Nat /\ \A k \in S : k \in Nat /\ k < u
    OBVIOUS
  <2>2. u - 1 \in Nat
    <3>1. PICK k \in S : k \in Nat /\ k < u
      BY <2>1
    <3> QED BY <2>1, <3>1
  <2>3. \A k \in S : k <= u - 1
    BY <2>1
  <2>4. u <= u - 1
    BY <1>1, <2>2, <2>3
  <2> QED BY <2>1, <2>4
<1> QED BY <1>2

\* One more than the highest identifier is a new one.
LEMMA NextId ==
    ASSUME TypeInv, Bounded
    PROVE  LET next == IF Ids(rows) = {} THEN 1
                       ELSE 1 + CHOOSE m \in Ids(rows) : \A k \in Ids(rows) : k <= m
           IN  next \in Nat /\ \A n \in DOMAIN rows : rows[n].id < next
<1>1. /\ Ids(rows) \in SUBSET Nat
      /\ \A n \in DOMAIN rows : rows[n].id \in Ids(rows)
  BY DEF TypeInv, Ids, Row
<1>2. CASE Ids(rows) = {}
  BY <1>1, <1>2
<1>3. CASE Ids(rows) # {}
  <2>1. PICK b \in Nat : \A k \in Ids(rows) : k <= b
    BY DEF Bounded, Ids
  <2>2. \E m \in Ids(rows) : \A k \in Ids(rows) : k <= m
    BY <1>1, <1>3, <2>1, Greatest
  <2> DEFINE m == CHOOSE m \in Ids(rows) : \A k \in Ids(rows) : k <= m
  <2>3. m \in Ids(rows) /\ \A k \in Ids(rows) : k <= m
    BY <2>2
  <2> HIDE DEF m
  <2>4. m \in Nat /\ \A n \in DOMAIN rows : rows[n].id \in Nat /\ rows[n].id < 1 + m
    BY <1>1, <2>3
  <2> QED BY <1>3, <2>4 DEF m
<1> QED BY <1>2, <1>3

----------------------------------------------------------------------------
(* Places and steps *)

\* Where a request is tells what it carries.
LEMMA PlaceFacts ==
    ASSUME NEW o \in Doing
    PROVE  /\ o.user \in Name /\ o.sure \in BOOLEAN
           /\ o.at \in AskingSteps \cup OtherSteps
           /\ o.at \in AskingSteps => o \in Asking
<1>1. CASE o \in Asking
  BY <1>1 DEF Asking
<1>2. CASE o \in Other
  BY <1>2 DEF Other, OtherSteps, AskingSteps
<1> QED BY <1>1, <1>2 DEF Doing

\* Being idle is a place.
LEMMA IdlePlace == Idle \in Doing /\ Idle.at = "idle" /\ ~Writes(Idle) /\ Restrained(Idle)
<1>1. Idle \in Other /\ Idle.at = "idle" /\ ~Idle.sure
  BY DEF Idle, Other, OtherSteps, Name
<1> QED BY <1>1 DEF Doing, Writes, Restrained

\* A request that goes on leaves the others where they are.
LEMMA GoesFacts ==
    ASSUME op \in [Req -> Doing], NEW r \in Req, NEW o \in Doing, Goes(r, o)
    PROVE  /\ op' \in [Req -> Doing]
           /\ op'[r] = o
           /\ \A q \in Req : q # r => op'[q] = op[q]
BY DEF Goes

\* Who no longer is sure to be restricted is where it was.
LEMMA UnsurePlace ==
    ASSUME NEW o \in Doing
    PROVE  LET u == [o EXCEPT !.sure = FALSE]
           IN  /\ u \in Doing /\ u.at = o.at /\ Restrained(u)
               /\ Writes(u) <=> Writes(o)
               /\ o.at \in AskingSteps => u.id = o.id
<1> DEFINE u == [o EXCEPT !.sure = FALSE]
<1>1. CASE o \in Asking
  <2>1. u \in Asking /\ u.at = o.at /\ u.kind = o.kind /\ ~u.sure /\ u.id = o.id
    BY <1>1 DEF Asking
  <2> QED BY <2>1 DEF Doing, Restrained, Writes
<1>2. CASE o \in Other
  <2>1. u \in Other /\ u.at = o.at /\ ~u.sure /\ o.at \notin AskingSteps
    BY <1>2 DEF Other, OtherSteps, AskingSteps
  <2> QED BY <2>1 DEF Doing, Restrained, Writes, AskingSteps
<1> QED BY <1>1, <1>2 DEF Doing

----------------------------------------------------------------------------
(* The steps *)

\* A step of one request that leaves the table and the lock alone, and does not read the
\* highest identifier.
LEMMA QuietStep ==
    ASSUME RecordInv, NEW r \in Req, NEW o \in Doing, Goes(r, o), Restrained(o),
           Writes(o) => Writes(op[r]) /\ o.id = op[r].id,
           UNCHANGED <<rows, holder, touched, misread>>, inserts' \in Nat
    PROVE  RecordInv'
<1>1. /\ op' \in [Req -> Doing] /\ op'[r] = o
      /\ \A q \in Req : q # r => op'[q] = op[q]
  BY GoesFacts DEF RecordInv, TypeInv
<1>2. TypeInv' /\ Bounded' /\ IdsUnique' /\ OwnRowsOnly'
  BY <1>1 DEF RecordInv, TypeInv, Bounded, IdsUnique, OwnRowsOnly
<1>3. \A q \in Req : Writes(op'[q]) => Writes(op[q]) /\ op'[q].id = op[q].id
  BY <1>1
<1>4. LockHeld'
  BY <1>3 DEF RecordInv, LockHeld, Writes
<1>5. Fresh'
  <2> SUFFICES ASSUME ~misread, NEW q \in Req, Writes(op'[q]), NEW n \in DOMAIN rows
               PROVE  rows[n].id < op'[q].id
    BY DEF Fresh, Writes
  <2>1. rows[n].id < op[q].id
    BY <1>3 DEF RecordInv, Fresh
  <2> QED BY <1>3, <2>1
<1>6. PolicyKnown'
  <2>1. \A q \in Req : Restrained(op'[q])
    BY <1>1 DEF RecordInv, PolicyKnown
  <2> QED BY <2>1 DEF PolicyKnown, Restrained
<1> QED BY <1>2, <1>4, <1>5, <1>6 DEF RecordInv

\* The end of a request that adds no row and gives none another identifier.
LEMMA EndStep ==
    ASSUME RecordInv, NEW r \in Req, Ends(r),
           rows' = [n \in DOMAIN rows' |-> rows'[n]],
           \A n \in DOMAIN rows' :
              n \in DOMAIN rows /\ rows'[n] \in Row /\ rows'[n].id = rows[n].id,
           OwnRowsOnly', UNCHANGED <<misread, inserts>>
    PROVE  RecordInv'
<1>1. /\ op' \in [Req -> Doing] /\ op'[r] = Idle
      /\ \A q \in Req : q # r => op'[q] = op[q]
  BY IdlePlace, GoesFacts DEF Ends, RecordInv, TypeInv
<1>2. TypeInv'
  BY <1>1 DEF RecordInv, TypeInv
<1>3. Bounded'
  <2>1. PICK b \in Nat : \A n \in DOMAIN rows : rows[n].id <= b
    BY DEF RecordInv, Bounded
  <2>2. \A n \in DOMAIN rows' : rows'[n].id <= b
    BY <2>1
  <2> QED BY <2>2 DEF Bounded
<1>4. \A q \in Req : Writes(op'[q]) => q # r /\ op'[q] = op[q] /\ Writes(op[q])
  BY <1>1, IdlePlace
<1>5. LockHeld'
  <2>1. \A q \in Req : Writes(op'[q]) => holder' = q
    BY <1>4 DEF Ends, RecordInv, LockHeld
  <2> QED BY <2>1 DEF LockHeld, Writes
<1>6. Fresh'
  <2> SUFFICES ASSUME ~misread, NEW q \in Req, Writes(op'[q]), NEW n \in DOMAIN rows'
               PROVE  rows'[n].id < op'[q].id
    BY DEF Fresh, Writes
  <2>1. rows[n].id < op[q].id
    BY <1>4 DEF RecordInv, Fresh
  <2> QED BY <1>4, <2>1
<1>7. IdsUnique'
  BY DEF RecordInv, IdsUnique
<1>8. PolicyKnown'
  <2>1. \A q \in Req : Restrained(op'[q])
    BY <1>1, IdlePlace DEF RecordInv, PolicyKnown
  <2> QED BY <2>1 DEF PolicyKnown, Restrained
<1> QED BY <1>2, <1>3, <1>5, <1>6, <1>7, <1>8 DEF RecordInv

\* What a statement touches is the session's own, if it is sure to be restricted.
LEMMA TouchStep ==
    ASSUME RecordInv, NEW r \in Req, At(r, "statement"), NEW owners, Touches(r, owners),
           op[r].restricted => \A owner \in owners : owner = op[r].owner
    PROVE  OwnRowsOnly'
<1>1. op[r].sure => op[r].restricted /\ op[r].owner = op[r].user
  BY DEF RecordInv, PolicyKnown, Restrained, At
<1>2. CASE op[r].sure
  <2>1. touched' = touched \cup {[by |-> op[r].user, owner |-> owner] : owner \in owners}
    BY <1>2 DEF Touches
  <2>2. \A owner \in owners : owner = op[r].user
    BY <1>1, <1>2
  <2> QED BY <2>1, <2>2 DEF RecordInv, OwnRowsOnly
<1>3. CASE ~op[r].sure
  BY <1>3 DEF Touches, RecordInv, OwnRowsOnly
<1> QED BY <1>2, <1>3

\* A request begins: an insert has the lock ahead of it.
LEMMA AskStep ==
    ASSUME RecordInv, NEW r \in Req, NEW u \in Name, NEW kind \in Kind, NEW id \in Nat,
           NEW owner \in Name, Ask(r, u, kind, id, owner)
    PROVE  RecordInv'
<1>1. inserts' \in Nat /\ UNCHANGED <<rows, holder, touched, misread>>
  BY DEF Ask, RecordInv, TypeInv
<1> DEFINE at == IF policies > 0 THEN "resolve" ELSE Ready(kind)
           row == IF kind = "insert" THEN inserts' ELSE 0
           sure == policies > 0 /\ u \notin Admin
           o == [at |-> at, user |-> u, kind |-> kind, row |-> row, id |-> id, owner |-> owner,
                 sure |-> sure, restricted |-> FALSE]
<1>2. Goes(r, o)
  BY DEF Ask
<1>3. at \in AskingSteps /\ row \in Nat /\ sure \in BOOLEAN
  BY <1>1 DEF AskingSteps, Ready
<1>4. (sure => at = "resolve") /\ (kind = "insert" => at # "statement")
  BY DEF Ready
<1>5. sure => u \notin Admin
  OBVIOUS
<1> HIDE DEF at, row, sure
<1>6. /\ o \in Asking /\ o.at = at /\ o.kind = kind /\ o.sure = sure /\ o.user = u
  BY <1>3 DEF Asking
<1> HIDE DEF o
<1>7. o \in Doing /\ Restrained(o) /\ ~Writes(o)
  BY <1>3, <1>4, <1>5, <1>6 DEF Doing, Restrained, Writes
<1> QED BY <1>1, <1>2, <1>7, QuietStep

\* The session turns out to be an administrator's or not.
LEMMA ResolveStep ==
    ASSUME RecordInv, NEW r \in Req, Resolve(r)
    PROVE  RecordInv'
<1>1. /\ op[r] \in Doing /\ op[r].at = "resolve" /\ inserts' \in Nat
      /\ UNCHANGED <<rows, holder, touched, misread>>
  BY DEF Resolve, At, RecordInv, TypeInv
<1>2. op[r] \in Asking
  BY <1>1, PlaceFacts DEF AskingSteps
<1> DEFINE at == Ready(op[r].kind)
           restricted == op[r].user \notin Admin
           owner == IF op[r].user \in Admin THEN op[r].owner ELSE op[r].user
           o == [op[r] EXCEPT !.at = at, !.restricted = restricted, !.owner = owner]
<1>3. Goes(r, o)
  BY DEF Resolve
<1>4. /\ at \in {"max", "statement"} /\ (op[r].kind = "insert" => at = "max")
      /\ restricted \in BOOLEAN
  BY DEF Ready
<1>5. owner \in Name /\ (restricted => owner = op[r].user)
  BY <1>2 DEF Asking
<1>6. op[r].sure => restricted
  BY DEF RecordInv, PolicyKnown, Restrained
<1>7. restricted => op[r].user \notin Admin
  OBVIOUS
<1> HIDE DEF at, restricted, owner
<1>8. /\ o \in Asking /\ o.at = at /\ o.restricted = restricted /\ o.owner = owner
      /\ o.kind = op[r].kind /\ o.user = op[r].user /\ o.sure = op[r].sure
  BY <1>2, <1>4, <1>5 DEF Asking, AskingSteps
<1> HIDE DEF o
<1>9. o \in Doing /\ Restrained(o) /\ ~Writes(o)
  BY <1>4, <1>5, <1>6, <1>7, <1>8 DEF Doing, Restrained, Writes, AskingSteps
<1> QED BY <1>1, <1>3, <1>9, QuietStep

\* The highest identifier is read under the lock: nobody else is about to insert.
LEMMA ReadStep ==
    ASSUME Nobody \notin Req, RecordInv, NEW r \in Req, ReadMax(r)
    PROVE  RecordInv'
<1>1. /\ op[r] \in Doing /\ op[r].at = "max" /\ op \in [Req -> Doing]
      /\ holder = Nobody /\ holder' = r
      /\ UNCHANGED <<rows, touched, inserts>> /\ misread' \in BOOLEAN /\ (misread => misread')
  BY DEF ReadMax, Lock, At, RecordInv, TypeInv
<1>2. op[r] \in Asking
  BY <1>1, PlaceFacts DEF AskingSteps
<1> DEFINE next == IF Ids(rows) = {} THEN 1
                   ELSE 1 + CHOOSE m \in Ids(rows) : \A k \in Ids(rows) : k <= m
<1>3. next \in Nat /\ \A n \in DOMAIN rows : rows[n].id < next
  BY NextId DEF RecordInv
<1>4. PICK id \in Nat :
         /\ Goes(r, [op[r] EXCEPT !.at = "statement", !.id = id])
         /\ ~misread' => \A n \in DOMAIN rows : rows[n].id < id
  <2>1. \/ Goes(r, [op[r] EXCEPT !.at = "statement", !.id = next])
        \/ misread' /\ Goes(r, [op[r] EXCEPT !.at = "statement", !.id = 1])
    BY DEF ReadMax
  <2> HIDE DEF next
  <2> QED BY <1>3, <2>1
<1> DEFINE o == [op[r] EXCEPT !.at = "statement", !.id = id]
<1>5. /\ o \in Asking /\ o.at = "statement" /\ o.id = id /\ o.restricted = op[r].restricted
      /\ o.owner = op[r].owner /\ o.user = op[r].user /\ o.sure = op[r].sure
  BY <1>2 DEF Asking, AskingSteps
<1>6. Goes(r, o)
  BY <1>4
<1> HIDE DEF o
<1>7. o \in Doing /\ Restrained(o)
  BY <1>1, <1>5 DEF Doing, RecordInv, PolicyKnown, Restrained, AskingSteps
<1>8. /\ op' \in [Req -> Doing] /\ op'[r] = o
      /\ \A q \in Req : q # r => op'[q] = op[q]
  BY <1>1, <1>6, <1>7, GoesFacts
<1>9. \A q \in Req : ~Writes(op[q])
  BY <1>1 DEF RecordInv, LockHeld
<1>10. \A q \in Req : Writes(op'[q]) => q = r
  BY <1>8, <1>9
<1>11. TypeInv' /\ Bounded' /\ OwnRowsOnly'
  BY <1>1, <1>8 DEF RecordInv, TypeInv, Bounded, OwnRowsOnly
<1>12. LockHeld'
  BY <1>1, <1>10 DEF LockHeld, Writes
<1>13. Fresh'
  <2>1. ASSUME ~misread', NEW q \in Req, Writes(op'[q]), NEW n \in DOMAIN rows'
        PROVE  rows'[n].id < op'[q].id
    BY <1>1, <1>4, <1>5, <1>8, <1>10, <2>1
  <2> QED BY <2>1 DEF Fresh, Writes
<1>14. IdsUnique'
  BY <1>1 DEF RecordInv, IdsUnique
<1>15. PolicyKnown'
  <2>1. \A q \in Req : Restrained(op'[q])
    BY <1>7, <1>8 DEF RecordInv, PolicyKnown
  <2> QED BY <2>1 DEF PolicyKnown, Restrained
<1> QED BY <1>11, <1>12, <1>13, <1>14, <1>15 DEF RecordInv

\* A row is inserted, by the only one who is about to.
LEMMA InsertStep ==
    ASSUME RecordInv, NEW r \in Req, Insert(r)
    PROVE  RecordInv'
<1>1. /\ op[r] \in Doing /\ op[r].at = "statement" /\ Writes(op[r]) /\ op \in [Req -> Doing]
      /\ UNCHANGED <<misread, inserts>> /\ Ends(r)
  BY DEF Insert, At, Writes, RecordInv, TypeInv
<1>2. op[r] \in Asking
  BY <1>1, PlaceFacts DEF AskingSteps
<1> DEFINE k == op[r].row
           new == [id |-> op[r].id, owner |-> op[r].owner]
<1>3. rows' = [n \in DOMAIN rows \cup {k} |-> IF n = k THEN new ELSE rows[n]]
  BY DEF Insert
<1>4. new \in Row /\ new.id = op[r].id /\ op[r].id \in Nat
  BY <1>2 DEF Asking, Row
<1> HIDE DEF k, new
<1>5. /\ DOMAIN rows' = DOMAIN rows \cup {k} /\ rows'[k] = new
      /\ \A n \in DOMAIN rows' : n # k => n \in DOMAIN rows /\ rows'[n] = rows[n]
      /\ rows' = [n \in DOMAIN rows' |-> rows'[n]]
  BY <1>3
<1>6. /\ op' \in [Req -> Doing] /\ op'[r] = Idle
      /\ \A q \in Req : q # r => op'[q] = op[q]
  BY <1>1, IdlePlace, GoesFacts DEF Ends
<1>7. \A q \in Req : ~Writes(op'[q])
  BY <1>1, <1>6, IdlePlace DEF RecordInv, LockHeld
<1>8. TypeInv'
  <2>1. \A n \in DOMAIN rows' : rows'[n] \in Row
    BY <1>4, <1>5 DEF RecordInv, TypeInv
  <2> QED BY <1>1, <1>5, <1>6, <2>1 DEF RecordInv, TypeInv
<1>9. Bounded'
  <2>1. PICK b \in Nat : \A n \in DOMAIN rows : rows[n].id <= b
    BY DEF RecordInv, Bounded
  <2>2. \A n \in DOMAIN rows : rows[n].id \in Nat
    BY DEF RecordInv, TypeInv, Row
  <2>3. b + op[r].id \in Nat /\ \A n \in DOMAIN rows' : rows'[n].id <= b + op[r].id
    BY <1>4, <1>5, <2>1, <2>2
  <2> QED BY <2>3 DEF Bounded
<1>10. LockHeld' /\ Fresh'
  BY <1>7 DEF LockHeld, Fresh, Writes
<1>11. IdsUnique'
  <2> SUFFICES ASSUME ~misread, NEW i \in DOMAIN rows', NEW j \in DOMAIN rows',
                      rows'[i].id = rows'[j].id
               PROVE  i = j
    BY <1>1 DEF IdsUnique
  <2>1. \A n \in DOMAIN rows : rows[n].id \in Nat /\ rows[n].id < new.id
    BY <1>1, <1>4 DEF RecordInv, Fresh, TypeInv, Row
  <2>2. \A n \in DOMAIN rows' : n # k => rows'[n].id < new.id /\ rows'[n].id \in Nat
    BY <1>5, <2>1
  <2>3. CASE i = k \/ j = k
    BY <1>4, <1>5, <2>2, <2>3
  <2>4. CASE i # k /\ j # k
    BY <1>5, <2>4 DEF RecordInv, IdsUnique
  <2> QED BY <2>3, <2>4
<1>12. PolicyKnown'
  <2>1. \A q \in Req : Restrained(op'[q])
    BY <1>6, IdlePlace DEF RecordInv, PolicyKnown
  <2> QED BY <2>1 DEF PolicyKnown, Restrained
<1>13. OwnRowsOnly'
  <2>1. Touches(r, {op[r].owner})
    BY DEF Insert
  <2> QED BY <1>1, <2>1, TouchStep DEF At
<1> QED BY <1>8, <1>9, <1>10, <1>11, <1>12, <1>13 DEF RecordInv

\* A row is read, changed or deleted: what a restricted session hits is its own.
LEMMA HitStep ==
    ASSUME RecordInv, NEW r \in Req, Get(r) \/ Update(r) \/ Delete(r)
    PROVE  RecordInv'
<1>1. /\ op[r] \in Doing /\ op[r].at = "statement"
      /\ UNCHANGED <<misread, inserts>> /\ Ends(r)
  BY DEF Get, Update, Delete, At, RecordInv, TypeInv
<1>2. op[r] \in Asking
  BY <1>1, PlaceFacts DEF AskingSteps
<1>3. op[r].restricted => \A owner \in HitOwners(r) : owner = op[r].owner
  BY DEF HitOwners, Hits
<1>4. \A n \in DOMAIN rows : rows[n] \in Row
  BY DEF RecordInv, TypeInv
<1>5. CASE Get(r)
  <2>1. rows' = rows /\ OwnRowsOnly'
    BY <1>1, <1>3, <1>5, TouchStep DEF Get, At
  <2> QED BY <1>1, <1>4, <2>1, EndStep DEF RecordInv, TypeInv
<1>6. CASE Update(r)
  <2> DEFINE hit == {n \in DOMAIN rows : Hits(r, rows[n])}
  <2>1. rows' = [n \in DOMAIN rows |-> IF Hits(r, rows[n]) THEN [rows[n] EXCEPT !.owner = op[r].owner]
                                                           ELSE rows[n]]
    BY <1>6 DEF Update
  <2>2. \A row \in Row : /\ [row EXCEPT !.owner = op[r].owner] \in Row
                         /\ [row EXCEPT !.owner = op[r].owner].id = row.id
                         /\ [row EXCEPT !.owner = op[r].owner].owner = op[r].owner
    BY <1>2 DEF Row, Asking
  <2>3. /\ DOMAIN rows' = DOMAIN rows /\ rows' = [n \in DOMAIN rows' |-> rows'[n]]
        /\ \A n \in DOMAIN rows' : rows'[n] \in Row /\ rows'[n].id = rows[n].id
        /\ \A n \in hit : rows'[n].owner = op[r].owner
    BY <1>4, <2>1, <2>2
  <2>4. OwnRowsOnly'
    <3>1. Touches(r, HitOwners(r) \cup {rows'[n].owner : n \in hit})
      BY <1>6 DEF Update
    <3>2. \A owner \in {rows'[n].owner : n \in hit} : owner = op[r].owner
      BY <2>3
    <3> HIDE DEF hit
    <3> QED BY <1>1, <1>3, <3>1, <3>2, TouchStep DEF At
  <2> QED BY <1>1, <2>3, <2>4, EndStep
<1>7. CASE Delete(r)
  <2>1. rows' = [n \in {m \in DOMAIN rows : ~Hits(r, rows[m])} |-> rows[n]]
    BY <1>7 DEF Delete
  <2>2. /\ rows' = [n \in DOMAIN rows' |-> rows'[n]]
        /\ \A n \in DOMAIN rows' :
              n \in DOMAIN rows /\ rows'[n] \in Row /\ rows'[n].id = rows[n].id
    BY <1>4, <2>1
  <2>3. OwnRowsOnly'
    BY <1>1, <1>3, <1>7, TouchStep DEF Delete, At
  <2> QED BY <1>1, <2>2, <2>3, EndStep
<1> QED BY <1>5, <1>6, <1>7

\* A statement fails, or the policy is inserted again.
LEMMA QuietEndStep ==
    ASSUME RecordInv, NEW r \in Req, Fail(r) \/ InsertPolicy(r)
    PROVE  RecordInv'
<1>1. Ends(r) /\ UNCHANGED <<rows, touched, misread, inserts>>
  BY DEF Fail, InsertPolicy
<1>2. OwnRowsOnly'
  BY <1>1 DEF RecordInv, OwnRowsOnly
<1> QED BY <1>1, <1>2, EndStep DEF RecordInv, TypeInv

\* A session ends under a request.
LEMMA LogoutStep ==
    ASSUME RecordInv, NEW r \in Req, Logout(r)
    PROVE  RecordInv'
<1>1. /\ op[r] \in Doing /\ UNCHANGED <<rows, holder, touched, misread>> /\ inserts' \in Nat
  BY DEF Logout, RecordInv, TypeInv
<1> DEFINE o == [op[r] EXCEPT !.user = Nobody, !.sure = FALSE]
<1>2. Goes(r, o)
  BY DEF Logout
<1>3. o \in Doing /\ Restrained(o) /\ (Writes(o) => Writes(op[r]) /\ o.id = op[r].id)
  <2>1. CASE op[r] \in Asking
    <3>1. o \in Asking /\ ~o.sure /\ o.at = op[r].at /\ o.kind = op[r].kind /\ o.id = op[r].id
      BY <2>1 DEF Asking, Name
    <3> HIDE DEF o
    <3> QED BY <3>1 DEF Doing, Restrained, Writes
  <2>2. CASE op[r] \in Other
    <3>1. o \in Other /\ ~o.sure /\ o.at # "statement"
      BY <2>2 DEF Other, OtherSteps, Name
    <3> HIDE DEF o
    <3> QED BY <3>1 DEF Doing, Restrained, Writes
  <2> QED BY <1>1, <2>1, <2>2 DEF Doing
<1> HIDE DEF o
<1> QED BY <1>1, <1>2, <1>3, QuietStep

\* The policy goes: nobody is sure to be restricted any more.
LEMMA PolicyStep ==
    ASSUME RecordInv, DeletePolicy \/ \E r \in Req : SavePolicy(r)
    PROVE  RecordInv'
<1>1. op \in [Req -> Doing] /\ UNCHANGED <<rows, holder, touched, misread, inserts>>
  BY DEF DeletePolicy, SavePolicy, RecordInv, TypeInv
<1>2. /\ PolicyGone(op) \in [Req -> Doing]
      /\ \A q \in Req : /\ PolicyGone(op)[q].at = op[q].at /\ Restrained(PolicyGone(op)[q])
                        /\ Writes(PolicyGone(op)[q]) =>
                              Writes(op[q]) /\ PolicyGone(op)[q].id = op[q].id
  <2>1. \A q \in Req : op[q] \in Doing
    BY <1>1
  <2>2. \A q \in Req : PolicyGone(op)[q] = [op[q] EXCEPT !.sure = FALSE]
    BY DEF PolicyGone
  <2>3. \A q \in Req :
           /\ PolicyGone(op)[q] \in Doing
           /\ PolicyGone(op)[q].at = op[q].at /\ Restrained(PolicyGone(op)[q])
           /\ Writes(PolicyGone(op)[q]) => Writes(op[q]) /\ PolicyGone(op)[q].id = op[q].id
    <3> TAKE q \in Req
    <3> DEFINE o == op[q]
               u == [o EXCEPT !.sure = FALSE]
    <3>1. o \in Doing /\ PolicyGone(op)[q] = u
      BY <2>1, <2>2
    <3> HIDE DEF o
    <3>2. /\ u \in Doing /\ u.at = o.at /\ Restrained(u)
          /\ Writes(u) <=> Writes(o)
          /\ o.at \in AskingSteps => u.id = o.id
      BY <3>1, UnsurePlace
    <3>3. Writes(o) => o.at \in AskingSteps
      BY DEF Writes, AskingSteps
    <3>4. /\ u \in Doing /\ u.at = o.at /\ Restrained(u)
          /\ Writes(u) => Writes(o) /\ u.id = o.id
      BY <3>2, <3>3
    <3> HIDE DEF u
    <3> QED BY <3>1, <3>4 DEF o
  <2>4. PolicyGone(op) = [q \in Req |-> PolicyGone(op)[q]]
    BY DEF PolicyGone
  <2> HIDE DEF PolicyGone
  <2> QED BY <2>3, <2>4
<1>3. /\ op' \in [Req -> Doing]
      /\ \A q \in Req : Restrained(op'[q])
      /\ \A q \in Req : Writes(op'[q]) => Writes(op[q]) /\ op'[q].id = op[q].id
  <2>1. CASE DeletePolicy
    BY <1>2, <2>1 DEF DeletePolicy
  <2>2. ASSUME NEW r \in Req, SavePolicy(r)
        PROVE  /\ op' \in [Req -> Doing]
               /\ \A q \in Req : Restrained(op'[q])
               /\ \A q \in Req : Writes(op'[q]) => Writes(op[q]) /\ op'[q].id = op[q].id
    <3> DEFINE gone == PolicyGone(op)
               o == [gone[r] EXCEPT !.at = "policy insert"]
    <3>1. op' = [gone EXCEPT ![r] = o] /\ op[r].at = "idle"
      BY <2>2 DEF SavePolicy, At
    <3>2. gone \in [Req -> Doing] /\ gone[r].at = "idle"
      BY <1>2, <3>1
    <3>3. gone[r] \in Other
      BY <3>2 DEF Doing, Asking, AskingSteps
    <3>4. ~gone[r].sure
      <4>1. gone[r] = [op[r] EXCEPT !.sure = FALSE]
        BY DEF PolicyGone
      <4>2. op[r] \in Other
        BY <1>1, <3>1 DEF Doing, Asking, AskingSteps
      <4> QED BY <4>1, <4>2 DEF Other
    <3> HIDE DEF gone
    <3>5. o \in Other /\ o.at = "policy insert" /\ ~o.sure
      BY <3>3, <3>4 DEF Other, OtherSteps
    <3>6. o \in Doing /\ Restrained(o) /\ ~Writes(o)
      <4> HIDE DEF o
      <4> QED BY <3>5 DEF Doing, Restrained, Writes
    <3> HIDE DEF o
    <3>7. /\ op' \in [Req -> Doing] /\ op'[r] = o
          /\ \A q \in Req : q # r => op'[q] = gone[q]
      BY <3>1, <3>2, <3>6
    <3> QED BY <1>2, <3>6, <3>7 DEF gone
  <2> QED BY <2>1, <2>2
<1>4. TypeInv' /\ Bounded' /\ IdsUnique' /\ OwnRowsOnly'
  BY <1>1, <1>3 DEF RecordInv, TypeInv, Bounded, IdsUnique, OwnRowsOnly
<1>5. LockHeld'
  <2>1. \A q \in Req : Writes(op'[q]) => holder' = q
    BY <1>1, <1>3 DEF RecordInv, LockHeld
  <2> QED BY <2>1 DEF LockHeld, Writes
<1>6. Fresh'
  <2>1. ASSUME ~misread', NEW q \in Req, Writes(op'[q]), NEW n \in DOMAIN rows'
        PROVE  rows'[n].id < op'[q].id
    <3>1. rows[n].id < op[q].id
      BY <1>1, <1>3, <2>1 DEF RecordInv, Fresh
    <3> QED BY <1>1, <1>3, <2>1, <3>1
  <2> QED BY <2>1 DEF Fresh, Writes
<1>7. PolicyKnown'
  BY <1>3 DEF PolicyKnown, Restrained
<1> QED BY <1>4, <1>5, <1>6, <1>7 DEF RecordInv

----------------------------------------------------------------------------
(* The theorems *)

\* Every step keeps the invariant.
LEMMA RecordInvStep ==
    ASSUME Nobody \notin Req
    PROVE  RecordInv /\ [Next]_vars => RecordInv'
<1> SUFFICES ASSUME RecordInv, [Next]_vars PROVE RecordInv'
  OBVIOUS
<1>1. Nobody \in Name /\ User \subseteq Name /\ Ids(rows) \subseteq Nat
  BY DEF Name, Ids, RecordInv, TypeInv, Row
<1>2. ASSUME NEW r \in Req, NEW u \in Name, NEW owner \in Name, NEW kind \in Kind, NEW id \in Nat,
             Ask(r, u, kind, id, owner)
      PROVE  RecordInv'
  BY <1>2, AskStep
<1>3. ASSUME NEW r \in Req, Resolve(r) \/ ReadMax(r) \/ Get(r) \/ Insert(r) \/ Update(r) \/ Delete(r)
      PROVE  RecordInv'
  BY <1>3, ResolveStep, ReadStep, InsertStep, HitStep
<1>4. ASSUME NEW r \in Req, Fail(r) \/ Logout(r) \/ SavePolicy(r) \/ InsertPolicy(r)
      PROVE  RecordInv'
  BY <1>4, QuietEndStep, LogoutStep, PolicyStep
<1>5. CASE DeletePolicy
  BY <1>5, PolicyStep
<1>6. CASE UNCHANGED vars
  <2>1. UNCHANGED <<rows, holder, op, touched, misread, inserts>>
    BY <1>6 DEF vars
  <2>2. TypeInv' /\ Bounded' /\ IdsUnique' /\ OwnRowsOnly'
    BY <2>1 DEF RecordInv, TypeInv, Bounded, IdsUnique, OwnRowsOnly
  <2>3. LockHeld' /\ Fresh' /\ PolicyKnown'
    BY <2>1 DEF RecordInv, LockHeld, Fresh, PolicyKnown, Writes, Restrained
  <2> QED BY <2>2, <2>3 DEF RecordInv
<1>7. CASE Next
  <2>1. ASSUME NEW r \in Req, NEW u \in User \cup {Nobody}, NEW owner \in User \cup {Nobody},
               Ask(r, u, "insert", 0, owner)
        PROVE  RecordInv'
    BY <1>2, <2>1 DEF Name, Kind
  <2>2. ASSUME NEW r \in Req, NEW u \in User \cup {Nobody}, NEW kind \in {"get", "delete"},
               NEW id \in Ids(rows), Ask(r, u, kind, id, Nobody)
        PROVE  RecordInv'
    BY <1>1, <1>2, <2>2 DEF Name, Kind
  <2>3. ASSUME NEW r \in Req, NEW u \in User, NEW owner \in User, NEW id \in Ids(rows),
               Ask(r, u, "update", id, owner)
        PROVE  RecordInv'
    BY <1>1, <1>2, <2>3 DEF Name, Kind
  <2> QED BY <1>3, <1>4, <1>5, <1>7, <2>1, <2>2, <2>3 DEF Next
<1> QED BY <1>6, <1>7

\* The table is empty at first.
LEMMA RecordInvInit == Init => RecordInv
<1> SUFFICES ASSUME Init PROVE RecordInv
  OBVIOUS
<1>1. op \in [Req -> Doing] /\ \A r \in Req : ~Writes(op[r]) /\ Restrained(op[r])
  BY IdlePlace DEF Init
<1>2. rows = [n \in DOMAIN rows |-> rows[n]] /\ DOMAIN rows = {}
  BY DEF Init
<1>3. TypeInv /\ Bounded
  BY <1>1, <1>2 DEF Init, TypeInv, Bounded
<1>4. LockHeld /\ Fresh /\ PolicyKnown
  BY <1>1 DEF LockHeld, Fresh, PolicyKnown
<1>5. IdsUnique /\ OwnRowsOnly
  BY <1>2 DEF Init, IdsUnique, OwnRowsOnly
<1> QED BY <1>3, <1>4, <1>5 DEF RecordInv

\* No two records of a table ever have one identifier, as long as the highest one can be
\* read (insertRecord under recordIDMu): for any number of requests, as long as the free
\* lock is nobody.
THEOREM IdentifiersUnique ==
    ASSUME Nobody \notin Req
    PROVE  Spec => []IdsUnique
<1>1. RecordInv => IdsUnique
  BY DEF RecordInv
<1> QED BY <1>1, RecordInvInit, RecordInvStep, PTL DEF Spec

\* While a table's policy is in force, a session that is not an administrator's touches
\* rows of its own only (rowPolicyOwnerColumnAndArg in every record statement).
THEOREM PolicyHolds ==
    ASSUME Nobody \notin Req
    PROVE  Spec => []OwnRowsOnly
<1>1. RecordInv => OwnRowsOnly
  BY DEF RecordInv
<1> QED BY <1>1, RecordInvInit, RecordInvStep, PTL DEF Spec

----------------------------------------------------------------------------
(* BI objects *)

BISave == [at : {"delete", "insert"}, by : User, kind : Objects!Kind, id : Id,
           owner : User \cup {Nobody}, sure : BOOLEAN]

BIRemoval == [at : {"drop"}, by : User, kind : Objects!Kind, id : Id, sure : BOOLEAN]

BIDoing == {Objects!Idle} \cup BISave \cup BIRemoval

BITypes == table \in [Objects!Kind -> SUBSET Objects!Row] /\ biOp \in [Req -> BIDoing]

\* The requests about an object that are sure of its owner, and those that will store it.
Sure(k, id) == {r \in Req : biOp[r].at # "idle" /\ biOp[r].kind = k /\ biOp[r].id = id /\ biOp[r].sure}

Saving(k, id) == {r \in Sure(k, id) : biOp[r].at # "drop"}

\* The owners of an object, by its rows and by the saves that are sure of it.
Owners(k, id) ==
    {row.owner : row \in Objects!Found(k, id)} \cup {biOp[r].owner : r \in Saving(k, id)}

\* Who is sure may change the object of any of them; who will store it, is one of them.
Decided(r, k, id) ==
    \A o \in Owners(k, id) :
        /\ Objects!MayChange(biOp[r].by, o)
        /\ biOp[r].at # "drop" => o = biOp[r].owner

Settled == \A k \in Objects!Kind, id \in Id : \A r \in Sure(k, id) : Decided(r, k, id)

BIInv == BITypes /\ Settled

\* What a request that is under way knows.
LEMMA BIDoingFacts ==
    ASSUME NEW o \in BIDoing, o.at # "idle"
    PROVE  /\ o.by \in User /\ o.kind \in Objects!Kind /\ o.id \in Id /\ o.sure \in BOOLEAN
           /\ o.at \in {"delete", "insert"} => o \in BISave /\ o.owner \in User \cup {Nobody}
           /\ o.at = "drop" => o \in BIRemoval
           /\ o.at \in {"delete", "insert", "drop"}
<1>1. CASE o \in BISave
  BY <1>1 DEF BISave
<1>2. CASE o \in BIRemoval
  BY <1>2 DEF BIRemoval
<1>3. o # Objects!Idle
  BY DEF Objects!Idle
<1> QED BY <1>1, <1>2, <1>3 DEF BIDoing

\* A request that goes on leaves the others where they are.
LEMMA BIGoes ==
    ASSUME biOp \in [Req -> BIDoing], NEW r \in Req, NEW o \in BIDoing, Objects!Goes(r, o)
    PROVE  /\ biOp' \in [Req -> BIDoing]
           /\ biOp'[r] = o
           /\ \A q \in Req : q # r => biOp'[q] = biOp[q]
BY DEF Objects!Goes

\* A request does in the next state what it does in this one, but for the step it is at.
Same(r) ==
    /\ biOp[r].at # "idle" /\ biOp[r].sure
    /\ biOp'[r].by = biOp[r].by /\ biOp'[r].kind = biOp[r].kind /\ biOp'[r].id = biOp[r].id
    /\ biOp'[r].at # "drop" => biOp[r].at # "drop" /\ biOp'[r].owner = biOp[r].owner

\* A step that adds no owner to an object that somebody is sure of keeps all decided,
\* when those who have become sure are.
LEMMA OwnersKept ==
    ASSUME Settled,
           \A k \in Objects!Kind, id \in Id : \A r \in Sure(k, id)' :
               /\ Owners(k, id)' \subseteq Owners(k, id)
               /\ \/ Same(r)
                  \/ \A o \in Owners(k, id) :
                        /\ Objects!MayChange(biOp'[r].by, o)
                        /\ biOp'[r].at # "drop" => o = biOp'[r].owner
    PROVE  Settled'
<1> SUFFICES ASSUME NEW k \in Objects!Kind, NEW id \in Id, NEW r \in Sure(k, id)',
                    NEW o \in Owners(k, id)'
             PROVE  /\ Objects!MayChange(biOp'[r].by, o)
                    /\ biOp'[r].at # "drop" => o = biOp'[r].owner
  BY DEF Settled, Decided
<1>1. o \in Owners(k, id)
  OBVIOUS
<1>2. CASE Same(r)
  <2>1. r \in Sure(k, id)
    BY <1>2 DEF Sure, Same
  <2> QED BY <1>1, <1>2, <2>1 DEF Settled, Decided, Same
<1> QED BY <1>1, <1>2

\* So does one that leaves what the requests are about, and the tables but for rows they lose.
LEMMA OwnersFewer ==
    ASSUME Settled, \A k \in Objects!Kind : table'[k] \subseteq table[k],
           \A k \in Objects!Kind, id \in Id : \A r \in Sure(k, id)' : Same(r)
    PROVE  Settled'
<1> SUFFICES ASSUME NEW k \in Objects!Kind, NEW id \in Id, NEW o \in Owners(k, id)'
             PROVE  o \in Owners(k, id)
  BY OwnersKept
<1>1. CASE \E row \in Objects!Found(k, id)' : o = row.owner
  BY <1>1 DEF Owners, Objects!Found
<1>2. CASE \E r \in Saving(k, id)' : o = biOp'[r].owner
  <2>1. PICK r \in Saving(k, id)' : o = biOp'[r].owner
    BY <1>2
  <2>2. r \in Sure(k, id)' /\ Same(r)
    BY <2>1 DEF Saving
  <2>3. r \in Saving(k, id) /\ o = biOp[r].owner
    BY <2>1, <2>2 DEF Saving, Sure, Same
  <2> QED BY <2>3 DEF Owners
<1> QED BY <1>1, <1>2 DEF Owners

\* The table after a step that replaces the rows of one kind.
LEMMA BITable ==
    ASSUME BITypes, NEW k \in Objects!Kind, NEW new \in SUBSET Objects!Row,
           table' = [table EXCEPT ![k] = new]
    PROVE  /\ table' \in [Objects!Kind -> SUBSET Objects!Row]
           /\ table'[k] = new
           /\ \A l \in Objects!Kind : l # k => table'[l] = table[l]
BY DEF BITypes

\* The old rows are deleted.
LEMMA BIDeleteOld ==
    ASSUME BIInv, NEW r \in Req, Objects!DeleteOld(r)
    PROVE  BIInv'
<1> DEFINE o == biOp[r]
           n == [o EXCEPT !.at = "insert"]
<1>1. o \in BISave /\ o.at = "delete"
  BY BIDoingFacts DEF BIInv, BITypes, Objects!DeleteOld, Objects!At
<1>2. /\ n \in BISave /\ n.at = "insert" /\ n.by = o.by /\ n.kind = o.kind
      /\ n.id = o.id /\ n.owner = o.owner /\ n.sure = o.sure
  BY <1>1 DEF BISave
<1>3. /\ biOp' \in [Req -> BIDoing] /\ biOp'[r] = n
      /\ \A q \in Req : q # r => biOp'[q] = biOp[q]
  <2>1. n \in BIDoing
    BY <1>2 DEF BIDoing
  <2>2. Objects!Goes(r, n)
    BY DEF Objects!DeleteOld
  <2> HIDE DEF n
  <2> QED BY <2>1, <2>2, BIGoes DEF BIInv, BITypes
<1>4. o.kind \in Objects!Kind /\ Objects!Without(o.kind, o.id) \in SUBSET Objects!Row
  BY <1>1 DEF BISave, BIInv, BITypes, Objects!Without
<1>5. table' = [table EXCEPT ![o.kind] = Objects!Without(o.kind, o.id)]
  BY DEF Objects!DeleteOld
<1>6. /\ table' \in [Objects!Kind -> SUBSET Objects!Row]
      /\ \A k \in Objects!Kind : table'[k] \subseteq table[k]
  <2> HIDE DEF o
  <2> QED BY <1>4, <1>5, BITable DEF BIInv, Objects!Without
<1>7. \A k \in Objects!Kind, id \in Id : \A q \in Sure(k, id)' : Same(q)
  BY <1>1, <1>2, <1>3 DEF Sure, Same
<1> QED BY <1>3, <1>6, <1>7, OwnersFewer DEF BIInv, BITypes

\* A request ends, with its object's rows deleted or as they were.
LEMMA BIEnds ==
    ASSUME BIInv, NEW r \in Req, Objects!Drop(r) \/ Objects!Fail(r)
    PROVE  BIInv'
<1>1. /\ biOp' \in [Req -> BIDoing] /\ biOp'[r] = Objects!Idle
      /\ \A q \in Req : q # r => biOp'[q] = biOp[q]
  BY BIGoes DEF BIInv, BITypes, BIDoing, Objects!Drop, Objects!Fail
<1>2. /\ table' \in [Objects!Kind -> SUBSET Objects!Row]
      /\ \A k \in Objects!Kind : table'[k] \subseteq table[k]
  <2>1. CASE Objects!Fail(r)
    BY <2>1 DEF BIInv, BITypes, Objects!Fail
  <2>2. CASE Objects!Drop(r)
    <3> DEFINE o == biOp[r]
    <3>1. o.kind \in Objects!Kind
      BY <2>2, BIDoingFacts DEF BIInv, BITypes, Objects!Drop, Objects!At
    <3>2. Objects!Without(o.kind, o.id) \in SUBSET Objects!Row
      BY <3>1 DEF BIInv, BITypes, Objects!Without
    <3>3. table' = [table EXCEPT ![o.kind] = Objects!Without(o.kind, o.id)]
      BY <2>2 DEF Objects!Drop
    <3> HIDE DEF o
    <3> QED BY <3>1, <3>2, <3>3, BITable DEF BIInv, Objects!Without
  <2> QED BY <2>1, <2>2
<1>3. biOp'[r].at = "idle"
  BY <1>1 DEF Objects!Idle
<1>4. \A k \in Objects!Kind, id \in Id : \A q \in Sure(k, id)' : Same(q)
  BY <1>1, <1>3 DEF Sure, Same
<1> QED BY <1>1, <1>2, <1>4, OwnersFewer DEF BIInv, BITypes

\* The row of a save moves into the table.  If the save is not sure of the owner, nobody
\* is sure of that object any more.
LEMMA BIInsert ==
    ASSUME BIInv, NEW r \in Req, NEW kind \in Objects!Kind, Objects!InsertRow(r, kind)
    PROVE  BIInv'
<1> DEFINE o == biOp[r]
           new == [id |-> o.id, owner |-> o.owner]
<1>1. o \in BISave /\ o.at = "insert" /\ o.kind = kind
  BY BIDoingFacts DEF BIInv, BITypes, Objects!InsertRow, Objects!At
<1>2. o.id \in Id /\ o.owner \in User \cup {Nobody} /\ o.sure \in BOOLEAN /\ new \in Objects!Row
  BY <1>1 DEF BISave, Objects!Row
<1>3. /\ biOp' \in [Req -> BIDoing] /\ biOp'[r].at = "idle"
      /\ \A q \in Req : q # r =>
           IF ~o.sure /\ Objects!Beside(q, r)
           THEN biOp'[q] = [biOp[q] EXCEPT !.sure = FALSE] ELSE biOp'[q] = biOp[q]
  <2>1. ASSUME NEW q \in Req, biOp[q].at # "idle"
        PROVE  [biOp[q] EXCEPT !.sure = FALSE] \in BIDoing
    <3>1. biOp[q] \in BISave \/ biOp[q] \in BIRemoval
      BY <2>1, BIDoingFacts DEF BIInv, BITypes
    <3>2. CASE biOp[q] \in BISave
      BY <3>2 DEF BISave, BIDoing
    <3>3. CASE biOp[q] \in BIRemoval
      BY <3>3 DEF BIRemoval, BIDoing
    <3> QED BY <3>1, <3>2, <3>3
  <2>2. \A q \in Req : biOp[q] \in BIDoing /\ Objects!Idle \in BIDoing
    BY DEF BIInv, BITypes, BIDoing
  <2> QED BY <2>1, <2>2 DEF Objects!InsertRow, Objects!Beside, Objects!At, Objects!Idle
<1>4. /\ table' \in [Objects!Kind -> SUBSET Objects!Row]
      /\ table'[kind] = table[kind] \cup {new}
      /\ \A l \in Objects!Kind : l # kind => table'[l] = table[l]
  <2>1. table[kind] \cup {new} \in SUBSET Objects!Row
    BY <1>2 DEF BIInv, BITypes
  <2>2. table' = [table EXCEPT ![kind] = table[kind] \cup {new}]
    BY DEF Objects!InsertRow
  <2> HIDE DEF new
  <2> QED BY <2>1, <2>2, BITable DEF BIInv
\* Who is sure afterwards was so before, and is not about this object if the save was not.
<1>5. ASSUME NEW k \in Objects!Kind, NEW id \in Id, NEW q \in Sure(k, id)'
      PROVE  /\ q # r /\ biOp'[q] = biOp[q] /\ q \in Sure(k, id) /\ Same(q)
             /\ ~o.sure => ~(k = kind /\ id = o.id)
  <2>1. q \in Req /\ q # r /\ biOp'[q].at # "idle" /\ biOp'[q].sure
        /\ biOp'[q].kind = k /\ biOp'[q].id = id
    BY <1>3 DEF Sure
  <2>2. CASE ~o.sure /\ Objects!Beside(q, r)
    <3>1. biOp[q].at # "idle" /\ biOp'[q] = [biOp[q] EXCEPT !.sure = FALSE]
      BY <2>1, <2>2, <1>3 DEF Objects!Beside, Objects!At
    <3>2. biOp[q] \in BISave \/ biOp[q] \in BIRemoval
      BY <2>1, <3>1, BIDoingFacts DEF BIInv, BITypes
    <3>3. ~biOp'[q].sure
      BY <3>1, <3>2 DEF BISave, BIRemoval
    <3> QED BY <2>1, <3>3
  <2>3. CASE ~(~o.sure /\ Objects!Beside(q, r))
    <3>1. biOp'[q] = biOp[q]
      BY <2>1, <2>3, <1>3
    <3> QED BY <1>1, <2>1, <2>3, <3>1 DEF Sure, Same, Objects!Beside, Objects!At
  <2> QED BY <2>2, <2>3
<1>6. ASSUME NEW k \in Objects!Kind, NEW id \in Id, NEW q \in Sure(k, id)', NEW w \in Owners(k, id)'
      PROVE  w \in Owners(k, id)
  <2>1. CASE \E row \in Objects!Found(k, id)' : w = row.owner
    <3>1. PICK row \in Objects!Found(k, id)' : w = row.owner
      BY <2>1
    <3>2. row \in table'[k] /\ row.id = id
      BY <3>1 DEF Objects!Found
    <3>3. CASE row \in table[k]
      BY <3>1, <3>2, <3>3 DEF Owners, Objects!Found
    <3>4. CASE row \notin table[k]
      <4>1. k = kind /\ id = o.id /\ w = o.owner
        BY <3>1, <3>2, <3>4, <1>4
      <4>2. r \in Saving(k, id)
        BY <4>1, <1>1, <1>5 DEF Saving, Sure
      <4> QED BY <4>1, <4>2 DEF Owners
    <3> QED BY <3>3, <3>4
  <2>2. CASE \E p \in Saving(k, id)' : w = biOp'[p].owner
    <3>1. PICK p \in Saving(k, id)' : w = biOp'[p].owner
      BY <2>2
    <3>2. p \in Sure(k, id)' /\ biOp'[p].at # "drop"
      BY <3>1 DEF Saving
    <3>3. p \in Sure(k, id) /\ biOp'[p] = biOp[p]
      BY <3>2, <1>5
    <3> QED BY <3>1, <3>2, <3>3 DEF Owners, Saving
  <2> QED BY <1>6, <2>1, <2>2 DEF Owners
<1>7. Settled'
  BY <1>5, <1>6, OwnersKept DEF BIInv
<1> QED BY <1>3, <1>4, <1>7 DEF BIInv, BITypes

\* A request begins and finds an object whose rows all have one owner: it may change them,
\* and so does every save that is sure of the object store that owner.
LEMMA BIFinds ==
    ASSUME BIInv, NEW u \in User, NEW kind \in Objects!Kind, NEW i \in Id,
           NEW found \in Objects!Loaded(kind, i), Objects!Owned(kind, i),
           \A row \in found : Objects!MayChange(u, row.owner)
    PROVE  \E row \in found :
              /\ found = {row} /\ row \in Objects!Row /\ row.owner # Nobody
              /\ Objects!MayChange(u, row.owner)
              /\ Owners(kind, i) = {row.owner}
<1>1. PICK v \in User \ {Nobody} :
         Objects!Found(kind, i) # {} /\ \A row \in Objects!Found(kind, i) : row.owner = v
  BY DEF Objects!Owned
<1>2. PICK row \in Objects!Found(kind, i) : found = {row}
  BY <1>1 DEF Objects!Loaded
<1>3. row \in Objects!Row /\ row.owner = v
  BY <1>1 DEF Objects!Found, BIInv, BITypes
<1>4. v \in Owners(kind, i)
  BY <1>2, <1>3 DEF Owners
<1>5. \A q \in Saving(kind, i) : biOp[q].owner = v
  <2> SUFFICES ASSUME NEW q \in Saving(kind, i) PROVE biOp[q].owner = v
    OBVIOUS
  <2>1. q \in Sure(kind, i) /\ biOp[q].at # "drop"
    BY DEF Saving
  <2> QED BY <1>4, <2>1 DEF BIInv, Settled, Decided
<1>6. Owners(kind, i) = {v}
  BY <1>1, <1>4, <1>5 DEF Owners
<1> QED BY <1>2, <1>3, <1>6

\* A removal begins.
LEMMA BIRemove ==
    ASSUME BIInv, NEW r \in Req, NEW u \in User, NEW kind \in Objects!Kind, NEW i \in Id,
           Objects!Remove(r, u, kind, i)
    PROVE  BIInv'
<1>1. PICK found \in Objects!Loaded(kind, i) :
         /\ \A row \in found : Objects!MayChange(u, row.owner)
         /\ Objects!Goes(r, [at |-> "drop", by |-> u, kind |-> kind, id |-> i,
                             sure |-> Objects!Owned(kind, i)])
  BY DEF Objects!Remove
<1> DEFINE n == [at |-> "drop", by |-> u, kind |-> kind, id |-> i, sure |-> Objects!Owned(kind, i)]
<1>2. Objects!Owned(kind, i) \in BOOLEAN
  BY DEF Objects!Owned
<1>3. /\ n \in BIDoing /\ n.at = "drop" /\ n.by = u /\ n.kind = kind /\ n.id = i
      /\ n.sure = Objects!Owned(kind, i)
  BY <1>2 DEF BIDoing, BIRemoval
<1>4. Objects!Goes(r, n) /\ biOp[r].at = "idle" /\ UNCHANGED table
  BY <1>1 DEF Objects!Remove, Objects!At
<1> HIDE DEF n
<1>5. /\ biOp' \in [Req -> BIDoing] /\ biOp'[r] = n
      /\ \A q \in Req : q # r => biOp'[q] = biOp[q]
  BY <1>3, <1>4, BIGoes DEF BIInv, BITypes
<1>6. \A k \in Objects!Kind, id \in Id : Owners(k, id)' = Owners(k, id)
  <2> SUFFICES ASSUME NEW k \in Objects!Kind, NEW id \in Id
               PROVE  Owners(k, id)' = Owners(k, id)
    OBVIOUS
  <2>1. Saving(k, id)' = Saving(k, id) /\ \A q \in Saving(k, id) : biOp'[q] = biOp[q]
    BY <1>3, <1>4, <1>5 DEF Saving, Sure
  <2>2. Objects!Found(k, id)' = Objects!Found(k, id)
    BY <1>4 DEF Objects!Found
  <2> QED BY <2>1, <2>2 DEF Owners
<1>7. ASSUME NEW k \in Objects!Kind, NEW id \in Id, NEW q \in Sure(k, id)'
      PROVE  \/ Same(q)
             \/ \A w \in Owners(k, id) :
                   /\ Objects!MayChange(biOp'[q].by, w)
                   /\ biOp'[q].at # "drop" => w = biOp'[q].owner
  <2>1. CASE q = r
    <3>1. k = kind /\ id = i /\ Objects!Owned(kind, i)
      BY <2>1, <1>3, <1>5, <1>7 DEF Sure
    <3>2. \A w \in Owners(kind, i) : Objects!MayChange(u, w)
      BY <1>1, <3>1, BIFinds
    <3> QED BY <2>1, <3>1, <3>2, <1>3, <1>5
  <2>2. CASE q # r
    BY <2>2, <1>5, <1>7 DEF Sure, Same
  <2> QED BY <2>1, <2>2
<1>8. Settled'
  BY <1>6, <1>7, OwnersKept DEF BIInv
<1> QED BY <1>4, <1>5, <1>8 DEF BIInv, BITypes

\* A save begins: of an object it finds, it keeps the owner.
LEMMA BIPost ==
    ASSUME BIInv, NEW r \in Req, NEW u \in User, NEW kind \in Objects!Kind,
           NEW i \in Id, NEW sent \in User \cup {Nobody}, Objects!Post(r, u, kind, i, sent)
    PROVE  BIInv'
<1>1. PICK found \in Objects!Loaded(kind, i) :
         /\ \A row \in found : Objects!MayChange(u, row.owner)
         /\ Objects!Goes(r, [at |-> "delete", by |-> u, kind |-> kind, id |-> i,
               owner |-> Objects!OwnerAfter(u, sent, found), sure |-> Objects!Owned(kind, i)])
  BY DEF Objects!Post
<1> DEFINE owner == Objects!OwnerAfter(u, sent, found)
           n == [at |-> "delete", by |-> u, kind |-> kind, id |-> i, owner |-> owner,
                 sure |-> Objects!Owned(kind, i)]
<1>2. found = {} \/ \E row \in Objects!Row : found = {row}
  BY DEF Objects!Loaded, Objects!Found, BIInv, BITypes
<1>3. owner \in User \cup {Nobody}
  <2>1. CASE found = {}
    BY <2>1 DEF Objects!OwnerAfter
  <2>2. CASE found # {}
    <3>1. PICK row \in Objects!Row : found = {row}
      BY <2>2, <1>2
    <3>2. (CHOOSE x \in found : TRUE) = row /\ row.owner \in User \cup {Nobody}
      BY <3>1 DEF Objects!Row
    <3> QED BY <2>2, <3>2 DEF Objects!OwnerAfter
  <2> QED BY <2>1, <2>2
<1>4. Objects!Owned(kind, i) =>
         /\ owner # Nobody /\ Owners(kind, i) = {owner} /\ Objects!MayChange(u, owner)
  <2> SUFFICES ASSUME Objects!Owned(kind, i)
               PROVE  owner # Nobody /\ Owners(kind, i) = {owner} /\ Objects!MayChange(u, owner)
    OBVIOUS
  <2>1. PICK row \in found :
           /\ found = {row} /\ row \in Objects!Row /\ row.owner # Nobody
           /\ Objects!MayChange(u, row.owner)
           /\ Owners(kind, i) = {row.owner}
    BY <1>1, BIFinds
  <2>2. (CHOOSE x \in found : TRUE) = row
    BY <2>1
  <2>3. owner = row.owner
    BY <2>1, <2>2 DEF Objects!OwnerAfter
  <2> QED BY <2>1, <2>3
<1>5. Objects!Owned(kind, i) \in BOOLEAN
  BY DEF Objects!Owned
<1> HIDE DEF owner
<1>6. /\ n \in BIDoing /\ n.at = "delete" /\ n.by = u /\ n.kind = kind /\ n.id = i
      /\ n.owner = owner /\ n.sure = Objects!Owned(kind, i)
  BY <1>3, <1>5 DEF BIDoing, BISave
<1>7. Objects!Goes(r, n) /\ biOp[r].at = "idle" /\ UNCHANGED table
  BY <1>1 DEF Objects!Post, Objects!At, owner
<1> HIDE DEF n
<1>8. /\ biOp' \in [Req -> BIDoing] /\ biOp'[r] = n
      /\ \A q \in Req : q # r => biOp'[q] = biOp[q]
  BY <1>6, <1>7, BIGoes DEF BIInv, BITypes
\* The owner of the new save, if it is sure, is an owner already.
<1>9. ASSUME NEW k \in Objects!Kind, NEW id \in Id, NEW w \in Owners(k, id)'
      PROVE  w \in Owners(k, id)
  <2>1. CASE \E row \in Objects!Found(k, id)' : w = row.owner
    BY <2>1, <1>7 DEF Owners, Objects!Found
  <2>2. CASE \E q \in Saving(k, id)' : w = biOp'[q].owner
    <3>1. PICK q \in Saving(k, id)' : w = biOp'[q].owner
      BY <2>2
    <3>2. CASE q = r
      BY <3>1, <3>2, <1>4, <1>6, <1>8 DEF Saving, Sure
    <3>3. CASE q # r
      BY <3>1, <3>3, <1>8 DEF Owners, Saving, Sure
    <3> QED BY <3>2, <3>3
  <2> QED BY <1>9, <2>1, <2>2 DEF Owners
<1>10. ASSUME NEW k \in Objects!Kind, NEW id \in Id, NEW q \in Sure(k, id)'
       PROVE  \/ Same(q)
              \/ \A w \in Owners(k, id) :
                    /\ Objects!MayChange(biOp'[q].by, w)
                    /\ biOp'[q].at # "drop" => w = biOp'[q].owner
  <2>1. CASE q = r
    <3>1. k = kind /\ id = i /\ Objects!Owned(kind, i)
      BY <2>1, <1>6, <1>8, <1>10 DEF Sure
    <3> QED BY <2>1, <3>1, <1>4, <1>6, <1>8
  <2>2. CASE q # r
    BY <2>2, <1>8, <1>10 DEF Sure, Same
  <2> QED BY <2>1, <2>2
<1>11. Settled'
  BY <1>9, <1>10, OwnersKept DEF BIInv
<1> QED BY <1>7, <1>8, <1>11 DEF BIInv, BITypes

\* Every step keeps the invariant.
LEMMA BIInvStep == BIInv /\ [Objects!Next]_(Objects!vars) => BIInv'
<1> SUFFICES ASSUME BIInv, [Objects!Next]_(Objects!vars) PROVE BIInv'
  OBVIOUS
<1>1. "saved_query" \in Objects!Kind /\ "chart" \in Objects!Kind /\ "dashboard" \in Objects!Kind
  BY DEF Objects!Kind
<1>2. ASSUME NEW r \in Req, NEW u \in User, NEW id \in Id, NEW sent \in User \cup {Nobody},
             \/ Objects!PostSavedQuery(r, u, id, sent) \/ Objects!PostChart(r, u, id, sent)
             \/ Objects!PostDashboard(r, u, id, sent)
      PROVE  BIInv'
  BY <1>1, <1>2, BIPost
     DEF Objects!PostSavedQuery, Objects!PostChart, Objects!PostDashboard
<1>3. ASSUME NEW r \in Req, NEW u \in User, NEW id \in Id,
             \/ Objects!RemoveSavedQuery(r, u, id) \/ Objects!RemoveChart(r, u, id)
             \/ Objects!RemoveDashboard(r, u, id)
      PROVE  BIInv'
  BY <1>1, <1>3, BIRemove
     DEF Objects!RemoveSavedQuery, Objects!RemoveChart, Objects!RemoveDashboard
<1>4. ASSUME NEW r \in Req, Objects!DeleteOld(r) PROVE BIInv'
  BY <1>4, BIDeleteOld
<1>5. ASSUME NEW r \in Req, Objects!Drop(r) \/ Objects!Fail(r) PROVE BIInv'
  BY <1>5, BIEnds
<1>6. ASSUME NEW r \in Req,
             \/ Objects!InsertSavedQuery(r) \/ Objects!InsertChart(r)
             \/ Objects!InsertDashboard(r)
      PROVE  BIInv'
  BY <1>1, <1>6, BIInsert
     DEF Objects!InsertSavedQuery, Objects!InsertChart, Objects!InsertDashboard
<1>7. ASSUME UNCHANGED Objects!vars PROVE BIInv'
  BY <1>7 DEF Objects!vars, BIInv, BITypes, Settled, Decided, Owners, Saving, Sure, Objects!Found
<1> QED BY <1>2, <1>3, <1>4, <1>5, <1>6, <1>7 DEF Objects!Next

\* Who found a saved query, chart or dashboard with an owner removes no row of another
\* owner, for any number of saves and removals that look up, check, delete and insert
\* without a lock, by users with names or without (biOwnershipAllowed), unless somebody
\* who found no owner has stored a row of it since.
THEOREM OwnersHold == Objects!Spec => OwnersDecide
<1>1. Objects!Init => BIInv
  <2> SUFFICES ASSUME Objects!Init PROVE BIInv
    OBVIOUS
  <2>1. BITypes
    BY DEF Objects!Init, BITypes, BIDoing
  <2>2. \A r \in Req : biOp[r].at = "idle"
    BY DEF Objects!Init, Objects!Idle
  <2> QED BY <2>1, <2>2 DEF BIInv, Settled, Sure
<1>2. BIInv /\ [Objects!Next]_(Objects!vars)
      => [\A r \in Req :
            biOp[r].at \in {"delete", "drop"} /\ biOp[r].sure /\ biOp'[r].at # biOp[r].at
              => Objects!RemovesItsOwn(r) \/ UNCHANGED table]_(Objects!vars)
  <2> SUFFICES ASSUME BIInv, NEW r \in Req, biOp[r].at \in {"delete", "drop"}, biOp[r].sure,
                      NEW row \in Objects!Found(biOp[r].kind, biOp[r].id)
               PROVE  Objects!MayChange(biOp[r].by, row.owner)
    BY DEF Objects!RemovesItsOwn
  <2>1. biOp[r].kind \in Objects!Kind /\ biOp[r].id \in Id
    BY BIDoingFacts DEF BIInv, BITypes
  <2>2. r \in Sure(biOp[r].kind, biOp[r].id) /\ row.owner \in Owners(biOp[r].kind, biOp[r].id)
    BY DEF Sure, Owners
  <2> QED BY <2>1, <2>2 DEF BIInv, Settled, Decided
<1> QED BY <1>1, <1>2, BIInvStep, PTL DEF Objects!Spec, OwnersDecide, Objects!OwnersDecide

----------------------------------------------------------------------------
(* Pipelines *)

PipeRow == [name : PipelineName, version : Nat, def : Pipes!Definition]

PipeRecord == [name : PipelineName, version : Nat, ran : Pipes!Definition, deletes : Nat]

PipeInsert == [at : {"insert"}, def : Pipes!Definition, version : Nat, importing : BOOLEAN,
               rest : Seq(Pipes!Definition), known : SUBSET Pipes!Definition]

PipeCheck == [at : {"check"}, rest : Seq(Pipes!Definition) \ {<<>>}, known : SUBSET Pipes!Definition]

PipeVersion == [at : {"version"}, def : Pipes!Definition, rest : Seq(Pipes!Definition),
                known : SUBSET Pipes!Definition]

PipeRun == [at : {"run"}, name : PipelineName, version : Nat, ran : Pipes!Definition, deletes : Nat]

PipeDoing == {Pipes!Idle} \cup PipeInsert \cup PipeCheck \cup PipeVersion \cup PipeRun

PipeTypes ==
    /\ pipelineRows \subseteq PipeRow /\ IsFiniteSet(pipelineRows)
    /\ runs \subseteq PipeRecord
    /\ bundle \in Seq(Pipes!Definition)
    /\ deletes \in [PipelineName -> Nat]
    /\ pipelineOp \in [PipelineReq -> PipeDoing]

\* There is a latest version, and a name and a version tell a row, which bears the name of
\* its definition.
VersionsBounded == \E b \in Nat : \A row \in pipelineRows : row.version <= b

VersionsUnique ==
    \A x, y \in pipelineRows : x.name = y.name /\ x.version = y.version => x = y

RowsNamed == \A row \in pipelineRows : row.def.name = row.name

\* The version that a save has read is above all others, as nobody else saves.
VersionFree(o) ==
    \A row \in pipelineRows : row.name = o.def.name => row.version < o.version

\* What a run has loaded, or has recorded, is there until its pipeline is deleted.
RunStands(run) ==
    /\ run.deletes <= deletes[run.name]
    /\ run.deletes = deletes[run.name] =>
          [name |-> run.name, version |-> run.version, def |-> run.ran] \in pipelineRows

\* All definitions of a name are among those that are known.
AllKnown(known, n) ==
    \A row \in pipelineRows : row.name = n => Pipes!Normalised(row.def) \in known

\* An import knows all definitions of the names it has come across, ...
Knows(o) == \A k \in o.known : AllKnown(o.known, k.name)

\* ... and does not know the one that it is about to save.
IsNews(o) == AllKnown(o.known, o.def.name) /\ Pipes!Normalised(o.def) \notin o.known

PipeFits(r, o) ==
    /\ o.at \in {"insert", "check", "version"} => r \in Writers
    /\ o.at = "check" => Knows(o)
    /\ o.at = "version" => Knows(o) /\ IsNews(o)
    /\ o.at = "insert" =>
          /\ VersionFree(o) /\ Pipes!Normalised(o.def) = o.def
          /\ IF o.importing THEN Knows(o) /\ IsNews(o) ELSE o.rest = <<>>
    /\ o.at = "run" => RunStands(o)

PipeInv ==
    /\ PipeTypes /\ VersionsBounded /\ VersionsUnique /\ RowsNamed
    /\ \A run \in runs : RunStands(run)
    /\ \A r \in PipelineReq : PipeFits(r, pipelineOp[r])

\* One request saves or imports at a time.
OneWriter == \A q, r \in Writers : q = r

----------------------------------------------------------------------------

\* Normalising keeps a definition one of its name, and is done once.
LEMMA NormalisedFacts ==
    ASSUME NEW d \in Pipes!Definition
    PROVE  /\ Pipes!Normalised(d) \in Pipes!Definition
           /\ Pipes!Normalised(d).name = d.name
           /\ Pipes!Normalised(Pipes!Normalised(d)) = Pipes!Normalised(d)
<1>1. ASSUME NEW e \in Pipes!Definition
      PROVE  /\ e.parallel \in Int
             /\ Pipes!Normalised(e) = [name |-> e.name,
                   parallel |-> IF e.parallel <= 0 THEN 1 ELSE e.parallel, steps |-> e.steps]
  BY DEF Pipes!Normalised, Pipes!Definition
<1> DEFINE p == IF d.parallel <= 0 THEN 1 ELSE d.parallel
           n == [name |-> d.name, parallel |-> p, steps |-> d.steps]
<1>2. p \in Int /\ ~(p <= 0)
  BY <1>1
<1> HIDE DEF p
<1>3. /\ n \in Pipes!Definition
      /\ n.name = d.name /\ n.parallel = p /\ n.steps = d.steps
  BY <1>2 DEF Pipes!Definition
<1>4. Pipes!Normalised(d) = n
  BY <1>1 DEF p
<1>5. Pipes!Normalised(n) = n
  BY <1>1, <1>2, <1>3
<1> QED BY <1>3, <1>4, <1>5

\* What a request that is under way carries.
LEMMA PipeDoingFacts ==
    ASSUME NEW o \in PipeDoing
    PROVE  /\ o.at = "insert" => o \in PipeInsert
           /\ o.at = "check" => o \in PipeCheck
           /\ o.at = "version" => o \in PipeVersion
           /\ o.at = "run" => o \in PipeRun
BY DEF PipeDoing, Pipes!Idle, PipeInsert, PipeCheck, PipeVersion, PipeRun

\* A request that goes on leaves the others where they are.
LEMMA PipeGoes ==
    ASSUME pipelineOp \in [PipelineReq -> PipeDoing], NEW r \in PipelineReq,
           NEW o \in PipeDoing, Pipes!Goes(r, o)
    PROVE  /\ pipelineOp' \in [PipelineReq -> PipeDoing]
           /\ pipelineOp'[r] = o
           /\ \A q \in PipelineReq : q # r => pipelineOp'[q] = pipelineOp[q]
BY DEF Pipes!Goes

\* An idle request fits anywhere.
LEMMA IdleFits == Pipes!Idle \in PipeDoing /\ \A r : PipeFits(r, Pipes!Idle)
BY DEF PipeDoing, PipeFits, Pipes!Idle

\* A step that leaves the rows alone and takes its request to a place where it fits.
LEMMA PipeStep ==
    ASSUME PipeInv, NEW r \in PipelineReq, NEW o \in PipeDoing, PipeFits(r, o),
           Pipes!Goes(r, o), UNCHANGED <<pipelineRows, deletes>>,
           bundle' \in Seq(Pipes!Definition),
           runs' \subseteq PipeRecord, \A run \in runs' : RunStands(run)
    PROVE  PipeInv'
<1>1. /\ pipelineOp' \in [PipelineReq -> PipeDoing]
      /\ pipelineOp'[r] = o
      /\ \A q \in PipelineReq : q # r => pipelineOp'[q] = pipelineOp[q]
  BY PipeGoes DEF PipeInv, PipeTypes
<1>2. \A run : RunStands(run)' <=> RunStands(run)
  BY DEF RunStands
<1>3. \A q, p : PipeFits(q, p)' <=> PipeFits(q, p)
  BY <1>2 DEF PipeFits, Knows, IsNews, AllKnown, VersionFree
<1>4. \A q \in PipelineReq : PipeFits(q, pipelineOp[q])'
  BY <1>1, <1>3 DEF PipeInv
<1>5. \A run \in runs' : RunStands(run)'
  BY <1>2
<1>6. PipeTypes' /\ VersionsBounded' /\ VersionsUnique' /\ RowsNamed'
  BY <1>1 DEF PipeInv, PipeTypes, VersionsBounded, VersionsUnique, RowsNamed
<1> QED BY <1>4, <1>5, <1>6 DEF PipeInv

\* The version that a save gives is above all others of the name.
LEMMA NextVersionFacts ==
    ASSUME PipeInv, NEW n
    PROVE  /\ Pipes!NextVersion(n) \in Nat
           /\ \A row \in pipelineRows : row.name = n => row.version < Pipes!NextVersion(n)
<1> DEFINE S == {row.version : row \in Pipes!History(n)}
<1>1. Pipes!History(n) \subseteq pipelineRows /\ pipelineRows \subseteq PipeRow
  BY DEF Pipes!History, PipeInv, PipeTypes
<1>2. CASE Pipes!History(n) = {}
  BY <1>2 DEF Pipes!NextVersion, Pipes!History
<1>3. CASE Pipes!History(n) # {}
  <2>1. S \in SUBSET Nat /\ S # {}
    BY <1>1, <1>3 DEF PipeRow
  <2>2. PICK b \in Nat : \A k \in S : k <= b
    BY <1>1 DEF PipeInv, VersionsBounded
  <2> HIDE DEF S
  <2>3. PICK m \in S : \A k \in S : k <= m
    BY <2>1, <2>2, Greatest
  <2>4. \E row : row \in Pipes!Latest(n)
    BY <2>3 DEF Pipes!Latest, S
  <2> DEFINE latest == CHOOSE row \in Pipes!Latest(n) : TRUE
  <2>5. latest \in Pipes!Latest(n)
    BY <2>4
  <2>6. Pipes!NextVersion(n) = latest.version + 1
    BY <1>3 DEF Pipes!NextVersion
  <2> HIDE DEF latest
  <2>7. /\ latest.version \in Nat
        /\ \A row \in Pipes!History(n) : row.version \in Nat /\ row.version <= latest.version
    BY <1>1, <2>5 DEF Pipes!Latest, PipeRow
  <2>8. \A row \in Pipes!History(n) : row.version < latest.version + 1
    BY <2>7
  <2> QED BY <2>6, <2>7, <2>8 DEF Pipes!History
<1> QED BY <1>2, <1>3

\* A save, or an import on its way to one, has read the history.
LEMMA PipeReadsVersion ==
    ASSUME PipeInv, NEW r \in PipelineReq, r \in Writers, NEW d \in Pipes!Definition,
           NEW importing \in BOOLEAN, NEW rest \in Seq(Pipes!Definition),
           NEW known \in SUBSET Pipes!Definition,
           Pipes!ReadVersion(r, d, importing, rest, known),
           UNCHANGED <<pipelineRows, runs, bundle, deletes>>,
           IF importing
           THEN /\ \A k \in known : AllKnown(known, k.name)
                /\ AllKnown(known, d.name) /\ Pipes!Normalised(d) \notin known
           ELSE rest = <<>>
    PROVE  PipeInv'
<1> DEFINE def == Pipes!Normalised(d)
           version == Pipes!NextVersion(d.name)
           o == [at |-> "insert", def |-> def, version |-> version,
                 importing |-> importing, rest |-> rest, known |-> known]
<1>1. /\ def \in Pipes!Definition /\ def.name = d.name /\ Pipes!Normalised(def) = def
      /\ version \in Nat
      /\ \A row \in pipelineRows : row.name = d.name => row.version < version
  BY NormalisedFacts, NextVersionFacts
<1>2. Pipes!Goes(r, o)
  BY DEF Pipes!ReadVersion
<1> HIDE DEF def, version
<1>3. /\ o \in PipeDoing /\ o.at = "insert" /\ o.def = def /\ o.version = version
      /\ o.importing = importing /\ o.rest = rest /\ o.known = known
  BY <1>1 DEF PipeDoing, PipeInsert
<1> HIDE DEF o
<1>4. VersionFree(o)
  BY <1>1, <1>3 DEF VersionFree
<1>5. IF o.importing THEN Knows(o) /\ IsNews(o) ELSE o.rest = <<>>
  <2>1. CASE importing
    <3>1. Knows(o)
      BY <1>3, <2>1 DEF Knows
    <3>2. IsNews(o)
      BY <1>1, <1>3, <2>1 DEF IsNews, def
    <3> QED BY <3>1, <3>2, <1>3, <2>1
  <2>2. CASE ~importing
    BY <1>3, <2>2
  <2> QED BY <2>1, <2>2
<1>6. PipeFits(r, o)
  BY <1>1, <1>3, <1>4, <1>5 DEF PipeFits
<1>7. bundle' \in Seq(Pipes!Definition) /\ runs' \subseteq PipeRecord
      /\ \A run \in runs' : RunStands(run)
  BY DEF PipeInv, PipeTypes
<1> QED BY <1>2, <1>3, <1>6, <1>7, PipeStep

\* A definition that was sent is saved.
LEMMA PipeSave ==
    ASSUME PipeInv, NEW r \in PipelineReq, NEW d \in Candidate, Pipes!Save(r, d)
    PROVE  PipeInv'
<1>1. d \in Pipes!Definition
  BY PipelineAssumption
<1>2. <<>> \in Seq(Pipes!Definition) /\ {} \in SUBSET Pipes!Definition /\ FALSE \in BOOLEAN
  OBVIOUS
<1> QED BY <1>1, <1>2, PipeReadsVersion DEF Pipes!Save

\* A request fails: it is idle again.
LEMMA PipeFail ==
    ASSUME PipeInv, NEW r \in PipelineReq, Pipes!Fail(r)
    PROVE  PipeInv'
<1>1. bundle' \in Seq(Pipes!Definition) /\ runs' \subseteq PipeRecord
      /\ \A run \in runs' : RunStands(run)
  BY DEF PipeInv, PipeTypes, Pipes!Fail
<1> QED BY <1>1, IdleFits, PipeStep DEF Pipes!Fail

\* An import begins with nothing known.
LEMMA PipeImportBegin ==
    ASSUME PipeInv, NEW r \in PipelineReq, Pipes!ImportBegin(r)
    PROVE  PipeInv'
<1> DEFINE o == [at |-> "check", rest |-> bundle, known |-> {}]
<1>1. o \in PipeDoing /\ PipeFits(r, o)
  BY DEF Pipes!ImportBegin, PipeInv, PipeTypes, PipeDoing, PipeCheck, PipeFits, Knows
<1>2. bundle' \in Seq(Pipes!Definition) /\ runs' \subseteq PipeRecord
      /\ \A run \in runs' : RunStands(run)
  BY DEF PipeInv, PipeTypes, Pipes!ImportBegin
<1>3. Pipes!Goes(r, o) /\ UNCHANGED <<pipelineRows, deletes>>
  BY DEF Pipes!ImportBegin
<1> HIDE DEF o
<1> QED BY <1>1, <1>2, <1>3, PipeStep

\* What is stored of a name is known after it has been looked up.
LEMMA KnownForFacts ==
    ASSUME PipeInv, NEW r \in PipelineReq, pipelineOp[r].at = "check", NEW n
    PROVE  LET known == Pipes!KnownFor(r, n)
           IN  /\ known \in SUBSET Pipes!Definition
               /\ \A k \in known : AllKnown(known, k.name)
               /\ AllKnown(known, n)
<1> DEFINE o == pipelineOp[r]
           known == Pipes!KnownFor(r, n)
<1>1. o.known \in SUBSET Pipes!Definition /\ Knows(o)
  BY PipeDoingFacts DEF PipeInv, PipeTypes, PipeFits, PipeCheck
<1>2. CASE \E k \in o.known : k.name = n
  <2>1. known = o.known
    BY <1>2 DEF Pipes!KnownFor
  <2> QED BY <1>1, <1>2, <2>1 DEF Knows
<1>3. CASE ~\E k \in o.known : k.name = n
  <2>1. known = o.known \cup Pipes!Saved(n)
    BY <1>3 DEF Pipes!KnownFor
  <2>2. /\ Pipes!Saved(n) \subseteq Pipes!Definition
        /\ \A k \in Pipes!Saved(n) : k.name = n
    <3>1. \A row \in Pipes!History(n) : row.def \in Pipes!Definition /\ row.def.name = n
      BY DEF PipeInv, PipeTypes, PipeRow, RowsNamed, Pipes!History
    <3> QED BY <3>1, NormalisedFacts DEF Pipes!Saved, Pipes!Digest
  <2>3. AllKnown(known, n)
    BY <2>1 DEF AllKnown, Pipes!Saved, Pipes!History, Pipes!Digest
  <2>4. ASSUME NEW k \in known PROVE AllKnown(known, k.name)
    <3>1. CASE k \in o.known
      BY <3>1, <2>1, <1>1 DEF AllKnown, Knows
    <3>2. CASE k \in Pipes!Saved(n)
      BY <3>2, <2>2, <2>3
    <3> QED BY <3>1, <3>2, <2>1, <2>4
  <2> QED BY <1>1, <2>1, <2>2, <2>3, <2>4
<1> QED BY <1>2, <1>3

\* A definition of a bundle is refused, skipped, or new.
LEMMA PipeImportCheck ==
    ASSUME PipeInv, NEW r \in PipelineReq, Pipes!ImportCheck(r)
    PROVE  PipeInv'
<1>1. PICK d : d = Head(pipelineOp[r].rest)
  OBVIOUS
<1>2. PICK known : known = Pipes!KnownFor(r, d.name)
  OBVIOUS
<1>3. PICK rest : rest = Tail(pipelineOp[r].rest)
  OBVIOUS
<1>4. pipelineOp[r].at = "check" /\ pipelineOp[r] \in PipeCheck
  BY PipeDoingFacts DEF Pipes!ImportCheck, Pipes!At, PipeInv, PipeTypes
<1>5. d \in Pipes!Definition /\ rest \in Seq(Pipes!Definition)
  BY <1>1, <1>3, <1>4 DEF PipeCheck
<1>6. /\ known \in SUBSET Pipes!Definition
      /\ \A k \in known : AllKnown(known, k.name)
      /\ AllKnown(known, d.name)
  BY <1>2, <1>4, KnownForFacts
<1>7. r \in Writers
  BY <1>4 DEF PipeInv, PipeFits
<1> DEFINE new == [at |-> "version", def |-> d, rest |-> rest, known |-> known]
           next == [at |-> "check", rest |-> rest, known |-> known]
<1>8. \/ Pipes!Goes(r, Pipes!Idle)
      \/ Pipes!Goes(r, new) /\ Pipes!Digest(d) \notin known
      \/ Pipes!Goes(r, next) /\ rest # <<>>
  <2>1. Pipes!Goes(r, IF ~Pipes!IsValid(d) THEN Pipes!Idle
                   ELSE IF Pipes!Digest(d) \notin known THEN new
                   ELSE IF rest = <<>> THEN Pipes!Idle
                   ELSE next)
    BY <1>1, <1>2, <1>3 DEF Pipes!ImportCheck
  <2> HIDE DEF new, next
  <2> QED BY <2>1
<1>9. /\ UNCHANGED <<pipelineRows, deletes>>
      /\ bundle' \in Seq(Pipes!Definition) /\ runs' \subseteq PipeRecord
      /\ \A run \in runs' : RunStands(run)
  BY DEF PipeInv, PipeTypes, Pipes!ImportCheck
<1>10. CASE Pipes!Goes(r, Pipes!Idle)
  BY <1>9, <1>10, IdleFits, PipeStep
<1>11. CASE Pipes!Goes(r, new) /\ Pipes!Digest(d) \notin known
  <2>1. new \in PipeDoing /\ new.at = "version" /\ new.def = d /\ new.known = known
    BY <1>5, <1>6 DEF PipeDoing, PipeVersion
  <2> HIDE DEF new
  <2>2. Knows(new) /\ IsNews(new)
    BY <2>1, <1>6, <1>11 DEF Knows, IsNews, Pipes!Digest
  <2>3. PipeFits(r, new)
    BY <2>1, <2>2, <1>7 DEF PipeFits
  <2> QED BY <1>9, <1>11, <2>1, <2>3, PipeStep
<1>12. CASE Pipes!Goes(r, next) /\ rest # <<>>
  <2>1. next \in PipeDoing /\ next.at = "check" /\ next.known = known
    BY <1>5, <1>6, <1>12 DEF PipeDoing, PipeCheck
  <2> HIDE DEF next
  <2>2. PipeFits(r, next)
    BY <2>1, <1>6, <1>7 DEF PipeFits, Knows
  <2> QED BY <1>9, <1>12, <2>1, <2>2, PipeStep
<1> QED BY <1>8, <1>10, <1>11, <1>12

\* The save of an import reads the history again.
LEMMA PipeImportVersion ==
    ASSUME PipeInv, NEW r \in PipelineReq, Pipes!ImportVersion(r)
    PROVE  PipeInv'
<1>1. PICK o : o = pipelineOp[r]
  OBVIOUS
<1>2. o.at = "version" /\ o \in PipeVersion /\ PipeFits(r, o)
  BY <1>1, PipeDoingFacts DEF Pipes!ImportVersion, Pipes!At, PipeInv, PipeTypes
<1>3. /\ o.def \in Pipes!Definition /\ o.rest \in Seq(Pipes!Definition)
      /\ o.known \in SUBSET Pipes!Definition /\ TRUE \in BOOLEAN
  BY <1>2 DEF PipeVersion
<1>4. /\ r \in Writers
      /\ \A k \in o.known : AllKnown(o.known, k.name)
      /\ AllKnown(o.known, o.def.name) /\ Pipes!Normalised(o.def) \notin o.known
  BY <1>2 DEF PipeFits, Knows, IsNews
<1>5. /\ Pipes!ReadVersion(r, o.def, TRUE, o.rest, o.known)
      /\ UNCHANGED <<pipelineRows, runs, bundle, deletes>>
  BY <1>1 DEF Pipes!ImportVersion
<1> QED BY <1>3, <1>4, <1>5, PipeReadsVersion

\* A run has loaded what is stored.
LEMMA PipeRunLoad ==
    ASSUME PipeInv, NEW r \in PipelineReq, NEW n \in PipelineName, NEW version,
           Pipes!RunLoad(r, n, version)
    PROVE  PipeInv'
<1>1. PICK row \in Pipes!Loaded(n, version) :
         Pipes!Goes(r, [at |-> "run", name |-> n, version |-> row.version,
                        ran |-> row.def, deletes |-> deletes[n]])
  BY DEF Pipes!RunLoad
<1>2. row \in pipelineRows /\ row.name = n /\ row \in PipeRow
  BY DEF Pipes!Loaded, Pipes!Latest, Pipes!History, PipeInv, PipeTypes
<1>3. PICK number : number = deletes[n]
  OBVIOUS
<1> DEFINE o == [at |-> "run", name |-> n, version |-> row.version,
                 ran |-> row.def, deletes |-> number]
<1>4. number \in Nat
  BY <1>3 DEF PipeInv, PipeTypes
<1>5. /\ o \in PipeDoing /\ o.at = "run" /\ o.name = n /\ o.version = row.version
      /\ o.ran = row.def /\ o.deletes = number
  BY <1>2, <1>4 DEF PipeDoing, PipeRun, PipeRow
<1>6. Pipes!Goes(r, o)
  BY <1>1, <1>3
<1>7. row = [name |-> n, version |-> row.version, def |-> row.def]
  BY <1>2 DEF PipeRow
<1> HIDE DEF o
<1>8. PipeFits(r, o)
  BY <1>2, <1>3, <1>4, <1>5, <1>7 DEF PipeFits, RunStands
<1>9. /\ UNCHANGED <<pipelineRows, deletes>>
      /\ bundle' \in Seq(Pipes!Definition) /\ runs' \subseteq PipeRecord
      /\ \A run \in runs' : RunStands(run)
  BY DEF PipeInv, PipeTypes, Pipes!RunLoad
<1> QED BY <1>5, <1>6, <1>8, <1>9, PipeStep

\* A run records what it has loaded, or nothing.
LEMMA PipeRunEnd ==
    ASSUME PipeInv, NEW r \in PipelineReq, Pipes!RunEnd(r)
    PROVE  PipeInv'
<1>1. PICK o : o = pipelineOp[r]
  OBVIOUS
<1>2. o.at = "run" /\ o \in PipeRun /\ RunStands(o)
  BY <1>1, PipeDoingFacts DEF Pipes!RunEnd, Pipes!At, PipeInv, PipeTypes, PipeFits
<1> DEFINE run == [name |-> o.name, version |-> o.version, ran |-> o.ran, deletes |-> o.deletes]
<1>3. /\ run \in PipeRecord /\ run.name = o.name /\ run.version = o.version
      /\ run.ran = o.ran /\ run.deletes = o.deletes
  BY <1>2 DEF PipeRun, PipeRecord
<1>4. runs' \subseteq runs \cup {run}
  BY <1>1 DEF Pipes!RunEnd
<1> HIDE DEF run
<1>5. RunStands(run)
  BY <1>2, <1>3 DEF RunStands
<1>6. /\ UNCHANGED <<pipelineRows, deletes>>
      /\ bundle' \in Seq(Pipes!Definition) /\ runs' \subseteq PipeRecord
      /\ \A x \in runs' : RunStands(x)
  BY <1>3, <1>4, <1>5 DEF PipeInv, PipeTypes, Pipes!RunEnd
<1>7. Pipes!Goes(r, Pipes!Idle)
  BY DEF Pipes!RunEnd
<1> QED BY <1>6, <1>7, IdleFits, PipeStep

\* A bundle holds definitions that are stored.
LEMMA PipeExport ==
    ASSUME PipeInv, Pipes!Export
    PROVE  PipeInv'
<1>1. PICK s \in Pipes!Listings : bundle' = [i \in DOMAIN s |-> s[i].def]
  BY DEF Pipes!Export
<1>2. s \in [1..Cardinality(pipelineRows) -> pipelineRows]
  BY DEF Pipes!Listings, Pipes!Cardinality, Cardinality
<1>3. Cardinality(pipelineRows) \in Nat
  BY FS_CardinalityType DEF PipeInv, PipeTypes
<1>4. pipelineRows \subseteq PipeRow
  BY DEF PipeInv, PipeTypes
<1>5. bundle' \in Seq(Pipes!Definition)
  <2>1. \A i \in 1..Cardinality(pipelineRows) : s[i].def \in Pipes!Definition
    BY <1>2, <1>4 DEF PipeRow
  <2>2. bundle' = [i \in 1..Cardinality(pipelineRows) |-> s[i].def]
    BY <1>1, <1>2
  <2> QED BY <1>3, <2>1, <2>2
<1>6. UNCHANGED <<pipelineRows, runs, deletes, pipelineOp>>
  BY DEF Pipes!Export
<1> QED
  BY <1>5, <1>6 DEF PipeInv, PipeTypes, VersionsBounded, VersionsUnique, RowsNamed,
         RunStands, PipeFits, VersionFree, Knows, IsNews, AllKnown

\* A pipeline is deleted: its runs are excused, the others stand.
LEMMA PipeDelete ==
    ASSUME PipeInv, NEW n \in PipelineName, Pipes!Delete(n)
    PROVE  PipeInv'
<1>1. /\ pipelineRows' = {row \in pipelineRows : row.name # n}
      /\ deletes' = [deletes EXCEPT ![n] = @ + 1]
      /\ UNCHANGED <<runs, bundle, pipelineOp>>
  BY DEF Pipes!Delete, Pipes!History
<1>2. /\ deletes' \in [PipelineName -> Nat] /\ deletes[n] \in Nat /\ deletes'[n] = deletes[n] + 1
      /\ \A m \in PipelineName : m # n => deletes'[m] = deletes[m]
  BY <1>1 DEF PipeInv, PipeTypes
<1>3. pipelineRows' \subseteq PipeRow /\ IsFiniteSet(pipelineRows')
  BY <1>1, FS_Subset DEF PipeInv, PipeTypes
<1>4. ASSUME NEW run, RunStands(run), run.name \in PipelineName, run.deletes \in Nat
      PROVE  RunStands(run)'
  <2>1. CASE run.name = n
    BY <2>1, <1>2, <1>4 DEF RunStands
  <2>2. CASE run.name # n
    <3> DEFINE row == [name |-> run.name, version |-> run.version, def |-> run.ran]
    <3>1. row.name # n
      BY <2>2
    <3> HIDE DEF row
    <3>2. row \in pipelineRows => row \in pipelineRows'
      BY <1>1, <3>1
    <3> QED BY <2>2, <1>2, <1>4, <3>2 DEF RunStands, row
  <2> QED BY <2>1, <2>2
<1>5. \A run \in runs' : RunStands(run)'
  BY <1>1, <1>4 DEF PipeInv, PipeTypes, PipeRecord
<1>6. ASSUME NEW q \in PipelineReq PROVE PipeFits(q, pipelineOp[q])'
  <2>1. PICK o : o = pipelineOp[q]
    OBVIOUS
  <2>2. o \in PipeDoing /\ PipeFits(q, o) /\ pipelineOp'[q] = o
    BY <2>1, <1>1 DEF PipeInv, PipeTypes
  <2>3. o.at = "run" => RunStands(o)'
    BY <2>2, <1>4, PipeDoingFacts DEF PipeFits, PipeRun
  <2>4. /\ VersionFree(o) => VersionFree(o)'
        /\ Knows(o) => Knows(o)'
        /\ IsNews(o) => IsNews(o)'
    BY <1>1 DEF VersionFree, Knows, IsNews, AllKnown
  <2>5. PipeFits(q, o)'
    BY <2>2, <2>3, <2>4 DEF PipeFits
  <2> QED BY <2>2, <2>5
<1>7. VersionsBounded' /\ VersionsUnique' /\ RowsNamed'
  BY <1>1 DEF PipeInv, VersionsBounded, VersionsUnique, RowsNamed
<1> QED BY <1>1, <1>2, <1>3, <1>5, <1>6, <1>7 DEF PipeInv, PipeTypes

\* The only writer inserts a row of a version of its own.
LEMMA PipeInserts ==
    ASSUME OneWriter, PipeInv, NEW r \in PipelineReq, Pipes!Insert(r)
    PROVE  PipeInv'
<1>1. PICK o : o = pipelineOp[r]
  OBVIOUS
<1>2. o.at = "insert" /\ o \in PipeInsert /\ PipeFits(r, o)
  BY <1>1, PipeDoingFacts DEF Pipes!Insert, Pipes!At, PipeInv, PipeTypes
<1>3. /\ o.def \in Pipes!Definition /\ o.def.name \in PipelineName /\ o.version \in Nat
      /\ o.rest \in Seq(Pipes!Definition) /\ o.known \subseteq Pipes!Definition
  <2>1. /\ o.def \in Pipes!Definition /\ o.version \in Nat
        /\ o.rest \in Seq(Pipes!Definition) /\ o.known \subseteq Pipes!Definition
    BY <1>2 DEF PipeInsert
  <2> QED BY <2>1 DEF Pipes!Definition
<1>4. /\ r \in Writers /\ VersionFree(o) /\ Pipes!Normalised(o.def) = o.def
      /\ o.rest # <<>> => Knows(o) /\ IsNews(o)
  BY <1>2 DEF PipeFits
<1> DEFINE new == [name |-> o.def.name, version |-> o.version, def |-> o.def]
           known == o.known \cup {o.def}
           next == [at |-> "check", rest |-> o.rest, known |-> known]
<1>5. /\ new \in PipeRow /\ new.name = o.def.name /\ new.version = o.version
      /\ new.def = o.def
  BY <1>3 DEF PipeRow
<1>6. /\ pipelineRows' = pipelineRows \cup {new}
      /\ UNCHANGED <<runs, bundle, deletes>>
  BY <1>1 DEF Pipes!Insert
<1>7. \/ Pipes!Goes(r, Pipes!Idle)
      \/ Pipes!Goes(r, next) /\ o.rest # <<>>
  <2>1. Pipes!Digest(o.def) = o.def
    BY <1>4 DEF Pipes!Digest
  <2> QED BY <1>1, <2>1 DEF Pipes!Insert
<1> HIDE DEF new, next
<1>8. /\ pipelineRows' \subseteq PipeRow /\ IsFiniteSet(pipelineRows')
  BY <1>5, <1>6, FS_AddElement DEF PipeInv, PipeTypes
<1>9. VersionsBounded'
  <2>1. PICK b \in Nat : \A row \in pipelineRows : row.version <= b
    BY DEF PipeInv, VersionsBounded
  <2>2. /\ \A row \in pipelineRows : row.version \in Nat
        /\ b + o.version \in Nat
    BY <1>3 DEF PipeInv, PipeTypes, PipeRow
  <2>3. \A row \in pipelineRows' : row.version <= b + o.version
    BY <1>3, <1>5, <1>6, <2>1, <2>2
  <2> QED BY <2>2, <2>3 DEF VersionsBounded
<1>10. VersionsUnique'
  <2>1. \A row \in pipelineRows :
           row.name = new.name => row.version # new.version
    BY <1>3, <1>4, <1>5 DEF VersionFree, PipeInv, PipeTypes, PipeRow
  <2> QED BY <2>1, <1>6 DEF PipeInv, VersionsUnique
<1>11. RowsNamed'
  BY <1>5, <1>6 DEF PipeInv, RowsNamed
<1>12. \A run : RunStands(run) => RunStands(run)'
  BY <1>6 DEF RunStands
<1>13. \A run \in runs' : RunStands(run)'
  BY <1>6, <1>12 DEF PipeInv
\* Nobody else is on the way to a save.
<1>14. ASSUME NEW q \in PipelineReq, q # r PROVE PipeFits(q, pipelineOp[q])'
  <2>1. PICK p : p = pipelineOp[q]
    OBVIOUS
  <2>2. PipeFits(q, p)
    BY <2>1 DEF PipeInv
  <2>3. p.at \notin {"insert", "check", "version"}
    BY <2>2, <1>4, <1>14 DEF PipeFits, OneWriter
  <2>4. PipeFits(q, p)'
    BY <2>2, <2>3, <1>12 DEF PipeFits
  <2>5. pipelineOp'[q] = p
    BY <1>7, <1>14, <2>1 DEF Pipes!Goes, PipeInv, PipeTypes
  <2> QED BY <2>4, <2>5
<1>15. CASE Pipes!Goes(r, Pipes!Idle)
  <2>1. pipelineOp' \in [PipelineReq -> PipeDoing] /\ pipelineOp'[r] = Pipes!Idle
    BY <1>15, IdleFits, PipeGoes DEF PipeInv, PipeTypes
  <2>2. PipeFits(r, pipelineOp[r])'
    BY <2>1 DEF PipeFits, Pipes!Idle
  <2> QED BY <1>6, <1>8, <1>9, <1>10, <1>11, <1>13, <1>14, <2>1, <2>2 DEF PipeInv, PipeTypes
<1>16. CASE Pipes!Goes(r, next) /\ o.rest # <<>>
  <2>1. next \in PipeDoing /\ next.at = "check" /\ next.known = known
    BY <1>3, <1>16 DEF PipeDoing, PipeCheck, next
  <2>2. pipelineOp' \in [PipelineReq -> PipeDoing] /\ pipelineOp'[r] = next
    BY <1>16, <2>1, PipeGoes DEF PipeInv, PipeTypes
  <2>3. ASSUME NEW k \in known, NEW row \in pipelineRows', row.name = k.name
        PROVE  Pipes!Normalised(row.def) \in known
    <3>1. CASE row = new
      BY <3>1, <1>4, <1>5
    <3>2. CASE row \in pipelineRows /\ k \in o.known
      BY <2>3, <3>2, <1>4, <1>16 DEF Knows, AllKnown
    <3>3. CASE row \in pipelineRows /\ k = o.def
      BY <2>3, <3>3, <1>4, <1>16 DEF IsNews, AllKnown
    <3> QED BY <2>3, <1>6, <3>1, <3>2, <3>3
  <2>4. Knows(next)'
    BY <2>1, <2>3 DEF Knows, AllKnown
  <2>5. PipeFits(r, next)'
    BY <2>1, <2>4, <1>4 DEF PipeFits
  <2>6. PipeFits(r, pipelineOp[r])'
    BY <2>2, <2>5
  <2> QED BY <1>6, <1>8, <1>9, <1>10, <1>11, <1>13, <1>14, <2>2, <2>6 DEF PipeInv, PipeTypes
<1> QED BY <1>7, <1>15, <1>16

\* Every step keeps the invariant.
LEMMA PipeInvStep == OneWriter /\ PipeInv /\ [Pipes!Next]_(Pipes!vars) => PipeInv'
<1> SUFFICES ASSUME OneWriter, PipeInv, [Pipes!Next]_(Pipes!vars) PROVE PipeInv'
  OBVIOUS
<1>1. ASSUME NEW r \in PipelineReq, NEW d \in Candidate, Pipes!Save(r, d) PROVE PipeInv'
  BY <1>1, PipeSave
<1>2. ASSUME NEW r \in PipelineReq, Pipes!Insert(r) PROVE PipeInv'
  BY <1>2, PipeInserts
<1>3. ASSUME NEW r \in PipelineReq, Pipes!Fail(r) PROVE PipeInv'
  BY <1>3, PipeFail
<1>4. ASSUME NEW r \in PipelineReq, Pipes!ImportBegin(r) PROVE PipeInv'
  BY <1>4, PipeImportBegin
<1>5. ASSUME NEW r \in PipelineReq, Pipes!ImportCheck(r) PROVE PipeInv'
  BY <1>5, PipeImportCheck
<1>6. ASSUME NEW r \in PipelineReq, Pipes!ImportVersion(r) PROVE PipeInv'
  BY <1>6, PipeImportVersion
<1>7. ASSUME NEW r \in PipelineReq, NEW n \in PipelineName, NEW version \in 0..MaxVersions,
             Pipes!RunLoad(r, n, version)
      PROVE  PipeInv'
  BY <1>7, PipeRunLoad
<1>8. ASSUME NEW r \in PipelineReq, Pipes!RunEnd(r) PROVE PipeInv'
  BY <1>8, PipeRunEnd
<1>9. ASSUME NEW n \in PipelineName, Pipes!Delete(n) PROVE PipeInv'
  BY <1>9, PipeDelete
<1>10. ASSUME Pipes!Export PROVE PipeInv'
  BY <1>10, PipeExport
<1>11. ASSUME UNCHANGED Pipes!vars PROVE PipeInv'
  BY <1>11 DEF Pipes!vars, PipeInv, PipeTypes, VersionsBounded, VersionsUnique, RowsNamed,
         RunStands, PipeFits, VersionFree, Knows, IsNews, AllKnown
<1> QED
  BY <1>1, <1>2, <1>3, <1>4, <1>5, <1>6, <1>7, <1>8, <1>9, <1>10, <1>11 DEF Pipes!Next

\* Initially nothing is stored, and a bundle may have come from elsewhere.
LEMMA PipeInit == Pipes!Init => PipeInv
<1> SUFFICES ASSUME Pipes!Init PROVE PipeInv
  OBVIOUS
<1>1. PipeTypes
  <2>1. bundle \in Seq(Pipes!Definition)
    <3>1. bundle \in Bundle \/ bundle = <<>>
      BY DEF Pipes!Init
    <3>2. <<>> \in Seq(Pipes!Definition)
      OBVIOUS
    <3> QED BY <3>1, <3>2, PipelineAssumption
  <2>2. pipelineOp \in [PipelineReq -> PipeDoing] /\ deletes \in [PipelineName -> Nat]
    BY IdleFits DEF Pipes!Init
  <2>3. pipelineRows = {} /\ runs = {} /\ IsFiniteSet(pipelineRows)
    BY FS_EmptySet DEF Pipes!Init
  <2> QED BY <2>1, <2>2, <2>3 DEF PipeTypes
<1>2. VersionsBounded /\ VersionsUnique /\ RowsNamed /\ \A run \in runs : RunStands(run)
  BY DEF Pipes!Init, VersionsBounded, VersionsUnique, RowsNamed
<1>3. \A r \in PipelineReq : PipeFits(r, pipelineOp[r])
  BY IdleFits DEF Pipes!Init
<1> QED BY <1>1, <1>2, <1>3 DEF PipeInv

\* Until its pipeline is deleted, a recorded run names exactly the definition it ran
\* (savePipeline), for any number of runs, versions and deletions, and imports that end
\* half way, while one request saves or imports at a time.
THEOREM RunsTraced ==
    ASSUME OneWriter
    PROVE  Pipes!Spec => []RunTraceable
<1>1. PipeInv => RunTraceable
  <2> SUFFICES ASSUME PipeInv, NEW run \in runs, run.deletes = deletes[run.name]
               PROVE  Pipes!Named(run) = {run.ran}
    BY DEF RunTraceable, Pipes!RunTraceable
  <2> DEFINE row == [name |-> run.name, version |-> run.version, def |-> run.ran]
  <2>1. row \in pipelineRows
    BY DEF PipeInv, RunStands
  <2>2. row.name = run.name /\ row.version = run.version /\ row.def = run.ran
    OBVIOUS
  <2> HIDE DEF row
  <2>3. \A x \in pipelineRows : x.name = run.name /\ x.version = run.version => x = row
    BY <2>1, <2>2 DEF PipeInv, VersionsUnique
  <2> QED BY <2>1, <2>2, <2>3 DEF Pipes!Named
<1> QED BY <1>1, PipeInit, PipeInvStep, PTL DEF Pipes!Spec

\* An import stores no definition again that is stored (readPipelineBundle), however often
\* it is repeated and wherever earlier ones failed, while one request saves or imports at a
\* time.
THEOREM ImportsAddNew ==
    ASSUME OneWriter
    PROVE  Pipes!Spec => ImportAddsNew
<1>1. ASSUME PipeInv, [Pipes!Next]_(Pipes!vars), NEW r \in PipelineReq,
             Pipes!At(r, "insert"), pipelineOp[r].importing, pipelineOp'[r] # pipelineOp[r],
             NEW new \in pipelineRows' \ pipelineRows, NEW old \in pipelineRows
      PROVE  Pipes!Normalised(old.def) # new.def
  <2>1. PICK o : o = pipelineOp[r]
    OBVIOUS
  <2>2. o.at = "insert" /\ o \in PipeInsert /\ PipeFits(r, o) /\ o.importing
    BY <1>1, <2>1, PipeDoingFacts DEF Pipes!At, PipeInv, PipeTypes
  <2>3. IsNews(o) /\ Pipes!Normalised(o.def) = o.def
    BY <2>2 DEF PipeFits
  \* Rows come from an insert, and that of another request changes it alone.
  <2>4. Pipes!Insert(r)
    <3>1. PICK q \in PipelineReq : Pipes!Insert(q)
      <4>1. pipelineRows' # pipelineRows /\ ~(pipelineRows' \subseteq pipelineRows)
        BY <1>1
      <4>2. ASSUME NEW q \in PipelineReq
            PROVE  /\ \A d : ~Pipes!Save(q, d)
                   /\ ~Pipes!Fail(q) /\ ~Pipes!ImportBegin(q) /\ ~Pipes!ImportCheck(q)
                   /\ ~Pipes!ImportVersion(q) /\ \A n, v : ~Pipes!RunLoad(q, n, v)
                   /\ ~Pipes!RunEnd(q)
        BY <4>1 DEF Pipes!Save, Pipes!Fail, Pipes!ImportBegin, Pipes!ImportCheck,
               Pipes!ImportVersion, Pipes!RunLoad, Pipes!RunEnd
      <4>3. (\A n : ~Pipes!Delete(n)) /\ ~Pipes!Export /\ ~UNCHANGED Pipes!vars
        BY <4>1 DEF Pipes!Delete, Pipes!Export, Pipes!vars
      <4> QED BY <1>1, <4>2, <4>3 DEF Pipes!Next
    <3>2. pipelineOp[q].at = "insert"
      BY <3>1 DEF Pipes!Insert, Pipes!At
    <3>3. q \in Writers /\ r \in Writers
      BY <1>1, <2>1, <2>2, <3>2 DEF PipeInv, PipeFits
    <3> QED BY <3>1, <3>3 DEF OneWriter
  <2>5. new.def = o.def
    BY <1>1, <2>1, <2>4 DEF Pipes!Insert
  <2>6. old.def \in Pipes!Definition /\ old.def.name = old.name
    BY <1>1 DEF PipeInv, PipeTypes, PipeRow, RowsNamed
  <2>7. CASE old.name = o.def.name
    BY <1>1, <2>3, <2>5, <2>7 DEF IsNews, AllKnown
  <2>8. CASE old.name # o.def.name
    BY <2>5, <2>6, <2>8, NormalisedFacts
  <2> QED BY <2>7, <2>8
<1>2. PipeInv /\ [Pipes!Next]_(Pipes!vars)
      => [\A r \in PipelineReq :
            Pipes!At(r, "insert") /\ pipelineOp[r].importing /\ pipelineOp'[r] # pipelineOp[r]
            => \A new \in pipelineRows' \ pipelineRows, old \in pipelineRows :
                  Pipes!Normalised(old.def) # new.def]_(Pipes!vars)
  BY <1>1
<1> QED BY <1>2, PipeInit, PipeInvStep, PTL DEF Pipes!Spec, ImportAddsNew, Pipes!ImportAddsNew

----------------------------------------------------------------------------
(* Snapshots *)

Database == SUBSET Nat

Restoring ==
    {Restores!Idle} \cup [at : {"write"}, w : Nat]
    \cup [at : {"backup", "replace"}, upload : Database]

RestoreTypeInv ==
    /\ data \in Database /\ file \in Database
    /\ exported \in SUBSET Database
    /\ up \in BOOLEAN /\ writes \in Nat
    /\ snapshotOp \in [SnapshotReq -> Restoring]

\* The copy was made when the database of the start was in the file or in a backup
\* already: once somebody is about to replace the file, there is a backup of it.
BackedUp == \A r \in SnapshotReq : snapshotOp[r].at = "replace" => up /\ opened \in backups

\* The requests end with the process.
NobodyRestores == ~up => \A r \in SnapshotReq : snapshotOp[r] = Restores!Idle

RestoreInv == RestoreTypeInv /\ OpenedKept /\ BackedUp /\ NobodyRestores

----------------------------------------------------------------------------

\* A request that goes on leaves the others where they are.
LEMMA RestoreGoesFacts ==
    ASSUME snapshotOp \in [SnapshotReq -> Restoring], NEW r \in SnapshotReq,
           NEW o \in Restoring, Restores!Goes(r, o)
    PROVE  /\ snapshotOp' \in [SnapshotReq -> Restoring]
           /\ snapshotOp'[r] = o
           /\ \A q \in SnapshotReq : q # r => snapshotOp'[q] = snapshotOp[q]
BY DEF Restores!Goes

\* The places a request goes to are places.
LEMMA RestoringFacts ==
    /\ Restores!Idle \in Restoring /\ Restores!Idle.at = "idle"
    /\ \A n \in Nat : /\ [at |-> "write", w |-> n] \in Restoring
                      /\ [at |-> "write", w |-> n].at = "write"
    /\ \A u \in Database : /\ [at |-> "backup", upload |-> u] \in Restoring
                           /\ [at |-> "backup", upload |-> u].at = "backup"
BY DEF Restoring, Restores!Idle

\* A request with a backup to make or a file to replace has an upload.
LEMMA UploadFacts ==
    ASSUME NEW o \in Restoring, o.at \in {"backup", "replace"}
    PROVE  /\ o.upload \in Database
           /\ [o EXCEPT !.at = "replace"] \in Restoring
           /\ [o EXCEPT !.at = "replace"].at = "replace"
<1>1. o \in [at : {"backup", "replace"}, upload : Database]
  BY DEF Restoring, Restores!Idle
<1> QED BY <1>1 DEF Restoring

\* A step of one request that leaves the file, the backups and the process alone, and
\* does not end right before the replacement.
LEMMA QuietRestoreStep ==
    ASSUME RestoreInv, NEW r \in SnapshotReq, NEW o \in Restoring, up, Restores!Goes(r, o),
           o.at # "replace",
           data' \in Database, exported' \in SUBSET Database, writes' \in Nat,
           UNCHANGED <<file, backups, up, opened>>
    PROVE  RestoreInv'
<1>1. /\ snapshotOp' \in [SnapshotReq -> Restoring] /\ snapshotOp'[r] = o
      /\ \A q \in SnapshotReq : q # r => snapshotOp'[q] = snapshotOp[q]
  BY RestoreGoesFacts DEF RestoreInv, RestoreTypeInv
<1>2. BackedUp' /\ NobodyRestores' /\ OpenedKept'
  BY <1>1 DEF RestoreInv, BackedUp, NobodyRestores, OpenedKept, Restores!OpenedKept
<1> QED BY <1>1, <1>2 DEF RestoreInv, RestoreTypeInv

----------------------------------------------------------------------------

\* A write is let in, and is done.
LEMMA SnapshotWritingInv ==
    ASSUME RestoreInv, NEW r \in SnapshotReq, Restores!Admit(r) \/ Restores!Write(r)
    PROVE  RestoreInv'
<1>1. CASE Restores!Admit(r)
  <2>1. writes' \in Nat /\ writes' = writes + 1
    BY <1>1 DEF Restores!Admit, RestoreInv, RestoreTypeInv
  <2>2. /\ [at |-> "write", w |-> writes'] \in Restoring
        /\ [at |-> "write", w |-> writes'].at # "replace"
    BY <2>1, RestoringFacts
  <2> QED BY <1>1, <2>1, <2>2, QuietRestoreStep
                 DEF Restores!Admit, Restores!At, RestoreInv, RestoreTypeInv
<1>2. CASE Restores!Write(r)
  <2>1. snapshotOp[r] \in Restoring /\ snapshotOp[r].at = "write"
    BY <1>2 DEF Restores!Write, Restores!At, RestoreInv, RestoreTypeInv
  <2>2. snapshotOp[r].w \in Nat
    BY <2>1 DEF Restoring, Restores!Idle
  <2>3. data' \in Database
    BY <1>2, <2>2 DEF Restores!Write, Database, RestoreInv, RestoreTypeInv
  <2> QED BY <1>2, <2>3, RestoringFacts, QuietRestoreStep
                 DEF Restores!Write, Restores!At, RestoreInv, RestoreTypeInv
<1> QED BY <1>1, <1>2

\* An upload is staged.
LEMMA SnapshotStageInv ==
    ASSUME RestoreInv, NEW r \in SnapshotReq, NEW upload, Restores!Stage(r, upload)
    PROVE  RestoreInv'
<1>1. upload \in Database
  BY DEF Restores!Stage, RestoreInv, RestoreTypeInv, Restores!Elsewhere, Database
<1>2. /\ [at |-> "backup", upload |-> upload] \in Restoring
      /\ [at |-> "backup", upload |-> upload].at # "replace"
  BY <1>1, RestoringFacts
<1> QED BY <1>2, QuietRestoreStep DEF Restores!Stage, Restores!At, RestoreInv, RestoreTypeInv

\* The copy: what is in the file now, the database of the start perhaps, is a backup.
LEMMA SnapshotBackupInv ==
    ASSUME RestoreInv, NEW r \in SnapshotReq, Restores!Backup(r)
    PROVE  RestoreInv'
<1>1. /\ up /\ snapshotOp[r] \in Restoring /\ snapshotOp[r].at = "backup"
      /\ snapshotOp \in [SnapshotReq -> Restoring]
  BY DEF Restores!Backup, Restores!At, RestoreInv, RestoreTypeInv
<1>2. CASE /\ backups' = backups \cup {file}
           /\ Restores!Goes(r, [snapshotOp[r] EXCEPT !.at = "replace"])
  <2>1. /\ [snapshotOp[r] EXCEPT !.at = "replace"] \in Restoring
    BY <1>1, UploadFacts
  <2>2. snapshotOp' \in [SnapshotReq -> Restoring]
    BY <1>1, <1>2, <2>1, RestoreGoesFacts
  <2>3. OpenedKept' /\ BackedUp' /\ NobodyRestores'
    BY <1>1, <1>2 DEF Restores!Backup, RestoreInv, OpenedKept, Restores!OpenedKept,
           BackedUp, NobodyRestores
  <2> QED BY <2>2, <2>3 DEF Restores!Backup, RestoreInv, RestoreTypeInv
<1>3. CASE UNCHANGED backups /\ Restores!Goes(r, Restores!Idle)
  BY <1>1, <1>3, RestoringFacts, QuietRestoreStep
         DEF Restores!Backup, RestoreInv, RestoreTypeInv
<1> QED BY <1>2, <1>3 DEF Restores!Backup

\* The replacement: there is a backup of the database of the start by now.
LEMMA SnapshotReplaceInv ==
    ASSUME RestoreInv, NEW r \in SnapshotReq, Restores!Replace(r)
    PROVE  RestoreInv'
<1>1. /\ up /\ snapshotOp[r] \in Restoring /\ snapshotOp[r].at = "replace"
      /\ snapshotOp \in [SnapshotReq -> Restoring]
      /\ opened \in backups
  BY DEF Restores!Replace, Restores!At, RestoreInv, RestoreTypeInv, BackedUp
<1>2. file' \in Database
  BY <1>1, UploadFacts DEF Restores!Replace, RestoreInv, RestoreTypeInv
<1>3. /\ snapshotOp' \in [SnapshotReq -> Restoring] /\ snapshotOp'[r] = Restores!Idle
      /\ \A q \in SnapshotReq : q # r => snapshotOp'[q] = snapshotOp[q]
  BY <1>1, RestoringFacts, RestoreGoesFacts DEF Restores!Replace
<1>4. OpenedKept' /\ BackedUp' /\ NobodyRestores'
  BY <1>1, <1>3 DEF Restores!Replace, RestoreInv, OpenedKept, Restores!OpenedKept,
         BackedUp, NobodyRestores, Restores!Idle
<1> QED BY <1>2, <1>3, <1>4 DEF Restores!Replace, RestoreInv, RestoreTypeInv

\* A stop: the file is what it was or the memory, and all requests end.
LEMMA SnapshotStopInv ==
    ASSUME RestoreInv, Restores!CleanStop \/ Restores!Crash
    PROVE  RestoreInv'
<1>1. /\ snapshotOp' = [r \in SnapshotReq |-> Restores!Idle] /\ up' = FALSE
      /\ file' \in {data, file} /\ UNCHANGED <<data, exported, writes>>
  BY DEF Restores!CleanStop, Restores!Crash, Restores!Down
<1>2. /\ snapshotOp' \in [SnapshotReq -> Restoring]
      /\ \A r \in SnapshotReq : snapshotOp'[r] = Restores!Idle /\ snapshotOp'[r].at # "replace"
  BY <1>1, RestoringFacts
<1>3. RestoreTypeInv'
  BY <1>1, <1>2 DEF RestoreInv, RestoreTypeInv
<1>4. OpenedKept' /\ BackedUp' /\ NobodyRestores'
  BY <1>1, <1>2 DEF OpenedKept, Restores!OpenedKept, BackedUp, NobodyRestores
<1> QED BY <1>3, <1>4 DEF RestoreInv

\* A start: nobody works yet, and what was loaded is in the file.
LEMMA SnapshotStartInv ==
    ASSUME RestoreInv, Restores!Start
    PROVE  RestoreInv'
BY DEF Restores!Start, RestoreInv, RestoreTypeInv, OpenedKept, Restores!OpenedKept,
       BackedUp, NobodyRestores, Restores!Idle

\* Every step keeps the invariant.
LEMMA RestoreInvStep == RestoreInv /\ [Restores!Next]_(Restores!vars) => RestoreInv'
<1> SUFFICES ASSUME RestoreInv, [Restores!Next]_(Restores!vars) PROVE RestoreInv'
  OBVIOUS
<1>1. ASSUME NEW r \in SnapshotReq, Restores!Admit(r) \/ Restores!Write(r) PROVE RestoreInv'
  BY <1>1, SnapshotWritingInv
<1>2. ASSUME NEW r \in SnapshotReq, NEW upload \in exported \cup {Restores!Elsewhere,
             Restores!Torn}, Restores!Stage(r, upload)
      PROVE  RestoreInv'
  BY <1>2, SnapshotStageInv
<1>3. ASSUME NEW r \in SnapshotReq, Restores!Backup(r) PROVE RestoreInv'
  BY <1>3, SnapshotBackupInv
<1>4. ASSUME NEW r \in SnapshotReq, Restores!Replace(r) PROVE RestoreInv'
  BY <1>4, SnapshotReplaceInv
<1>5. ASSUME NEW on \in BOOLEAN, Restores!SetMaintenance(on) PROVE RestoreInv'
  BY <1>5 DEF Restores!SetMaintenance, RestoreInv, RestoreTypeInv, OpenedKept,
         Restores!OpenedKept, BackedUp, NobodyRestores
<1>6. ASSUME Restores!Export PROVE RestoreInv'
  BY <1>6 DEF Restores!Export, RestoreInv, RestoreTypeInv, OpenedKept, Restores!OpenedKept,
         BackedUp, NobodyRestores
<1>7. ASSUME Restores!CleanStop \/ Restores!Crash PROVE RestoreInv'
  BY <1>7, SnapshotStopInv
<1>8. ASSUME Restores!Start PROVE RestoreInv'
  BY <1>8, SnapshotStartInv
<1>9. ASSUME UNCHANGED Restores!vars PROVE RestoreInv'
  BY <1>9 DEF Restores!vars, RestoreInv, RestoreTypeInv, OpenedKept, Restores!OpenedKept,
         BackedUp, NobodyRestores
<1> QED BY <1>1, <1>2, <1>3, <1>4, <1>5, <1>6, <1>7, <1>8, <1>9 DEF Restores!Next

\* As long as the process lives, the database it was started from is in the file or in a
\* backup, however many restores overlap or fail (apiSnapshotRestoreHandler copies before
\* it renames): for any number of requests, writes and stops.
THEOREM OpenedSurvives == Restores!Spec => []OpenedKept
<1>1. Restores!Init => RestoreInv
  BY DEF Restores!Init, RestoreInv, RestoreTypeInv, OpenedKept, Restores!OpenedKept,
         BackedUp, NobodyRestores, Restoring, Restores!Idle, Database
<1>2. RestoreInv => OpenedKept
  BY DEF RestoreInv
<1> QED BY <1>1, <1>2, RestoreInvStep, PTL DEF Restores!Spec

----------------------------------------------------------------------------
(* Logins *)

LoginProofs ==
    INSTANCE LoginLockoutProofs WITH Req <- LoginReq, Account <- LoginAccount, op <- loginOp

\* The two instances of LoginLockout are one.
LEMMA SameLogins ==
    /\ Logins!Init => LoginProofs!Init
    /\ [Logins!Next]_(Logins!vars) => [LoginProofs!Next]_(LoginProofs!vars)
    /\ LoginProofs!GuessesBounded <=> GuessesBounded
<1> USE DEF Logins!At, LoginProofs!At, Logins!Goes, LoginProofs!Goes,
            Logins!Idle, LoginProofs!Idle, Logins!NoAttempts, LoginProofs!NoAttempts,
            Logins!Spelling, LoginProofs!Spelling
<1>1. Logins!Init => LoginProofs!Init
  BY DEF Logins!Init, LoginProofs!Init
<1>2. \A u : /\ Logins!Expired(u) <=> LoginProofs!Expired(u)
             /\ Logins!LockedOut(u) <=> LoginProofs!LockedOut(u)
  BY DEF Logins!Expired, LoginProofs!Expired, Logins!LockedOut, LoginProofs!LockedOut
<1>3. \A a : Logins!Capped(Logins!Failure(a)) = LoginProofs!Capped(LoginProofs!Failure(a))
  BY DEF Logins!Failure, LoginProofs!Failure, Logins!Capped, LoginProofs!Capped
<1>4. ASSUME NEW r \in LoginReq
      PROVE  /\ \A u : Logins!Submit(r, u) => LoginProofs!Submit(r, u)
             /\ \A right : Logins!Compare(r, right) => LoginProofs!Compare(r, right)
             /\ Logins!LookupFails(r) => LoginProofs!LookupFails(r)
             /\ Logins!Record(r) => LoginProofs!Record(r)
             /\ Logins!Clear(r) => LoginProofs!Clear(r)
  BY <1>2, <1>3 DEF Logins!Submit, LoginProofs!Submit, Logins!Compare, LoginProofs!Compare,
         Logins!LookupFails, LoginProofs!LookupFails,
         Logins!Record, LoginProofs!Record, Logins!Clear, LoginProofs!Clear
<1>5. Logins!Tick => LoginProofs!Tick
  BY DEF Logins!Tick, LoginProofs!Tick
<1>6. Logins!Next => LoginProofs!Next
  BY <1>4, <1>5 DEF Logins!Next, LoginProofs!Next
<1>7. UNCHANGED Logins!vars => UNCHANGED LoginProofs!vars
  BY DEF Logins!vars, LoginProofs!vars
<1>8. LoginProofs!GuessesBounded <=> GuessesBounded
  BY DEF LoginProofs!GuessesBounded, GuessesBounded, Logins!GuessesBounded, Logins!Cardinality, LoginProofs!Cardinality, Logins!IsFiniteSet, LoginProofs!IsFiniteSet
<1> QED BY <1>1, <1>6, <1>7, <1>8

\* Parallel logins guess a bounded number of times (LoginLockoutProofs), if they are
\* finitely many and the limit and the lock time are numbers.
THEOREM GuessesHeld ==
    ASSUME IsFiniteSet(LoginReq), MaxFailures \in Nat \ {0}, LockTime \in Nat
    PROVE  Logins!Spec => []GuessesBounded
<1>1. LoginProofs!Limits
  BY DEF LoginProofs!Limits, IsFiniteSet, LoginProofs!IsFiniteSet
<1>2. LoginProofs!Spec => []LoginProofs!GuessesBounded
  BY <1>1, LoginProofs!GuessesLimited
<1> QED BY <1>2, SameLogins, PTL DEF Logins!Spec, LoginProofs!Spec

----------------------------------------------------------------------------
(* Settings *)

\* What a setting may be, all settings together, and what an actor may be doing.
Datum == Value \cup {Tuning!Unset, "flat", "hnsw", "odd"} \cup BOOLEAN

Tuned == [Tuning!Setting -> Datum]

Carrying == [at : {"carry"}, s : Tuned, todo : Seq(Tuning!Setting), alone : BOOLEAN]
Applying == [at : {"apply"}, s : Tuned, alone : BOOLEAN]
Waiting  == [at : {"save"}, alone : BOOLEAN]
Writing  == [at : {"delete", "insert"}, s : Tuned, alone : BOOLEAN,
             todo : Seq(Tuning!Setting) \ {<<>>}]
Resting  == [at : {"idle"}, alone : {FALSE}]

Tunings == Carrying \cup Applying \cup Waiting \cup Writing \cup Resting

TuneTypes ==
    /\ memory \in Tuned
    /\ stored \in [Tuning!Setting -> Seq(Datum)]
    /\ settingsOp \in [Tuning!Actor -> Tunings]
    /\ synced \in BOOLEAN /\ lost \in BOOLEAN /\ crashes \in Nat

\* What is in memory has been applied: applying it again changes nothing.
Fixed(s) == s.index # Tuning!Unset /\ s.warm = (s.warm /\ s.index = "hnsw")

\* An actor that has, or will have, a password to store.
HasPassword(o) ==
    /\ o.at \in {"apply", "delete", "insert"} => o.s.password # Tuning!Unset
    /\ o.at = "carry" => \/ o.s.password # Tuning!Unset
                         \/ \E i \in DOMAIN o.todo : o.todo[i] = "password"

\* The password is in memory, in its rows and in what every actor is about to apply.
PasswordSafe ==
    ~lost => /\ memory.password # Tuning!Unset
             /\ \A i \in DOMAIN stored.password : stored.password[i] # Tuning!Unset
             /\ \A r \in Tuning!Actor : HasPassword(settingsOp[r])

\* Who runs alone has no company.
AloneInv ==
    \A r \in Tuning!Actor : settingsOp[r].alone =>
        \A q \in Tuning!Actor \ {r} : settingsOp[q].at = "idle"

\* What an actor that runs alone has not written yet is still to do.
Written(o) ==
    o.at \in {"delete", "insert"} /\ o.alone =>
        /\ o.s = memory
        /\ \A k \in Tuning!Setting :
              (\E i \in DOMAIN o.todo : o.todo[i] = k) \/ stored[k] = <<memory[k]>>
        /\ o.at = "insert" => stored[Head(o.todo)] = <<>>

\* What was stored to the end by an actor alone is what memory holds.
SyncInv ==
    /\ \A r \in Tuning!Actor : Written(settingsOp[r])
    /\ synced => /\ \A r \in Tuning!Actor : settingsOp[r].at \notin {"save", "delete", "insert"}
                 /\ \A k \in Tuning!Setting : stored[k] = <<memory[k]>>

TuneInv == TuneTypes /\ Fixed(memory) /\ PasswordSafe /\ AloneInv /\ SyncInv

\* The settings are few, and known by name.
USE DEF Tuning!Setting

\* What each form of operation has.
LEMMA TuneFields ==
    ASSUME NEW o \in Tunings
    PROVE  /\ o.at \in {"idle", "carry", "apply", "save", "delete", "insert"}
           /\ o.alone \in BOOLEAN
           /\ o.at = "carry" => o \in Carrying
           /\ o.at = "apply" => o \in Applying
           /\ o.at = "save" => o \in Waiting
           /\ o.at \in {"delete", "insert"} => o \in Writing
           /\ o.at = "idle" => o \in Resting
  BY DEF Tunings, Carrying, Applying, Waiting, Writing, Resting

\* An operation that gets company stays what it is.
LEMMA TuneCompany ==
    ASSUME NEW o \in Tunings
    PROVE  /\ [o EXCEPT !.alone = FALSE] \in Tunings
           /\ [o EXCEPT !.alone = FALSE].at = o.at
           /\ [o EXCEPT !.alone = FALSE].alone = FALSE
           /\ HasPassword(o) => HasPassword([o EXCEPT !.alone = FALSE])
  <1> DEFINE c == [o EXCEPT !.alone = FALSE]
  <1>1. CASE o \in Carrying
    <2>1. c \in Carrying
      BY <1>1 DEF Carrying
    <2>2. c.at = o.at /\ c.alone = FALSE /\ c.s = o.s /\ c.todo = o.todo
      BY <1>1 DEF Carrying
    <2> QED BY <2>1, <2>2 DEF Tunings, HasPassword
  <1>2. CASE o \in Applying
    <2>1. c \in Applying
      BY <1>2 DEF Applying
    <2>2. c.at = o.at /\ c.alone = FALSE /\ c.s = o.s /\ o.at = "apply"
      BY <1>2 DEF Applying
    <2> QED BY <2>1, <2>2 DEF Tunings, HasPassword
  <1>3. CASE o \in Waiting
    <2>1. c \in Waiting
      BY <1>3 DEF Waiting
    <2>2. c.at = o.at /\ c.alone = FALSE /\ o.at = "save"
      BY <1>3 DEF Waiting
    <2> QED BY <2>1, <2>2 DEF Tunings, HasPassword
  <1>4. CASE o \in Writing
    <2>1. c \in Writing
      BY <1>4 DEF Writing
    <2>2. c.at = o.at /\ c.alone = FALSE /\ c.s = o.s /\ c.todo = o.todo
      BY <1>4 DEF Writing
    <2> QED BY <2>1, <2>2 DEF Tunings, HasPassword
  <1>5. CASE o \in Resting
    <2>1. c \in Resting
      BY <1>5 DEF Resting
    <2>2. c.at = o.at /\ c.alone = FALSE /\ o.at = "idle"
      BY <1>5 DEF Resting
    <2> QED BY <2>1, <2>2 DEF Tunings, HasPassword
  <1> QED BY <1>1, <1>2, <1>3, <1>4, <1>5 DEF Tunings

\* The settings, as functions.
LEMMA TuneRecords ==
    /\ Tuning!Flags \in Tuned
    /\ \A s \in Tuned : /\ Tuning!Applied(s) \in Tuned
                        /\ Fixed(Tuning!Applied(s))
                        /\ Tuning!Applied(s).password = s.password
                        /\ Fixed(s) => Tuning!Applied(s) = s
  <1>1. Tuning!Flags \in Tuned
    <2> DEFINE f == Tuning!Flags
    <2>1. DOMAIN f = Tuning!Setting
      BY DEF Tuning!Flags
    <2>2. \A k \in Tuning!Setting : f[k] \in Datum
      <3>1. /\ f["llm"] = Tuning!Unset /\ f["embedding"] = Tuning!Unset
            /\ f["index"] = Tuning!Unset /\ f["password"] = Tuning!Unset
            /\ f["warm"] = FALSE /\ f["maintenance"] = FALSE
        BY DEF Tuning!Flags
      <3>2. Tuning!Unset \in Datum /\ FALSE \in Datum
        BY DEF Datum
      <3> QED BY <3>1, <3>2
    <2>3. f = [k \in Tuning!Setting |-> f[k]]
      BY <2>1 DEF Tuning!Flags
    <2> QED BY <2>2, <2>3 DEF Tuned
  <1>2. ASSUME NEW s \in Tuned
        PROVE  /\ Tuning!Applied(s) \in Tuned
               /\ Fixed(Tuning!Applied(s))
               /\ Tuning!Applied(s).password = s.password
               /\ Fixed(s) => Tuning!Applied(s) = s
    <2> DEFINE a == Tuning!Applied(s)
    <2>1. a \in Tuned
      BY DEF Tuning!Applied, Tuned, Datum
    <2>2. /\ a.index = IF s.index = Tuning!Unset THEN "flat" ELSE s.index
          /\ a.warm = (s.warm /\ s.index = "hnsw")
          /\ a.password = s.password
          /\ \A k \in Tuning!Setting \ {"index", "warm"} : a[k] = s[k]
      BY DEF Tuning!Applied, Tuned
    <2>3. Fixed(a)
      BY <2>2 DEF Fixed, Tuning!Unset
    <2>4. ASSUME Fixed(s) PROVE a = s
      <3>1. \A k \in Tuning!Setting : a[k] = s[k]
        BY <2>2, <2>4 DEF Fixed
      <3> QED BY <3>1, <2>1 DEF Tuned
    <2> QED BY <2>1, <2>2, <2>3, <2>4
  <1> QED BY <1>1, <1>2

\* The settings a server has been set up with.
LEMMA TuneInit == Tuning!Init => TuneInv
  <1> SUFFICES ASSUME Tuning!Init PROVE TuneInv
    OBVIOUS
  <1>1. PICK hash \in Value, secret \in Value, i \in {"flat", "hnsw"} :
          memory = [Tuning!Applied(Tuning!Flags) EXCEPT !.password = hash, !.embedding = secret,
                                          !.index = i, !.warm = (i = "hnsw")]
    BY DEF Tuning!Init
  <1>2. memory \in Tuned
    BY <1>1, TuneRecords DEF Tuned, Datum
  <1>3. memory.password = hash /\ memory.index = i /\ memory.warm = (i = "hnsw")
    BY <1>1, TuneRecords DEF Tuned
  <1>4. Fixed(memory)
    BY <1>3 DEF Fixed, Tuning!Unset
  <1>5. /\ stored = [k \in Tuning!Setting |-> <<memory[k]>>]
        /\ settingsOp = [r \in Tuning!Actor |-> Tuning!Idle]
        /\ synced = TRUE /\ lost = FALSE /\ crashes = 0
    BY DEF Tuning!Init
  <1>6. stored \in [Tuning!Setting -> Seq(Datum)]
    BY <1>2, <1>5 DEF Tuned
  <1>7. Tuning!Idle \in Tunings /\ Tuning!Idle.at = "idle" /\ Tuning!Idle.alone = FALSE
    BY DEF Tuning!Idle, Tunings, Resting
  <1>8. TuneTypes
    BY <1>2, <1>5, <1>6, <1>7 DEF TuneTypes
  <1>9. PasswordSafe
    BY <1>3, <1>5, <1>7, SettingsAssumption DEF PasswordSafe, HasPassword
  <1>10. AloneInv /\ SyncInv
    BY <1>5, <1>7 DEF AloneInv, SyncInv, Written
  <1> QED BY <1>4, <1>8, <1>9, <1>10 DEF TuneInv

\* An actor that goes on changes nobody else.
LEMMA TuneGoes ==
    ASSUME TuneTypes, AloneInv, NEW r \in Tuning!Actor, NEW o \in Tunings,
           settingsOp[r].at # "idle", o.alone => settingsOp[r].alone, Tuning!Goes(r, o)
    PROVE  /\ settingsOp' \in [Tuning!Actor -> Tunings]
           /\ settingsOp'[r] = o
           /\ \A q \in Tuning!Actor \ {r} : settingsOp'[q] = settingsOp[q]
           /\ AloneInv'
  <1>1. /\ settingsOp' \in [Tuning!Actor -> Tunings]
        /\ settingsOp'[r] = o
        /\ \A q \in Tuning!Actor \ {r} : settingsOp'[q] = settingsOp[q]
    BY DEF TuneTypes, Tuning!Goes
  <1>2. ASSUME NEW p \in Tuning!Actor, settingsOp'[p].alone, NEW q \in Tuning!Actor \ {p}
        PROVE  settingsOp'[q].at = "idle"
    <2>1. CASE p = r
      BY <1>1, <1>2, <2>1 DEF AloneInv
    <2>2. CASE p # r
      BY <1>1, <1>2, <2>2 DEF AloneInv
    <2> QED BY <2>1, <2>2
  <1> QED BY <1>1, <1>2 DEF AloneInv

\* A request that begins takes the others' solitude.
LEMMA TuneBegins ==
    ASSUME TuneTypes, NEW r \in Req, NEW o \in Tunings,
           o.alone => Tuning!Alone(r), Tuning!Begin(r, o)
    PROVE  /\ settingsOp' \in [Tuning!Actor -> Tunings]
           /\ settingsOp'[r] = o
           /\ \A q \in Tuning!Actor \ {r} :
                 settingsOp'[q] = [settingsOp[q] EXCEPT !.alone = FALSE]
           /\ AloneInv'
  <1>1. r \in Tuning!Actor /\ \A q \in Tuning!Actor : settingsOp[q] \in Tunings
    BY DEF Tuning!Actor, TuneTypes
  <1>2. settingsOp' = [q \in Tuning!Actor |->
                         IF q = r THEN o ELSE [settingsOp[q] EXCEPT !.alone = FALSE]]
    BY DEF Tuning!Begin
  <1>3. /\ settingsOp' \in [Tuning!Actor -> Tunings]
        /\ settingsOp'[r] = o
        /\ \A q \in Tuning!Actor \ {r} :
              settingsOp'[q] = [settingsOp[q] EXCEPT !.alone = FALSE]
    BY <1>1, <1>2, TuneCompany
  <1>4. ASSUME NEW p \in Tuning!Actor, settingsOp'[p].alone, NEW q \in Tuning!Actor \ {p}
        PROVE  settingsOp'[q].at = "idle"
    <2>1. p = r
      BY <1>1, <1>3, <1>4, TuneCompany
    <2>2. settingsOp[q].at = "idle"
      BY <1>3, <1>4, <2>1 DEF Tuning!Begin, Tuning!Alone, Tuning!At, Tuning!Actor
    <2> QED BY <1>1, <1>3, <2>1, <2>2, TuneCompany
  <1> QED BY <1>3, <1>4 DEF AloneInv

\* A request that begins to carry or to apply settings keeps the invariant, if it has a
\* password or will read one.
LEMMA TuneBegun ==
    ASSUME TuneInv, NEW r \in Req, NEW o \in Carrying \cup Applying,
           ~lost => HasPassword(o), o.alone => Tuning!Alone(r), Tuning!Begin(r, o),
           UNCHANGED <<memory, stored, synced, lost, crashes>>
    PROVE  TuneInv'
  <1>1. o \in Tunings /\ o.at \in {"carry", "apply"}
    BY DEF Tunings, Carrying, Applying
  <1>2. /\ settingsOp' \in [Tuning!Actor -> Tunings]
        /\ settingsOp'[r] = o
        /\ \A q \in Tuning!Actor \ {r} :
              settingsOp'[q] = [settingsOp[q] EXCEPT !.alone = FALSE]
        /\ AloneInv'
    BY <1>1, TuneBegins DEF TuneInv
  <1>3. TuneTypes'
    BY <1>2 DEF TuneInv, TuneTypes
  <1>4. \A q \in Tuning!Actor : settingsOp[q] \in Tunings
    BY DEF TuneInv, TuneTypes
  <1>5. PasswordSafe'
    <2> SUFFICES ASSUME ~lost
                 PROVE  \A q \in Tuning!Actor : HasPassword(settingsOp'[q])
      BY DEF TuneInv, PasswordSafe
    <2> QED BY <1>2, <1>4, TuneCompany DEF TuneInv, PasswordSafe
  <1>6. SyncInv'
    <2>1. ASSUME NEW q \in Tuning!Actor PROVE Written(settingsOp[q])'
      <3>1. CASE q = r
        BY <1>1, <1>2, <3>1 DEF Written
      <3>2. CASE q # r
        <4>1. settingsOp'[q] = [settingsOp[q] EXCEPT !.alone = FALSE]
          BY <1>2, <3>2
        <4>2. settingsOp'[q].alone = FALSE
          BY <1>4, <4>1, TuneCompany
        <4> QED BY <4>2 DEF Written
      <3> QED BY <3>1, <3>2
    <2>2. ASSUME synced, NEW q \in Tuning!Actor
          PROVE  settingsOp'[q].at \notin {"save", "delete", "insert"}
      <3>1. CASE q = r
        BY <1>1, <1>2, <3>1
      <3>2. CASE q # r
        BY <1>2, <1>4, <2>2, <3>2, TuneCompany DEF TuneInv, SyncInv
      <3> QED BY <3>1, <3>2
    <2> QED BY <2>1, <2>2 DEF TuneInv, SyncInv
  <1> QED BY <1>2, <1>3, <1>5, <1>6 DEF TuneInv

\* A step of an actor to carrying, applying, saving or nothing, that changes no settings.
LEMMA TuneMoves ==
    ASSUME TuneInv, NEW r \in Tuning!Actor, NEW o \in Tunings \ Writing,
           settingsOp[r].at # "idle", o.alone => settingsOp[r].alone, Tuning!Goes(r, o),
           o.at # "save", ~lost => HasPassword(o),
           UNCHANGED <<memory, stored, synced, lost, crashes>>
    PROVE  TuneInv'
  <1>1. /\ settingsOp' \in [Tuning!Actor -> Tunings]
        /\ settingsOp'[r] = o
        /\ \A q \in Tuning!Actor \ {r} : settingsOp'[q] = settingsOp[q]
        /\ AloneInv'
    BY TuneGoes DEF TuneInv
  <1>2. o.at \notin {"save", "delete", "insert"}
    BY TuneFields
  <1>3. TuneTypes'
    BY <1>1 DEF TuneInv, TuneTypes
  <1>4. PasswordSafe'
    BY <1>1 DEF TuneInv, PasswordSafe
  <1>5. ASSUME NEW q \in Tuning!Actor PROVE Written(settingsOp[q])'
    <2>1. CASE q = r
      BY <1>1, <1>2, <2>1 DEF Written
    <2>2. CASE q # r
      BY <1>1, <2>2 DEF TuneInv, SyncInv, Written
    <2> QED BY <2>1, <2>2
  <1>6. SyncInv'
    BY <1>1, <1>2, <1>5 DEF TuneInv, SyncInv
  <1> QED BY <1>1, <1>3, <1>4, <1>6 DEF TuneInv

\* A handler that copies the settings and changes some, but does not unset the password.
LEMMA TuneCopy ==
    ASSUME TuneInv, NEW r \in Req, NEW s \in Tuned, Tuning!Copy(r, s),
           s.password # memory.password => s.password # Tuning!Unset
    PROVE  TuneInv'
  <1> DEFINE o == [at |-> "apply", s |-> s, alone |-> Tuning!Alone(r)]
  <1>1. Tuning!Alone(r) \in BOOLEAN
    BY DEF Tuning!Alone
  <1>2. o \in Applying
    BY <1>1 DEF Applying
  <1>3. ~lost => HasPassword(o)
    BY DEF HasPassword, TuneInv, PasswordSafe
  <1> QED BY <1>2, <1>3, TuneBegun DEF Tuning!Copy

\* What a form sends and what it carries.
LEMMA TuneForm ==
    ASSUME NEW form \in {"html", "json"}, NEW in \in Inputs
    PROVE  /\ Tuning!Sent(form, in) \in Tuned
           /\ Tuning!Carried(form, in) \in Seq(Tuning!Setting)
           /\ \E i \in DOMAIN Tuning!Carried(form, in) : Tuning!Carried(form, in)[i] = "password"
  <1>1. in \in [llm : Value \cup {Tuning!Unset}, embedding : Value \cup {Tuning!Unset},
                index : {"flat", "hnsw", "odd"}, warm : BOOLEAN]
    BY SettingsAssumption
  <1>2. /\ DOMAIN in = {"llm", "embedding", "index", "warm"}
        /\ in["llm"] \in Datum /\ in["embedding"] \in Datum
        /\ in["index"] \in Datum /\ in["warm"] \in Datum
    BY <1>1 DEF Datum
  <1>3. \A k \in DOMAIN in : in[k] \in Datum
    BY <1>2
  <1>4. \A k \in Tuning!Setting : Tuning!Missing(k) \in Datum
    BY DEF Tuning!Missing, Datum
  <1> DEFINE s == [k \in Tuning!Setting |-> IF k \in DOMAIN in THEN in[k] ELSE Tuning!Missing(k)]
  <1>5. s \in Tuned
    BY <1>3, <1>4 DEF Tuned
  <1>6. Tuning!Sent(form, in) \in Tuned
    <2>1. [s EXCEPT !.embedding = Tuning!Unset, !.index = Tuning!Unset, !.warm = FALSE] \in Tuned
      BY <1>5 DEF Tuned, Datum
    <2> QED BY <1>5, <2>1 DEF Tuning!Sent
  <1>7. CASE Tuning!KeptKey(form, in) = <<"embedding">>
    <2> DEFINE c == <<"embedding">> \o <<"password", "maintenance">>
    <2>1. Tuning!Carried(form, in) = c
      BY <1>7 DEF Tuning!Carried
    <2>2. c \in Seq(Tuning!Setting) /\ Len(c) = 3 /\ c[2] = "password"
      OBVIOUS
    <2>3. 2 \in DOMAIN c
      BY <2>2
    <2> HIDE DEF c
    <2> QED BY <1>6, <2>1, <2>2, <2>3
  <1>8. CASE Tuning!KeptKey(form, in) = <<>>
    <2> DEFINE c == <<>> \o <<"password", "maintenance">>
    <2>1. Tuning!Carried(form, in) = c
      BY <1>8 DEF Tuning!Carried
    <2>2. c \in Seq(Tuning!Setting) /\ Len(c) = 2 /\ c[1] = "password"
      OBVIOUS
    <2>3. 1 \in DOMAIN c
      BY <2>2
    <2> HIDE DEF c
    <2> QED BY <1>6, <2>1, <2>2, <2>3
  <1> QED BY <1>7, <1>8 DEF Tuning!KeptKey

\* A form has no field for the password, and carries it over.
LEMMA TuneSubmit ==
    ASSUME TuneInv, NEW r \in Req, NEW form \in {"html", "json"}, NEW in \in Inputs,
           Tuning!Submit(r, form, in)
    PROVE  TuneInv'
  <1> DEFINE o == [at |-> "carry", s |-> Tuning!Sent(form, in), todo |-> Tuning!Carried(form, in),
                   alone |-> Tuning!Alone(r)]
  <1>1. Tuning!Alone(r) \in BOOLEAN
    BY DEF Tuning!Alone
  <1>2. o \in Carrying
    BY <1>1, TuneForm DEF Carrying
  <1>3. HasPassword(o)
    BY TuneForm DEF HasPassword
  <1> QED BY <1>2, <1>3, TuneBegun DEF Tuning!Submit

\* A sequence of settings without its first.
LEMMA TuneTail ==
    ASSUME NEW todo \in Seq(Tuning!Setting), todo # <<>>
    PROVE  /\ Tail(todo) \in Seq(Tuning!Setting)
           /\ Len(todo) = 1 => Tail(todo) = <<>>
           /\ Len(todo) # 1 => Tail(todo) # <<>>
           /\ \A i \in DOMAIN todo : \/ todo[i] = Head(todo)
                                     \/ i - 1 \in DOMAIN Tail(todo) /\ Tail(todo)[i - 1] = todo[i]
  <1>1. /\ Tail(todo) \in Seq(Tuning!Setting) /\ Len(todo) \in Nat \ {0}
        /\ Len(Tail(todo)) = Len(todo) - 1
    OBVIOUS
  <1> DEFINE rest == Tail(todo)
  <1>6. rest \in Seq(Tuning!Setting) /\ Len(rest) = Len(todo) - 1
    BY <1>1
  <1> HIDE DEF rest
  <1>2. Len(todo) = 1 => rest = <<>>
    BY <1>1, <1>6
  <1>3. Len(todo) # 1 => rest # <<>>
    BY <1>1, <1>6
  <1>4. ASSUME NEW i \in DOMAIN todo, i # 1
        PROVE  i - 1 \in DOMAIN Tail(todo) /\ Tail(todo)[i - 1] = todo[i]
    BY <1>1, <1>4
  <1>5. todo[1] = Head(todo)
    OBVIOUS
  <1> QED BY <1>1, <1>2, <1>3, <1>4, <1>5 DEF rest

\* What is carried over is what memory holds at that moment; so is the password.
LEMMA TuneCarry ==
    ASSUME TuneInv, NEW r \in Req, Tuning!Carry(r)
    PROVE  TuneInv'
  <1> DEFINE o == settingsOp[r]
  <1>1. r \in Tuning!Actor /\ o \in Carrying /\ o.at = "carry"
    BY TuneFields DEF Tuning!Actor, Tuning!Carry, Tuning!At, TuneInv, TuneTypes
  <1>2. o.s \in Tuned /\ o.todo \in Seq(Tuning!Setting) /\ o.alone \in BOOLEAN
    BY <1>1 DEF Carrying
  <1>3. UNCHANGED <<memory, stored, synced, lost, crashes>>
    BY DEF Tuning!Carry
  <1>4. ~lost => HasPassword(o) /\ memory.password # Tuning!Unset
    BY <1>1 DEF TuneInv, PasswordSafe
  <1>5. CASE o.todo = <<>>
    <2> DEFINE n == [at |-> "apply", s |-> o.s, alone |-> o.alone]
    <2>1. n \in Applying /\ n.at = "apply" /\ n.s = o.s
      BY <1>2 DEF Applying
    <2>2. n \in Tunings \ Writing
      BY <2>1 DEF Tunings, Writing
    <2>3. ~lost => HasPassword(n)
      BY <1>1, <1>4, <1>5, <2>1 DEF HasPassword
    <2>4. Tuning!Goes(r, n)
      BY <1>5 DEF Tuning!Carry
    <2> QED BY <1>1, <1>3, <2>1, <2>2, <2>3, <2>4, TuneMoves
  <1>6. CASE o.todo # <<>>
    <2> DEFINE k == Head(o.todo)
               n == [o EXCEPT !.s[k] = memory[k], !.todo = Tail(@)]
    <2>1. k \in Tuning!Setting /\ Tail(o.todo) \in Seq(Tuning!Setting)
      BY <1>2, <1>6
    <2>2. memory[k] \in Datum
      BY <2>1 DEF TuneInv, TuneTypes, Tuned
    <2>3. [o.s EXCEPT ![k] = memory[k]] \in Tuned
      BY <1>2, <2>1, <2>2 DEF Tuned
    <2>4. /\ n.at = "carry" /\ n.alone = o.alone
          /\ n.s = [o.s EXCEPT ![k] = memory[k]] /\ n.todo = Tail(o.todo)
      BY <1>1 DEF Carrying
    <2>5. n \in Carrying
      BY <1>1, <2>1, <2>3 DEF Carrying
    <2>6. n \in Tunings \ Writing
      BY <2>4, <2>5 DEF Tunings, Writing
    <2>7. ASSUME ~lost PROVE HasPassword(n)
      <3>1. CASE o.s.password # Tuning!Unset
        <4>1. n.s.password # Tuning!Unset
          BY <1>2, <1>4, <2>1, <2>4, <2>7, <3>1 DEF Tuned
        <4> QED BY <2>4, <4>1 DEF HasPassword
      <3>2. CASE o.s.password = Tuning!Unset
        <4>1. PICK i \in DOMAIN o.todo : o.todo[i] = "password"
          BY <1>1, <1>4, <2>7, <3>2 DEF HasPassword
        <4>2. CASE k = "password"
          <5>1. n.s.password # Tuning!Unset
            BY <1>2, <1>4, <2>4, <2>7, <4>2 DEF Tuned
          <5> QED BY <2>4, <5>1 DEF HasPassword
        <4>3. CASE i - 1 \in DOMAIN Tail(o.todo) /\ Tail(o.todo)[i - 1] = "password"
          <5>1. \E j \in DOMAIN n.todo : n.todo[j] = "password"
            BY <2>4, <4>3
          <5> QED BY <2>4, <5>1 DEF HasPassword
        <4>4. k = "password"
              \/ (i - 1 \in DOMAIN Tail(o.todo) /\ Tail(o.todo)[i - 1] = "password")
          BY <1>2, <1>6, <4>1, TuneTail
        <4> QED BY <4>2, <4>3, <4>4
      <3> QED BY <3>1, <3>2
    <2>8. Tuning!Goes(r, n)
      BY <1>6 DEF Tuning!Carry
    <2> HIDE DEF n
    <2> QED BY <1>1, <1>3, <2>4, <2>6, <2>7, <2>8, TuneMoves
  <1> QED BY <1>5, <1>6

\* Settings that are applied have a password; what was stored is out of step now.
LEMMA TuneApply ==
    ASSUME TuneInv, NEW r \in Req, Tuning!Apply(r)
    PROVE  TuneInv'
  <1> DEFINE o == settingsOp[r]
  <1>1. r \in Tuning!Actor /\ o \in Applying /\ o.at = "apply"
    BY TuneFields DEF Tuning!Actor, Tuning!Apply, Tuning!At, TuneInv, TuneTypes
  <1>2. o.s \in Tuned /\ o.alone \in BOOLEAN
    BY <1>1 DEF Applying
  <1>3. CASE Tuning!IsRefused(o.s)
    <2>1. /\ Tuning!Idle \in Tunings \ Writing /\ Tuning!Idle.at = "idle"
          /\ Tuning!Idle.alone = FALSE
      BY DEF Tuning!Idle, Tunings, Resting, Writing
    <2>2. HasPassword(Tuning!Idle)
      BY <2>1 DEF HasPassword
    <2>3. Tuning!Goes(r, Tuning!Idle) /\ UNCHANGED <<memory, stored, synced, lost, crashes>>
      BY <1>3 DEF Tuning!Apply
    <2> QED BY <1>1, <2>1, <2>2, <2>3, TuneMoves
  <1>4. CASE ~Tuning!IsRefused(o.s)
    <2> DEFINE n == [at |-> "save", alone |-> o.alone]
    <2>1. n \in Tunings /\ n.at = "save" /\ n.alone = o.alone
      BY <1>2 DEF Tunings, Waiting
    <2>2. /\ memory' = Tuning!Applied(o.s) /\ Tuning!Goes(r, n) /\ synced' = FALSE
          /\ UNCHANGED <<stored, lost, crashes>>
      BY <1>4 DEF Tuning!Apply
    <2>3. memory' \in Tuned /\ Fixed(memory') /\ memory'.password = o.s.password
      BY <1>2, <2>2, TuneRecords
    <2>4. /\ settingsOp' \in [Tuning!Actor -> Tunings]
          /\ settingsOp'[r] = n
          /\ \A q \in Tuning!Actor \ {r} : settingsOp'[q] = settingsOp[q]
          /\ AloneInv'
      BY <1>1, <2>1, <2>2, TuneGoes DEF TuneInv
    <2>5. TuneTypes'
      BY <2>2, <2>3, <2>4 DEF TuneInv, TuneTypes
    <2>6. PasswordSafe'
      <3> SUFFICES ASSUME ~lost PROVE PasswordSafe'
        BY <2>2 DEF PasswordSafe
      <3>1. memory'.password # Tuning!Unset
        BY <1>1, <2>3 DEF TuneInv, PasswordSafe, HasPassword
      <3>2. HasPassword(n)
        BY <2>1 DEF HasPassword
      <3> QED BY <2>2, <2>4, <3>1, <3>2 DEF TuneInv, PasswordSafe
    <2>7. ASSUME NEW q \in Tuning!Actor PROVE Written(settingsOp[q])'
      <3>1. CASE q = r
        BY <2>1, <2>4, <3>1 DEF Written
      <3>2. CASE q # r
        <4>1. settingsOp'[q].alone => settingsOp'[r].at = "idle"
          BY <1>1, <2>4, <3>2 DEF AloneInv
        <4> QED BY <2>1, <2>4, <4>1 DEF Written
      <3> QED BY <3>1, <3>2
    <2>8. SyncInv'
      BY <2>2, <2>7 DEF SyncInv
    <2> QED BY <2>3, <2>4, <2>5, <2>6, <2>8 DEF TuneInv
  <1> QED BY <1>3, <1>4

\* A save that fails leaves the rows behind, and is forgotten.
LEMMA TuneSaveFail ==
    ASSUME TuneInv, NEW r \in Tuning!Actor, Tuning!SaveFail(r)
    PROVE  TuneInv'
  <1>1. /\ Tuning!Idle \in Tunings \ Writing /\ Tuning!Idle.at = "idle"
        /\ Tuning!Idle.alone = FALSE
    BY DEF Tuning!Idle, Tunings, Resting, Writing
  <1>2. HasPassword(Tuning!Idle)
    BY <1>1 DEF HasPassword
  <1>3. /\ settingsOp[r].at # "idle" /\ Tuning!Goes(r, Tuning!Idle)
        /\ UNCHANGED <<memory, stored, synced, lost, crashes>>
    BY DEF Tuning!SaveFail
  <1> QED BY <1>1, <1>2, <1>3, TuneMoves

\* A save takes what is in memory by then, all of it still to be written.
LEMMA TuneSaveBegin ==
    ASSUME TuneInv, NEW r \in Tuning!Actor, Tuning!SaveBegin(r)
    PROVE  TuneInv'
  <1>1. PICK order \in Orders :
          Tuning!Goes(r, [at |-> "delete", s |-> memory, todo |-> order,
                          alone |-> settingsOp[r].alone])
    BY DEF Tuning!SaveBegin
  <1> DEFINE n == [at |-> "delete", s |-> memory, todo |-> order, alone |-> settingsOp[r].alone]
  <1>2. settingsOp[r] \in Waiting /\ settingsOp[r].at = "save"
    BY TuneFields DEF Tuning!SaveBegin, Tuning!At, TuneInv, TuneTypes
  <1>3. settingsOp[r].alone \in BOOLEAN /\ memory \in Tuned
    BY <1>2 DEF Waiting, TuneInv, TuneTypes
  <1>4. /\ order \in Seq(Tuning!Setting)
        /\ \A k \in Tuning!Setting : \E i \in DOMAIN order : order[i] = k
    BY SettingsAssumption
  <1>5. order # <<>>
    BY <1>4
  <1>6. n \in Writing
    BY <1>3, <1>4, <1>5 DEF Writing
  <1>7. n \in Tunings /\ n.at = "delete" /\ n.alone = settingsOp[r].alone /\ n.s = memory /\ n.todo = order
    BY <1>6 DEF Tunings
  <1>8. UNCHANGED <<memory, stored, synced, lost, crashes>>
    BY DEF Tuning!SaveBegin
  <1> HIDE DEF n
  <1>9. /\ settingsOp' \in [Tuning!Actor -> Tunings]
        /\ settingsOp'[r] = n
        /\ \A q \in Tuning!Actor \ {r} : settingsOp'[q] = settingsOp[q]
        /\ AloneInv'
    BY <1>1, <1>2, <1>7, TuneGoes DEF TuneInv, n
  <1>10. TuneTypes'
    BY <1>8, <1>9 DEF TuneInv, TuneTypes
  <1>11. PasswordSafe'
    <2> SUFFICES ASSUME ~lost PROVE PasswordSafe'
      BY <1>8 DEF PasswordSafe
    <2>1. HasPassword(n)
      BY <1>7 DEF HasPassword, TuneInv, PasswordSafe
    <2> QED BY <1>8, <1>9, <2>1 DEF TuneInv, PasswordSafe
  <1>12. ASSUME NEW q \in Tuning!Actor PROVE Written(settingsOp[q])'
    <2>1. CASE q = r
      BY <1>4, <1>7, <1>8, <1>9, <2>1 DEF Written
    <2>2. CASE q # r
      BY <1>8, <1>9, <2>2 DEF TuneInv, SyncInv, Written
    <2> QED BY <2>1, <2>2
  <1>13. ~synced
    BY <1>2 DEF TuneInv, SyncInv
  <1>14. SyncInv'
    BY <1>8, <1>12, <1>13 DEF SyncInv
  <1> QED BY <1>8, <1>9, <1>10, <1>11, <1>14 DEF TuneInv

\* The rows of a setting that are deleted are still to be inserted.
LEMMA TuneDelete ==
    ASSUME TuneInv, NEW r \in Tuning!Actor, Tuning!Delete(r)
    PROVE  TuneInv'
  <1> DEFINE o == settingsOp[r]
             n == [o EXCEPT !.at = "insert"]
             k == Head(o.todo)
  <1>1. o \in Writing /\ o.at = "delete"
    BY TuneFields DEF Tuning!Delete, Tuning!At, TuneInv, TuneTypes
  <1>2. k \in Tuning!Setting /\ o.s \in Tuned /\ o.todo \in Seq(Tuning!Setting) /\ o.todo # <<>>
    BY <1>1 DEF Writing
  <1>3. n \in Writing /\ n.at = "insert" /\ n.alone = o.alone /\ n.s = o.s /\ n.todo = o.todo
    BY <1>1 DEF Writing
  <1>4. n \in Tunings
    BY <1>3 DEF Tunings
  <1>5. /\ Tuning!Goes(r, n) /\ stored' = [stored EXCEPT ![k] = <<>>]
        /\ UNCHANGED <<memory, synced, lost, crashes>>
    BY DEF Tuning!Delete
  <1> HIDE DEF n
  <1>6. /\ settingsOp' \in [Tuning!Actor -> Tunings]
        /\ settingsOp'[r] = n
        /\ \A q \in Tuning!Actor \ {r} : settingsOp'[q] = settingsOp[q]
        /\ AloneInv'
    BY <1>1, <1>3, <1>4, <1>5, TuneGoes DEF TuneInv
  <1>7. /\ stored' \in [Tuning!Setting -> Seq(Datum)]
        /\ stored'[k] = <<>>
        /\ \A l \in Tuning!Setting \ {k} : stored'[l] = stored[l]
    <2>1. <<>> \in Seq(Datum)
      OBVIOUS
    <2> QED BY <1>2, <1>5, <2>1 DEF TuneInv, TuneTypes
  <1>8. TuneTypes'
    BY <1>5, <1>6, <1>7 DEF TuneInv, TuneTypes
  <1>9. PasswordSafe'
    <2> SUFFICES ASSUME ~lost PROVE PasswordSafe'
      BY <1>5 DEF PasswordSafe
    <2>1. HasPassword(n)
      BY <1>1, <1>3 DEF HasPassword, TuneInv, PasswordSafe
    <2>2. \A i \in DOMAIN stored'.password : stored'.password[i] # Tuning!Unset
      <3>1. CASE k = "password"
        <4>1. stored'.password = <<>>
          BY <1>7, <3>1
        <4> QED BY <4>1
      <3>2. CASE k # "password"
        <4>1. stored'.password = stored.password
          BY <1>7, <3>2 DEF Tuning!Setting
        <4>2. ~lost
          BY <1>5
        <4> QED BY <4>1, <4>2 DEF TuneInv, PasswordSafe
      <3> QED BY <3>1, <3>2
    <2> QED BY <1>5, <1>6, <2>1, <2>2 DEF TuneInv, PasswordSafe
  <1>10. ASSUME NEW q \in Tuning!Actor PROVE Written(settingsOp[q])'
    <2>1. CASE q = r
      <3> SUFFICES ASSUME o.alone PROVE Written(settingsOp[r])'
        BY <1>3, <1>6, <2>1 DEF Written
      <3>1. /\ o.s = memory
            /\ \A l \in Tuning!Setting :
                  (\E i \in DOMAIN o.todo : o.todo[i] = l) \/ stored[l] = <<memory[l]>>
        BY <1>1 DEF TuneInv, SyncInv, Written
      <3>2. ASSUME NEW l \in Tuning!Setting
            PROVE  (\E i \in DOMAIN n.todo : n.todo[i] = l) \/ stored'[l] = <<memory[l]>>
        <4>1. CASE l = k
          <5>1. 1 \in DOMAIN o.todo /\ o.todo[1] = l
            BY <1>2, <4>1
          <5> QED BY <1>3, <5>1
        <4>2. CASE l # k
          BY <1>3, <1>7, <3>1, <4>2
        <4> QED BY <4>1, <4>2
      <3>3. n.s = memory' /\ stored'[Head(n.todo)] = <<>>
        BY <1>3, <1>5, <1>7, <3>1
      <3>4. \A l \in Tuning!Setting :
               (\E i \in DOMAIN n.todo : n.todo[i] = l) \/ stored'[l] = <<memory'[l]>>
        BY <1>5, <3>2
      <3> QED BY <1>6, <3>3, <3>4 DEF Written
    <2>2. CASE q # r
      <3>1. settingsOp'[q].alone => settingsOp'[r].at = "idle"
        BY <1>6, <2>2 DEF AloneInv
      <3> QED BY <1>3, <1>6, <3>1 DEF Written
    <2> QED BY <2>1, <2>2
  <1>11. ~synced
    BY <1>1 DEF TuneInv, SyncInv
  <1>12. SyncInv'
    BY <1>5, <1>10, <1>11 DEF SyncInv
  <1> QED BY <1>5, <1>6, <1>8, <1>9, <1>12 DEF TuneInv

\* A row that is inserted is what memory holds, if the actor runs alone; after the
\* last one all rows are.
LEMMA TuneInsert ==
    ASSUME TuneInv, NEW r \in Tuning!Actor, Tuning!Insert(r)
    PROVE  TuneInv'
  <1> DEFINE o == settingsOp[r]
             k == Head(o.todo)
  <1>1. o \in Writing /\ o.at = "insert"
    BY TuneFields DEF Tuning!Insert, Tuning!At, TuneInv, TuneTypes
  <1>2. /\ k \in Tuning!Setting /\ o.s \in Tuned /\ o.alone \in BOOLEAN
        /\ o.todo \in Seq(Tuning!Setting) /\ o.todo # <<>>
    BY <1>1 DEF Writing
  <1>3. /\ stored' = [stored EXCEPT ![k] = Append(@, o.s[k])]
        /\ UNCHANGED <<memory, lost, crashes>>
    BY DEF Tuning!Insert
  <1>4. o.s[k] \in Datum /\ stored[k] \in Seq(Datum)
    BY <1>2 DEF Tuned, TuneInv, TuneTypes
  <1>5. /\ stored' \in [Tuning!Setting -> Seq(Datum)]
        /\ stored'[k] = Append(stored[k], o.s[k])
        /\ \A l \in Tuning!Setting \ {k} : stored'[l] = stored[l]
    BY <1>2, <1>3, <1>4 DEF TuneInv, TuneTypes
  <1>6. ASSUME ~lost, NEW i \in DOMAIN stored'.password
        PROVE  stored'.password[i] # Tuning!Unset
    <2>1. CASE k = "password"
      <3>1. o.s[k] # Tuning!Unset
        BY <1>1, <1>6, <2>1 DEF TuneInv, PasswordSafe, HasPassword
      <3>2. stored'.password = Append(stored.password, o.s[k])
        BY <1>5, <2>1
      <3>3. stored.password \in Seq(Datum)
        BY <1>4, <2>1
      <3>4. CASE i = Len(stored.password) + 1
        BY <1>4, <3>1, <3>2, <3>3, <3>4
      <3>5. CASE i \in DOMAIN stored.password
        BY <1>4, <1>6, <3>2, <3>3, <3>5 DEF TuneInv, PasswordSafe
      <3>6. i \in DOMAIN stored.password \/ i = Len(stored.password) + 1
        BY <1>4, <1>6, <3>2, <3>3
      <3> QED BY <3>4, <3>5, <3>6
    <2>2. CASE k # "password"
      BY <1>5, <1>6, <2>2 DEF TuneInv, PasswordSafe
    <2> QED BY <2>1, <2>2
  <1>7. ~synced
    BY <1>1 DEF TuneInv, SyncInv
  \* What an actor that runs alone has stored by this.
  <1>8. ASSUME o.alone
        PROVE  /\ o.s = memory /\ stored'[k] = <<memory[k]>>
               /\ \A l \in Tuning!Setting :
                     (\E i \in DOMAIN Tail(o.todo) : Tail(o.todo)[i] = l) \/ stored'[l] = <<memory[l]>>
    <2>1. /\ o.s = memory /\ stored[k] = <<>>
          /\ \A l \in Tuning!Setting :
                (\E i \in DOMAIN o.todo : o.todo[i] = l) \/ stored[l] = <<memory[l]>>
      BY <1>1, <1>8 DEF TuneInv, SyncInv, Written
    <2>2. stored'[k] = <<memory[k]>>
      BY <1>4, <1>5, <2>1
    <2>3. ASSUME NEW l \in Tuning!Setting
          PROVE  (\E i \in DOMAIN Tail(o.todo) : Tail(o.todo)[i] = l) \/ stored'[l] = <<memory[l]>>
      <3>1. CASE l = k
        BY <2>2, <3>1
      <3>2. CASE l # k /\ \E i \in DOMAIN o.todo : o.todo[i] = l
        <4>1. PICK i \in DOMAIN o.todo : o.todo[i] = l
          BY <3>2
        <4> QED BY <1>2, <3>2, <4>1, TuneTail
      <3>3. CASE l # k /\ stored[l] = <<memory[l]>>
        BY <1>5, <3>3
      <3> QED BY <2>1, <3>1, <3>2, <3>3
    <2> QED BY <2>1, <2>2, <2>3
  <1>9. CASE Len(o.todo) = 1
    <2>1. Tuning!Goes(r, Tuning!Idle) /\ synced' = o.alone
      BY <1>9 DEF Tuning!Insert
    <2>2. Tuning!Idle \in Tunings /\ Tuning!Idle.at = "idle" /\ Tuning!Idle.alone = FALSE
      BY DEF Tuning!Idle, Tunings, Resting
    <2>3. /\ settingsOp' \in [Tuning!Actor -> Tunings]
          /\ settingsOp'[r] = Tuning!Idle
          /\ \A q \in Tuning!Actor \ {r} : settingsOp'[q] = settingsOp[q]
          /\ AloneInv'
      BY <1>1, <2>1, <2>2, TuneGoes DEF TuneInv
    <2>4. TuneTypes'
      BY <1>2, <1>3, <1>5, <2>1, <2>3 DEF TuneInv, TuneTypes
    <2>5. HasPassword(Tuning!Idle)
      BY <2>2 DEF HasPassword
    <2>6. PasswordSafe'
      BY <1>3, <1>6, <2>3, <2>5 DEF TuneInv, PasswordSafe
    <2>7. ASSUME NEW q \in Tuning!Actor PROVE Written(settingsOp[q])'
      <3>1. CASE q = r
        BY <2>2, <2>3, <3>1 DEF Written
      <3>2. CASE q # r
        <4>1. settingsOp[q].alone => settingsOp[r].at = "idle"
          BY <3>2 DEF TuneInv, AloneInv
        <4> QED BY <1>1, <2>3, <3>2, <4>1 DEF Written
      <3> QED BY <3>1, <3>2
    <2>8. ASSUME o.alone
          PROVE  /\ \A q \in Tuning!Actor : settingsOp'[q].at \notin {"save", "delete", "insert"}
                 /\ \A l \in Tuning!Setting : stored'[l] = <<memory[l]>>
      <3>1. \A q \in Tuning!Actor \ {r} : settingsOp[q].at = "idle"
        BY <2>8 DEF TuneInv, AloneInv
      <3>2. DOMAIN Tail(o.todo) = {}
        BY <1>2, <1>9, TuneTail
      <3> QED BY <1>8, <2>2, <2>3, <2>8, <3>1, <3>2
    <2>9. SyncInv'
      BY <1>3, <2>1, <2>7, <2>8 DEF SyncInv
    <2> QED BY <1>3, <2>3, <2>4, <2>6, <2>9 DEF TuneInv
  <1>10. CASE Len(o.todo) # 1
    <2> DEFINE n == [o EXCEPT !.at = "delete", !.todo = Tail(@)]
    <2>1. Tail(o.todo) \in Seq(Tuning!Setting) \ {<<>>}
      BY <1>2, <1>10, TuneTail
    <2>2. /\ n \in Writing /\ n.at = "delete" /\ n.alone = o.alone
          /\ n.s = o.s /\ n.todo = Tail(o.todo)
      BY <1>1, <2>1 DEF Writing
    <2>3. n \in Tunings
      BY <2>2 DEF Tunings
    <2>4. Tuning!Goes(r, n) /\ UNCHANGED synced
      BY <1>10 DEF Tuning!Insert
    <2> HIDE DEF n
    <2>5. /\ settingsOp' \in [Tuning!Actor -> Tunings]
          /\ settingsOp'[r] = n
          /\ \A q \in Tuning!Actor \ {r} : settingsOp'[q] = settingsOp[q]
          /\ AloneInv'
      BY <1>1, <2>2, <2>3, <2>4, TuneGoes DEF TuneInv
    <2>6. TuneTypes'
      BY <1>3, <1>5, <2>4, <2>5 DEF TuneInv, TuneTypes
    <2>7. PasswordSafe'
      <3> SUFFICES ASSUME ~lost PROVE PasswordSafe'
        BY <1>3 DEF PasswordSafe
      <3>1. HasPassword(n)
        BY <1>1, <2>2 DEF HasPassword, TuneInv, PasswordSafe
      <3> QED BY <1>3, <1>6, <2>5, <3>1 DEF TuneInv, PasswordSafe
    <2>8. ASSUME NEW q \in Tuning!Actor PROVE Written(settingsOp[q])'
      <3>1. CASE q = r
        <4>1. settingsOp'[q] = n /\ n.at = "delete"
          BY <2>2, <2>5, <3>1
        <4>2. n.alone =>
                /\ n.s = memory'
                /\ \A l \in Tuning!Setting :
                      (\E i \in DOMAIN n.todo : n.todo[i] = l) \/ stored'[l] = <<memory'[l]>>
          BY <1>3, <1>8, <2>2
        <4> QED BY <4>1, <4>2 DEF Written
      <3>2. CASE q # r
        <4>1. settingsOp[q].alone => settingsOp[r].at = "idle"
          BY <3>2 DEF TuneInv, AloneInv
        <4> QED BY <1>1, <2>5, <3>2, <4>1 DEF Written
      <3> QED BY <3>1, <3>2
    <2>9. SyncInv'
      BY <1>7, <2>4, <2>8 DEF SyncInv
    <2> QED BY <1>3, <2>5, <2>6, <2>7, <2>9 DEF TuneInv
  <1> QED BY <1>9, <1>10

\* What main works with is what was stored: without a lost password it has one, and what
\* was in step with memory is memory again.
LEMMA TuneStored ==
    ASSUME TuneInv
    PROVE  /\ Tuning!FromStored \in Tuned
           /\ synced => Tuning!FromStored = memory
           /\ ~lost /\ stored.password # <<>> => Tuning!FromStored.password # Tuning!Unset
  <1>1. \A k \in Tuning!Setting : stored[k] \in Seq(Datum)
    BY DEF TuneInv, TuneTypes
  <1>2. \A k \in Tuning!Setting : Tuning!Missing(k) \in Datum
    BY DEF Tuning!Missing, Datum
  <1>3. \A k \in Tuning!Setting : Tuning!FromRow(k) \in Datum
    <2> SUFFICES ASSUME NEW k \in Tuning!Setting PROVE Tuning!FromRow(k) \in Datum
      OBVIOUS
    <2> DEFINE own == stored[k]
    <2>1. own \in Seq(Datum)
      BY <1>1
    <2>2. own # <<>> => own[Len(own)] \in Datum
      BY <2>1
    <2> QED BY <1>2, <2>2 DEF Tuning!FromRow
  <1>4. [k \in Tuning!Setting |-> Tuning!FromRow(k)] \in Tuned
    BY <1>3 DEF Tuned
  <1>5. Tuning!FromStored \in Tuned
    BY <1>4, TuneRecords DEF Tuning!FromStored
  <1>6. ASSUME synced PROVE Tuning!FromStored = memory
    <2>1. \A k \in Tuning!Setting : stored[k] = <<memory[k]>>
      BY <1>6 DEF TuneInv, SyncInv
    <2>2. \A k \in Tuning!Setting : stored[k] # <<>> /\ Tuning!FromRow(k) = memory[k]
      <3> SUFFICES ASSUME NEW k \in Tuning!Setting
                   PROVE  stored[k] # <<>> /\ Tuning!FromRow(k) = memory[k]
        OBVIOUS
      <3> DEFINE own == stored[k]
      <3>1. own = <<memory[k]>>
        BY <2>1
      <3>2. own # <<>> /\ own[Len(own)] = memory[k]
        BY <3>1
      <3> QED BY <3>2 DEF Tuning!FromRow
    <2>3. Tuning!FromStored = [k \in Tuning!Setting |-> memory[k]]
      BY <2>2 DEF Tuning!FromStored
    <2> QED BY <2>3 DEF TuneInv, TuneTypes, Tuned
  <1>7. ASSUME ~lost, stored.password # <<>>
        PROVE  Tuning!FromStored.password # Tuning!Unset
    <2> DEFINE own == stored["password"]
    <2>1. own \in Seq(Datum) /\ own # <<>>
      BY <1>1, <1>7
    <2>2. Len(own) \in DOMAIN own
      BY <2>1
    <2>3. Tuning!FromRow("password") # Tuning!Unset
      BY <1>7, <2>1, <2>2 DEF Tuning!FromRow, TuneInv, PasswordSafe
    <2>4. Tuning!FromStored = [k \in Tuning!Setting |-> Tuning!FromRow(k)]
      BY <2>1 DEF Tuning!FromStored
    <2> QED BY <2>3, <2>4
  <1> QED BY <1>5, <1>6, <1>7

\* A start brings back what was stored, and saves it before any request.
LEMMA TuneRestart ==
    ASSUME TuneInv, Tuning!Restart
    PROVE  TuneInv' /\ (synced => memory' = memory)
  <1>1. /\ memory' = Tuning!Applied(Tuning!FromStored) /\ synced' = FALSE
        /\ lost' = (lost \/ stored.password = <<>>) /\ crashes' = crashes + 1
        /\ UNCHANGED stored
        /\ settingsOp' = [r \in Tuning!Actor |->
              IF r = Startup THEN [at |-> "save", alone |-> TRUE] ELSE Tuning!Idle]
    BY DEF Tuning!Restart
  <1> DEFINE n == [at |-> "save", alone |-> TRUE]
  <1>2. /\ n \in Tunings /\ n.at = "save" /\ HasPassword(n)
        /\ Tuning!Idle \in Tunings /\ Tuning!Idle.at = "idle" /\ Tuning!Idle.alone = FALSE
        /\ HasPassword(Tuning!Idle)
    BY DEF Tuning!Idle, Tunings, Resting, Waiting, HasPassword
  <1>3. /\ settingsOp' \in [Tuning!Actor -> Tunings] /\ settingsOp'[Startup] = n
        /\ \A r \in Tuning!Actor \ {Startup} : settingsOp'[r] = Tuning!Idle
    BY <1>1, <1>2 DEF Tuning!Actor
  <1> HIDE DEF n
  <1>4. memory' \in Tuned /\ Fixed(memory') /\ memory'.password = Tuning!FromStored.password
    BY <1>1, TuneStored, TuneRecords
  <1>5. TuneTypes'
    <2>1. lost' \in BOOLEAN /\ synced' \in BOOLEAN
      BY <1>1
    <2>2. crashes' \in Nat /\ stored' \in [Tuning!Setting -> Seq(Datum)]
      BY <1>1 DEF TuneInv, TuneTypes
    <2> QED BY <1>3, <1>4, <2>1, <2>2 DEF TuneTypes
  <1>6. PasswordSafe'
    <2>1. \A r \in Tuning!Actor : HasPassword(settingsOp'[r])
      BY <1>2, <1>3
    <2> QED BY <1>1, <1>4, <2>1, TuneStored DEF TuneInv, PasswordSafe
  <1>7. AloneInv'
    BY <1>2, <1>3 DEF AloneInv
  <1>8. SyncInv'
    BY <1>1, <1>2, <1>3 DEF SyncInv, Written
  <1>9. synced => memory' = memory
    BY <1>1, TuneStored, TuneRecords DEF TuneInv, TuneTypes
  <1> QED BY <1>4, <1>5, <1>6, <1>7, <1>8, <1>9 DEF TuneInv

\* Every step keeps the invariant, and a restart the settings that were stored.
LEMMA TuneNext ==
    ASSUME TuneInv, [Tuning!Next]_(Tuning!vars)
    PROVE  TuneInv' /\ (crashes' > crashes /\ synced => memory' = memory)
  <1>1. memory \in Tuned /\ crashes \in Nat
    BY DEF TuneInv, TuneTypes
  <1>2. ASSUME NEW r \in Req,
               \/ Tuning!ToggleMaintenance(r)
               \/ \E on \in BOOLEAN : Tuning!SetMaintenance(r, on)
               \/ \E hash \in Value : Tuning!ChangePassword(r, hash)
               \/ \E llm \in Value : Tuning!AutoConfigure(r, llm)
        PROVE  TuneInv' /\ crashes' = crashes
    <2>1. CASE Tuning!ToggleMaintenance(r)
      <3>1. [memory EXCEPT !.maintenance = ~@] \in Tuned
        <4>1. (~memory["maintenance"]) \in Datum
          BY DEF Datum
        <4> QED BY <1>1, <4>1 DEF Tuned
      <3>2. [memory EXCEPT !.maintenance = ~@].password = memory.password
        BY <1>1 DEF Tuned
      <3> QED BY <2>1, <3>1, <3>2, TuneCopy DEF Tuning!ToggleMaintenance, Tuning!Copy
    <2>2. ASSUME NEW on \in BOOLEAN, Tuning!SetMaintenance(r, on)
          PROVE  TuneInv' /\ crashes' = crashes
      <3>1. [memory EXCEPT !.maintenance = on] \in Tuned
        BY <1>1 DEF Tuned, Datum
      <3>2. [memory EXCEPT !.maintenance = on].password = memory.password
        BY <1>1 DEF Tuned
      <3> QED BY <2>2, <3>1, <3>2, TuneCopy DEF Tuning!SetMaintenance, Tuning!Copy
    <2>3. ASSUME NEW hash \in Value, Tuning!ChangePassword(r, hash)
          PROVE  TuneInv' /\ crashes' = crashes
      <3>1. [memory EXCEPT !.password = hash] \in Tuned
        BY <1>1 DEF Tuned, Datum
      <3>2. [memory EXCEPT !.password = hash].password # Tuning!Unset
        BY <1>1, SettingsAssumption DEF Tuned
      <3> QED BY <2>3, <3>1, <3>2, TuneCopy DEF Tuning!ChangePassword, Tuning!Copy
    <2>4. ASSUME NEW llm \in Value, Tuning!AutoConfigure(r, llm)
          PROVE  TuneInv' /\ crashes' = crashes
      <3>1. [memory EXCEPT !.llm = llm] \in Tuned
        BY <1>1 DEF Tuned, Datum
      <3>2. [memory EXCEPT !.llm = llm].password = memory.password
        BY <1>1 DEF Tuned
      <3> QED BY <2>4, <3>1, <3>2, TuneCopy DEF Tuning!AutoConfigure, Tuning!Copy
    <2> QED BY <1>2, <2>1, <2>2, <2>3, <2>4
  <1>3. ASSUME NEW r \in Req, NEW form \in {"html", "json"}, NEW in \in Inputs,
               Tuning!Submit(r, form, in)
        PROVE  TuneInv' /\ crashes' = crashes
    BY <1>3, TuneSubmit DEF Tuning!Submit
  <1>4. ASSUME NEW r \in Req, Tuning!Carry(r) \/ Tuning!Apply(r)
        PROVE  TuneInv' /\ crashes' = crashes
    BY <1>4, TuneCarry, TuneApply DEF Tuning!Carry, Tuning!Apply
  <1>5. ASSUME NEW r \in Tuning!Actor,
               \/ Tuning!SaveBegin(r) \/ Tuning!Delete(r)
               \/ Tuning!Insert(r) \/ Tuning!SaveFail(r)
        PROVE  TuneInv' /\ crashes' = crashes
    <2>1. TuneInv'
      BY <1>5, TuneSaveBegin, TuneDelete, TuneInsert, TuneSaveFail
    <2>2. crashes' = crashes
      BY <1>5 DEF Tuning!SaveBegin, Tuning!Delete, Tuning!Insert, Tuning!SaveFail
    <2> QED BY <2>1, <2>2
  <1>6. CASE Tuning!Restart
    BY <1>6, TuneRestart
  <1>7. CASE UNCHANGED Tuning!vars
    BY <1>7 DEF Tuning!vars, TuneInv, TuneTypes, PasswordSafe, AloneInv, SyncInv, Written
  <1>8. ASSUME Tuning!Next, ~Tuning!Restart PROVE TuneInv' /\ crashes' = crashes
    BY <1>2, <1>3, <1>4, <1>5, <1>8 DEF Tuning!Next
  <1> QED BY <1>1, <1>6, <1>7, <1>8 DEF Tuning!vars

\* The settings invariant is inductive.
LEMMA TuneAlways == Tuning!Spec => []TuneInv
  <1>1. TuneInv /\ [Tuning!Next]_(Tuning!vars) => TuneInv'
    BY TuneNext
  <1> QED BY <1>1, TuneInit, PTL DEF Tuning!Spec

\* The password hash is never wiped by a form, a toggle or a restart that interleave,
\* unless a restart found no row of it (adminSettingsHandler, apiAdminSettingsHandler,
\* saveRuntimeSettings): for any number of requests and crashes.
THEOREM PasswordStays == Tuning!Spec => []PasswordKept
  <1>1. TuneInv => PasswordKept
    BY DEF TuneInv, PasswordSafe, PasswordKept, Tuning!PasswordKept
  <1> QED BY <1>1, TuneAlways, PTL

\* A change that a request made and stored alone is stored completely: every setting has
\* the one row that memory holds (saveRuntimeSettings), in whatever order the map is
\* ranged over.
THEOREM SavedAlone == Tuning!Spec => []SavedWhenAlone
  <1>1. TuneInv => SavedWhenAlone
    BY DEF TuneInv, SyncInv, SavedWhenAlone, Tuning!SavedWhenAlone
  <1> QED BY <1>1, TuneAlways, PTL

\* A restart brings back exactly the settings that were stored (loadRuntimeSettings,
\* runtimeSettingsFromStoredValues, applyRuntimeSettings).
THEOREM RestartsKeep == Tuning!Spec => RestartKeeps
  <1>1. TuneInv /\ [Tuning!Next]_(Tuning!vars)
        => [crashes' > crashes /\ synced => memory' = memory]_(Tuning!vars)
    BY TuneNext
  <1> QED BY <1>1, TuneAlways, PTL DEF Tuning!Spec, RestartKeeps, Tuning!RestartKeeps
===============================================================================
