--------------------------- MODULE LoginLockoutProofs ---------------------------
(***************************************************************************)
(* Proof, for any number of logins at once, any names as typed and any limit, that  *)
(* parallel guesses pass the lockout's gate only so often.                 *)
(***************************************************************************)
EXTENDS LoginLockout, FiniteSetTheorems, TLAPS

Doing == {Idle} \cup [at : {"compare", "record", "clear"}, name : Spelling]

TypeInv ==
    /\ now \in Nat \ {0}
    /\ attempts \in [Spelling -> [failures : Nat, until : Nat]]
    /\ wrong \in [Spelling -> Nat]
    /\ op \in [Req -> Doing]

\* The logins of a name that compare passwords, and that have a failure to record.
Comparing(u) == {r \in Req : op[r].at = "compare" /\ op[r].name = u}

Recording(u) == {r \in Req : op[r].at = "record" /\ op[r].name = u}

\* While a name is open, its wrong guesses are counted or about to be.
Counted(u) ==
    attempts[u].until = 0 =>
        /\ attempts[u].failures < MaxFailures
        /\ wrong[u] <= attempts[u].failures + Cardinality(Recording(u))

\* The guesses that passed the gate already are within the limit, too.
Limited(u) == wrong[u] + Cardinality(Comparing(u)) < MaxFailures + Cardinality(Req)

LockoutInv == TypeInv /\ \A u \in Spelling : Counted(u) /\ Limited(u)

Limits == IsFiniteSet(Req) /\ MaxFailures \in Nat \ {0} /\ LockTime \in Nat

----------------------------------------------------------------------------
(* Counting *)

\* Two groups of logins that share none are together no more than there are.
LEMMA ApartFacts ==
    ASSUME Limits, NEW A, NEW B, A \subseteq Req, B \subseteq Req, A \cap B = {}
    PROVE  /\ IsFiniteSet(A) /\ IsFiniteSet(B)
           /\ Cardinality(A) \in Nat /\ Cardinality(B) \in Nat /\ Cardinality(Req) \in Nat
           /\ Cardinality(A) + Cardinality(B) <= Cardinality(Req)
<1>1. IsFiniteSet(A) /\ IsFiniteSet(B) /\ IsFiniteSet(Req)
  BY FS_Subset DEF Limits
<1>2. Cardinality(A) \in Nat /\ Cardinality(B) \in Nat /\ Cardinality(Req) \in Nat
  BY <1>1, FS_CardinalityType
<1>3. Cardinality(A \cup B) = Cardinality(A) + Cardinality(B) - Cardinality(A \cap B)
  BY <1>1, FS_Union
<1>4. Cardinality(A \cap B) = 0
  BY FS_EmptySet
<1>5. Cardinality(A \cup B) <= Cardinality(Req)
  <2>1. A \cup B \subseteq Req
    OBVIOUS
  <2> QED BY <1>1, <2>1, FS_Subset
<1>6. Cardinality(A) + Cardinality(B) <= Cardinality(Req)
  <2> HIDE DEF Limits
  <2> QED BY <1>2, <1>3, <1>4, <1>5
<1> QED BY <1>1, <1>2, <1>6

\* Logins of a name are finitely many, and none compares and records at once.
LEMMA CountFacts ==
    ASSUME Limits, NEW u
    PROVE  /\ IsFiniteSet(Comparing(u)) /\ IsFiniteSet(Recording(u))
           /\ Cardinality(Comparing(u)) \in Nat /\ Cardinality(Recording(u)) \in Nat
           /\ Cardinality(Req) \in Nat
           /\ Cardinality(Comparing(u)) + Cardinality(Recording(u)) <= Cardinality(Req)
<1>1. /\ Comparing(u) \subseteq Req /\ Recording(u) \subseteq Req
      /\ Comparing(u) \cap Recording(u) = {}
  BY DEF Comparing, Recording
<1> QED BY <1>1, ApartFacts

\* One more in a finite set.
LEMMA OneMore ==
    ASSUME NEW S, IsFiniteSet(S), NEW x, x \notin S
    PROVE  Cardinality(S \cup {x}) = Cardinality(S) + 1 /\ Cardinality(S) \in Nat
BY FS_AddElement, FS_CardinalityType

\* One less.
LEMMA OneLess ==
    ASSUME NEW S, IsFiniteSet(S), NEW x \in S
    PROVE  Cardinality(S \ {x}) = Cardinality(S) - 1 /\ Cardinality(S) \in Nat
BY FS_RemoveElement, FS_CardinalityType

----------------------------------------------------------------------------
(* The steps *)

\* A login that goes on leaves the others where they are.
LEMMA GoesFacts ==
    ASSUME op \in [Req -> Doing], NEW r \in Req, NEW o \in Doing, Goes(r, o)
    PROVE  /\ op' \in [Req -> Doing]
           /\ op'[r] = o
           /\ \A q \in Req : q # r => op'[q] = op[q]
BY DEF Goes

\* Where a login may be, and what it carries there.
LEMMA PlaceFacts ==
    /\ Idle \in Doing /\ Idle.at = "idle"
    /\ \A at \in {"compare", "record", "clear"}, u \in Spelling :
          /\ [at |-> at, name |-> u] \in Doing
          /\ [at |-> at, name |-> u].at = at /\ [at |-> at, name |-> u].name = u
    /\ \A o \in Doing : o.at \in {"compare", "record", "clear"} =>
          /\ o.name \in Spelling
          /\ \A at \in {"compare", "record", "clear"} : [o EXCEPT !.at = at] = [at |-> at, name |-> o.name]
<1>1. Idle.at = "idle" /\ Idle \in Doing
  BY DEF Idle, Doing
<1>2. \A at \in {"compare", "record", "clear"}, u \in Spelling :
          /\ [at |-> at, name |-> u] \in Doing
          /\ [at |-> at, name |-> u].at = at /\ [at |-> at, name |-> u].name = u
  BY DEF Doing
<1>3. ASSUME NEW o \in Doing, o.at \in {"compare", "record", "clear"}
      PROVE  /\ o.name \in Spelling
             /\ \A at \in {"compare", "record", "clear"} :
                   [o EXCEPT !.at = at] = [at |-> at, name |-> o.name]
  <2>1. o \in [at : {"compare", "record", "clear"}, name : Spelling]
    BY <1>1, <1>3 DEF Doing
  <2> QED BY <2>1
<1> QED BY <1>1, <1>2, <1>3

\* A name is open, or its lockout is over, when a login begins.
LEMMA SubmitStep ==
    ASSUME Limits, LockoutInv, NEW r \in Req, NEW u \in Spelling, Submit(r, u)
    PROVE  LockoutInv'
<1> DEFINE o == [at |-> "compare", name |-> u]
<1>1. /\ op \in [Req -> Doing] /\ op[r].at = "idle" /\ ~LockedOut(u) /\ Goes(r, o) /\ now' = now
      /\ attempts \in [Spelling -> [failures : Nat, until : Nat]] /\ wrong \in [Spelling -> Nat]
  BY DEF Submit, At, LockoutInv, TypeInv
<1>o. o \in Doing /\ o.at = "compare" /\ o.name = u
  BY PlaceFacts
<1> HIDE DEF o
<1>2. /\ op' \in [Req -> Doing] /\ op'[r] = o /\ o.at = "compare" /\ o.name = u
      /\ \A q \in Req : q # r => op'[q] = op[q]
  BY <1>1, <1>o, GoesFacts
<1>3. CASE Expired(u)
  <2>1. attempts' = [attempts EXCEPT ![u] = NoAttempts] /\ wrong' = [wrong EXCEPT ![u] = 0]
    BY <1>3 DEF Submit
  <2>2. NoAttempts \in [failures : Nat, until : Nat] /\ NoAttempts.failures = 0
    BY DEF NoAttempts
  <2>3. TypeInv'
    BY <1>1, <1>2, <2>1, <2>2 DEF LockoutInv, TypeInv
  <2>4. ASSUME NEW v \in Spelling PROVE Counted(v)' /\ Limited(v)'
    <3>1. CASE v = u
      <4>1. attempts'[v] = NoAttempts /\ wrong'[v] = 0
        BY <1>1, <2>1, <3>1
      <4>2. /\ Cardinality(Recording(v)') \in Nat /\ Cardinality(Req) \in Nat
            /\ Cardinality(Comparing(v)') \in Nat /\ Cardinality(Comparing(v)') <= Cardinality(Req)
        <5>1. Comparing(v)' \subseteq Req /\ Recording(v)' \subseteq Req
          BY DEF Comparing, Recording
        <5> QED BY <5>1, FS_Subset, FS_CardinalityType DEF Limits
      <4> QED BY <2>2, <4>1, <4>2 DEF Counted, Limited, Limits
    <3>2. CASE v # u
      <4>1. Comparing(v)' = Comparing(v) /\ Recording(v)' = Recording(v)
        BY <1>1, <1>2, <3>2 DEF Comparing, Recording
      <4>2. attempts'[v] = attempts[v] /\ wrong'[v] = wrong[v]
        BY <1>1, <2>1, <3>2
      <4> QED BY <4>1, <4>2 DEF LockoutInv, Counted, Limited
    <3> QED BY <3>1, <3>2
  <2> QED BY <2>3, <2>4 DEF LockoutInv
<1>4. CASE ~Expired(u)
  <2>1. UNCHANGED <<attempts, wrong>> /\ attempts[u].until = 0
    BY <1>1, <1>4 DEF Submit, LockedOut
  <2>2. TypeInv'
    BY <1>1, <1>2, <2>1 DEF LockoutInv, TypeInv
  <2>3. ASSUME NEW v \in Spelling PROVE Counted(v)' /\ Limited(v)'
    <3>1. Recording(v)' = Recording(v)
      BY <1>1, <1>2 DEF Recording
    <3>2. CASE v = u
      <4>1. Comparing(v)' = Comparing(v) \cup {r} /\ r \notin Comparing(v) /\ r \notin Recording(v)
        BY <1>1, <1>2, <3>2 DEF Comparing, Recording
      <4>2. Cardinality(Comparing(v)') = Cardinality(Comparing(v)) + 1
        BY <4>1, CountFacts, OneMore
      <4>3. Cardinality(Comparing(v)') + Cardinality(Recording(v)) <= Cardinality(Req)
        <5>1. /\ Comparing(v) \cup {r} \subseteq Req /\ Recording(v) \subseteq Req
              /\ (Comparing(v) \cup {r}) \cap Recording(v) = {}
          BY <4>1 DEF Comparing, Recording
        <5> QED BY <4>1, <5>1, ApartFacts
      <4>4. attempts[v].failures < MaxFailures /\ wrong[v] <= attempts[v].failures + Cardinality(Recording(v))
        BY <2>1, <3>2 DEF LockoutInv, Counted
      <4>5. /\ attempts[v].failures \in Nat /\ wrong[v] \in Nat /\ MaxFailures \in Nat
            /\ Cardinality(Comparing(v)') \in Nat /\ Cardinality(Recording(v)) \in Nat
            /\ Cardinality(Req) \in Nat
        BY <1>1, <4>2, CountFacts DEF Limits
      <4>6. Limited(v)'
        BY <2>1, <4>3, <4>4, <4>5 DEF Limited
      <4> QED BY <2>1, <3>1, <4>6 DEF LockoutInv, Counted
    <3>3. CASE v # u
      <4>1. Comparing(v)' = Comparing(v)
        BY <1>1, <1>2, <3>3 DEF Comparing
      <4> QED BY <2>1, <3>1, <4>1 DEF LockoutInv, Counted, Limited
    <3> QED BY <3>2, <3>3
  <2> QED BY <2>2, <2>3 DEF LockoutInv
<1> QED BY <1>3, <1>4

\* A wrong password moves its login from the comparing to the recording ones.
LEMMA CompareStep ==
    ASSUME Limits, LockoutInv, NEW r \in Req, NEW right \in BOOLEAN, Compare(r, right)
    PROVE  LockoutInv'
<1> DEFINE u == op[r].name
           to == IF right THEN "clear" ELSE "record"
           o == [at |-> to, name |-> u]
<1>1. /\ op \in [Req -> Doing] /\ op[r] \in Doing /\ op[r].at = "compare" /\ wrong \in [Spelling -> Nat]
      /\ UNCHANGED <<now, attempts>> /\ Goes(r, [op[r] EXCEPT !.at = to])
      /\ wrong' = IF right THEN wrong ELSE [wrong EXCEPT ![u] = @ + 1]
  BY DEF Compare, At, LockoutInv, TypeInv
<1>2. u \in Spelling /\ to \in {"record", "clear"} /\ [op[r] EXCEPT !.at = to] = o
  BY <1>1, PlaceFacts
<1>3. o \in Doing /\ o.at = to /\ o.name = u
  BY <1>2, PlaceFacts
<1>4. Goes(r, o)
  BY <1>1, <1>2
<1> HIDE DEF o
<1>5. /\ op' \in [Req -> Doing] /\ op'[r] = o
      /\ \A q \in Req : q # r => op'[q] = op[q]
  BY <1>1, <1>3, <1>4, GoesFacts
<1>6. op[r].name = u
  OBVIOUS
<1>7. right \/ (~right /\ to = "record")
  OBVIOUS
<1>8. right => to = "clear"
  OBVIOUS
<1> HIDE DEF u, to
<1>9. TypeInv'
  <2>1. wrong' \in [Spelling -> Nat]
    BY <1>1, <1>2
  <2> QED BY <1>1, <1>5, <2>1 DEF LockoutInv, TypeInv
<1>10. ASSUME NEW v \in Spelling PROVE Counted(v)' /\ Limited(v)'
  <2>1. CASE v # u
    <3>1. Comparing(v)' = Comparing(v) /\ Recording(v)' = Recording(v)
      BY <1>3, <1>5, <1>6, <2>1 DEF Comparing, Recording
    <3>2. wrong'[v] = wrong[v]
      BY <1>1, <2>1
    <3> QED BY <1>1, <3>1, <3>2 DEF LockoutInv, Counted, Limited
  <2>2. CASE v = u
    <3>1. Comparing(v)' = Comparing(v) \ {r} /\ r \in Comparing(v) /\ r \notin Recording(v)
      <4>1. r \in Comparing(v) /\ r \notin Recording(v)
        BY <1>1, <1>6, <2>2 DEF Comparing, Recording
      <4>2. op'[r].at # "compare"
        BY <1>2, <1>3, <1>5
      <4>3. ASSUME NEW q \in Req, q # r
            PROVE  q \in Comparing(v)' <=> q \in Comparing(v)
        BY <1>5, <4>3 DEF Comparing
      <4>4. Comparing(v) \subseteq Req /\ Comparing(v)' \subseteq Req /\ r \notin Comparing(v)'
        BY <4>2 DEF Comparing
      <4> QED BY <4>1, <4>3, <4>4
    <3>2. Cardinality(Comparing(v)') = Cardinality(Comparing(v)) - 1
      BY <3>1, CountFacts, OneLess
    <3>3. /\ Cardinality(Comparing(v)) \in Nat /\ Cardinality(Recording(v)) \in Nat
          /\ Cardinality(Req) \in Nat /\ MaxFailures \in Nat /\ wrong[v] \in Nat
      BY <1>1, CountFacts DEF Limits
    <3>4. CASE right
      <4>1. Recording(v)' = Recording(v) /\ wrong' = wrong
        BY <1>1, <1>3, <1>5, <1>8, <3>4 DEF Recording
      <4>2. Limited(v)'
        BY <3>2, <3>3, <4>1 DEF LockoutInv, Limited
      <4> QED BY <1>1, <4>1, <4>2 DEF LockoutInv, Counted
    <3>5. CASE ~right
      <4>1. Recording(v)' = Recording(v) \cup {r}
        BY <1>2, <1>3, <1>5, <1>6, <1>7, <2>2, <3>5 DEF Recording
      <4>2. Cardinality(Recording(v)') = Cardinality(Recording(v)) + 1
        BY <3>1, <4>1, CountFacts, OneMore
      <4>3. wrong'[v] = wrong[v] + 1
        BY <1>1, <2>2, <3>5
      <4>4. Limited(v)'
        BY <3>2, <3>3, <4>3 DEF LockoutInv, Limited
      <4>5. Counted(v)'
        <5>1. attempts[v].failures \in Nat
          BY DEF LockoutInv, TypeInv
        <5> QED BY <1>1, <3>3, <4>2, <4>3, <5>1 DEF LockoutInv, Counted
      <4> QED BY <4>4, <4>5
    <3> QED BY <3>4, <3>5
  <2> QED BY <2>1, <2>2
<1> QED BY <1>9, <1>10 DEF LockoutInv

\* Where the account cannot be looked up, one fewer compares.
LEMMA LookupFailsStep ==
    ASSUME Limits, LockoutInv, NEW r \in Req, LookupFails(r)
    PROVE  LockoutInv'
<1>1. /\ op \in [Req -> Doing] /\ op[r].at = "compare"
      /\ UNCHANGED <<now, attempts, wrong>> /\ Goes(r, Idle)
  BY DEF LookupFails, At, LockoutInv, TypeInv
<1>i. Idle \in Doing /\ Idle.at = "idle"
  BY PlaceFacts
<1>2. /\ op' \in [Req -> Doing] /\ op'[r] = Idle
      /\ \A q \in Req : q # r => op'[q] = op[q]
  BY <1>1, <1>i, GoesFacts
<1>3. TypeInv'
  BY <1>1, <1>2 DEF LockoutInv, TypeInv
<1>4. ASSUME NEW v \in Spelling PROVE Counted(v)' /\ Limited(v)'
  <2>1. Recording(v)' = Recording(v)
    BY <1>1, <1>i, <1>2 DEF Recording
  <2>2. Comparing(v)' \subseteq Comparing(v)
    BY <1>1, <1>i, <1>2 DEF Comparing
  <2>3. Cardinality(Comparing(v)') <= Cardinality(Comparing(v)) /\ Cardinality(Comparing(v)') \in Nat
    BY <2>2, CountFacts, FS_Subset, FS_CardinalityType
  <2>4. /\ Cardinality(Comparing(v)) \in Nat /\ Cardinality(Req) \in Nat
        /\ wrong[v] \in Nat /\ MaxFailures \in Nat
    BY CountFacts DEF Limits, LockoutInv, TypeInv
  <2>5. Limited(v)'
    BY <1>1, <2>3, <2>4 DEF LockoutInv, Limited
  <2> QED BY <1>1, <2>1, <2>5 DEF LockoutInv, Counted
<1> QED BY <1>3, <1>4 DEF LockoutInv

\* A failure that is recorded counts one, and the last that is allowed locks the name.
LEMMA FailureFacts ==
    ASSUME Limits, now \in Nat \ {0}, NEW a \in [failures : Nat, until : Nat]
    PROVE  /\ Capped(Failure(a)) \in [failures : Nat, until : Nat]
           /\ Capped(Failure(a)).until = 0 =>
                 /\ a.until = 0
                 /\ Capped(Failure(a)).failures = a.failures + 1
                 /\ a.failures + 1 < MaxFailures
<1> DEFINE f == a.failures + 1
           t == IF f >= MaxFailures THEN now + LockTime ELSE a.until
<1>1. f \in Nat /\ t \in Nat /\ MaxFailures \in Nat
  BY DEF Limits
<1>2. t = 0 => a.until = 0 /\ f < MaxFailures
  BY DEF Limits
<1>3. Failure(a) = [failures |-> f, until |-> t]
  BY DEF Failure
<1> HIDE DEF f, t
<1>4. Capped(Failure(a)) = [failures |-> IF f > MaxFailures THEN MaxFailures ELSE f, until |-> t]
  BY <1>3 DEF Capped
<1>5. f = a.failures + 1
  BY DEF f
<1> QED BY <1>1, <1>2, <1>4, <1>5

\* Recording ends the login: one fewer has a failure to record.
LEMMA RecordStep ==
    ASSUME Limits, LockoutInv, NEW r \in Req, Record(r)
    PROVE  LockoutInv'
<1> DEFINE u == op[r].name
<1>1. /\ op \in [Req -> Doing] /\ op[r] \in Doing /\ op[r].at = "record"
      /\ now \in Nat \ {0} /\ attempts \in [Spelling -> [failures : Nat, until : Nat]]
      /\ UNCHANGED <<now, wrong>> /\ Goes(r, Idle)
      /\ attempts' = [attempts EXCEPT ![u] = Capped(Failure(@))]
  BY DEF Record, At, LockoutInv, TypeInv
<1>2. u \in Spelling
  BY <1>1, PlaceFacts
<1>i. Idle \in Doing /\ Idle.at = "idle"
  BY PlaceFacts
<1>3. /\ op' \in [Req -> Doing] /\ op'[r] = Idle /\ Idle.at = "idle"
      /\ \A q \in Req : q # r => op'[q] = op[q]
  BY <1>1, <1>i, GoesFacts
<1>4. op[r].name = u
  OBVIOUS
<1> HIDE DEF u
<1>5. attempts[u] \in [failures : Nat, until : Nat]
  BY <1>1, <1>2
<1>6. /\ attempts'[u] = Capped(Failure(attempts[u]))
      /\ \A v \in Spelling : v # u => attempts'[v] = attempts[v]
  BY <1>1, <1>2
<1>7. TypeInv'
  <2>1. Capped(Failure(attempts[u])) \in [failures : Nat, until : Nat]
    BY <1>1, <1>5, FailureFacts
  <2>2. attempts' \in [Spelling -> [failures : Nat, until : Nat]]
    BY <1>1, <2>1
  <2> QED BY <1>1, <1>3, <2>2 DEF LockoutInv, TypeInv
<1>8. ASSUME NEW v \in Spelling PROVE Counted(v)' /\ Limited(v)'
  <2>1. Comparing(v)' = Comparing(v)
    BY <1>1, <1>3 DEF Comparing
  <2>2. Limited(v)'
    BY <1>1, <2>1 DEF LockoutInv, Limited
  <2>3. CASE v # u
    <3>1. Recording(v)' = Recording(v)
      BY <1>3, <1>4, <2>3 DEF Recording
    <3> QED BY <1>1, <1>6, <2>2, <2>3, <3>1 DEF LockoutInv, Counted
  <2>4. CASE v = u
    <3>1. Recording(v)' = Recording(v) \ {r} /\ r \in Recording(v)
      BY <1>1, <1>3, <1>4, <2>4 DEF Recording
    <3>2. Cardinality(Recording(v)') = Cardinality(Recording(v)) - 1
      BY <3>1, CountFacts, OneLess
    <3>3. /\ Cardinality(Recording(v)) \in Nat /\ MaxFailures \in Nat /\ wrong[v] \in Nat
          /\ attempts[v].failures \in Nat
      BY CountFacts DEF Limits, LockoutInv, TypeInv
    <3>4. attempts'[v].until = 0 =>
             /\ attempts[v].until = 0 /\ attempts'[v].failures = attempts[v].failures + 1
             /\ attempts[v].failures + 1 < MaxFailures
      BY <1>1, <1>5, <1>6, <2>4, FailureFacts
    <3>5. Counted(v)'
      BY <1>1, <3>2, <3>3, <3>4 DEF LockoutInv, Counted
    <3> QED BY <2>2, <3>5
  <2> QED BY <2>3, <2>4
<1> QED BY <1>7, <1>8 DEF LockoutInv

\* The right password forgives the name.
LEMMA ClearStep ==
    ASSUME Limits, LockoutInv, NEW r \in Req, Clear(r)
    PROVE  LockoutInv'
<1> DEFINE u == op[r].name
<1>1. /\ op \in [Req -> Doing] /\ op[r].at = "clear" /\ wrong \in [Spelling -> Nat]
      /\ attempts \in [Spelling -> [failures : Nat, until : Nat]]
      /\ UNCHANGED now /\ Goes(r, Idle)
      /\ attempts' = [attempts EXCEPT ![u] = NoAttempts] /\ wrong' = [wrong EXCEPT ![u] = 0]
  BY DEF Clear, At, LockoutInv, TypeInv
<1>i. Idle \in Doing /\ Idle.at = "idle"
  BY PlaceFacts
<1>2. /\ op' \in [Req -> Doing] /\ op'[r] = Idle /\ Idle.at = "idle"
      /\ \A q \in Req : q # r => op'[q] = op[q]
  BY <1>1, <1>i, GoesFacts
<1> HIDE DEF u
<1>3. NoAttempts \in [failures : Nat, until : Nat] /\ NoAttempts.failures = 0
  BY DEF NoAttempts
<1>4. TypeInv'
  BY <1>1, <1>2, <1>3 DEF LockoutInv, TypeInv
<1>5. ASSUME NEW v \in Spelling PROVE Counted(v)' /\ Limited(v)'
  <2>1. Comparing(v)' = Comparing(v) /\ Recording(v)' = Recording(v)
    BY <1>1, <1>2 DEF Comparing, Recording
  <2>2. /\ Cardinality(Comparing(v)) \in Nat /\ Cardinality(Recording(v)) \in Nat
        /\ Cardinality(Req) \in Nat /\ MaxFailures \in Nat \ {0}
        /\ Cardinality(Comparing(v)) + Cardinality(Recording(v)) <= Cardinality(Req)
    BY CountFacts DEF Limits
  <2>3. CASE v = u
    <3>1. attempts'[v] = NoAttempts /\ wrong'[v] = 0
      BY <1>1, <2>3
    <3> QED BY <1>3, <2>1, <2>2, <3>1 DEF Counted, Limited
  <2>4. CASE v # u
    <3>1. attempts'[v] = attempts[v] /\ wrong'[v] = wrong[v]
      BY <1>1, <2>4
    <3> QED BY <2>1, <3>1 DEF LockoutInv, Counted, Limited
  <2> QED BY <2>3, <2>4
<1> QED BY <1>4, <1>5 DEF LockoutInv

\* Time, and steps that change nothing, touch no counter.
LEMMA TickStep ==
    ASSUME LockoutInv, Tick \/ UNCHANGED vars
    PROVE  LockoutInv'
<1>1. UNCHANGED <<attempts, op, wrong>> /\ (now' = now \/ now' = now + 1)
  BY DEF Tick, vars
<1>2. TypeInv'
  BY <1>1 DEF LockoutInv, TypeInv
<1>3. ASSUME NEW v \in Spelling PROVE Counted(v)' /\ Limited(v)'
  BY <1>1 DEF LockoutInv, Counted, Limited, Comparing, Recording
<1> QED BY <1>2, <1>3 DEF LockoutInv

\* Nobody has tried yet.
LEMMA LockoutInit ==
    ASSUME Limits, Init
    PROVE  LockoutInv
<1>1. NoAttempts \in [failures : Nat, until : Nat] /\ NoAttempts.failures = 0
  BY DEF NoAttempts
<1>2. TypeInv
  BY <1>1, PlaceFacts DEF Init, TypeInv
<1>3. ASSUME NEW v \in Spelling PROVE Counted(v) /\ Limited(v)
  <2>1. Comparing(v) = {} /\ Recording(v) = {}
    BY PlaceFacts DEF Init, Comparing, Recording
  <2>2. Cardinality(Req) \in Nat /\ MaxFailures \in Nat \ {0}
    BY CountFacts DEF Limits
  <2>3. Cardinality({}) = 0
    BY FS_EmptySet
  <2>4. attempts[v] = NoAttempts /\ wrong[v] = 0
    BY DEF Init
  <2> QED BY <1>1, <2>1, <2>2, <2>3, <2>4 DEF Counted, Limited
<1> QED BY <1>2, <1>3 DEF LockoutInv

\* Guesses in parallel pass the gate of a name, as it is typed, fewer times than
\* maxLoginFailures and the requests at once, whatever their order (recordLoginFailure).
\* An account has as many names as its letters have cases, each with a bound of its own.
THEOREM GuessesLimited ==
    ASSUME Limits
    PROVE  Spec => []GuessesBounded
<1>1. Init => LockoutInv
  BY LockoutInit
<1>2. LockoutInv /\ [Next]_vars => LockoutInv'
  <2> SUFFICES ASSUME LockoutInv, [Next]_vars PROVE LockoutInv'
    OBVIOUS
  <2>1. CASE Tick \/ UNCHANGED vars
    BY <2>1, TickStep
  <2>2. ASSUME NEW r \in Req, NEW u \in Spelling, Submit(r, u) PROVE LockoutInv'
    BY <2>2, SubmitStep
  <2>3. ASSUME NEW r \in Req, NEW right \in BOOLEAN, Compare(r, right) PROVE LockoutInv'
    BY <2>3, CompareStep
  <2>4. ASSUME NEW r \in Req, Record(r) PROVE LockoutInv'
    BY <2>4, RecordStep
  <2>5. ASSUME NEW r \in Req, Clear(r) PROVE LockoutInv'
    BY <2>5, ClearStep
  <2>6. ASSUME NEW r \in Req, LookupFails(r) PROVE LockoutInv'
    BY <2>6, LookupFailsStep
  <2> QED BY <2>1, <2>2, <2>3, <2>4, <2>5, <2>6 DEF Next
<1>3. LockoutInv => GuessesBounded
  <2> SUFFICES ASSUME LockoutInv, NEW u \in Spelling
               PROVE  wrong[u] < MaxFailures + Cardinality(Req)
    BY DEF GuessesBounded
  <2>1. wrong[u] + Cardinality(Comparing(u)) < MaxFailures + Cardinality(Req)
    BY DEF LockoutInv, Limited
  <2>2. /\ wrong[u] \in Nat /\ Cardinality(Comparing(u)) \in Nat
        /\ Cardinality(Req) \in Nat /\ MaxFailures \in Nat
    BY CountFacts DEF LockoutInv, TypeInv, Limits
  <2> QED BY <2>1, <2>2
<1> QED BY <1>1, <1>2, <1>3, PTL DEF Spec
=============================================================================
