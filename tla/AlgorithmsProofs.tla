---------------------------- MODULE AlgorithmsProofs ----------------------------
(***************************************************************************)
(* Proofs, for all inputs, about the algorithms that MCAlgorithms asks:    *)
(* windows, pages and copies of any table, the scanners of statements on   *)
(* any text, the candidates for any rows, and the gates in every           *)
(* situation.                                                              *)
(*                                                                         *)
(* The loops of these modules are folds and recursive functions.  They are *)
(* unfolded here with lemmas on sets and numbers, no operator being a      *)
(* parameter of a lemma.                                                   *)
(***************************************************************************)
EXTENDS Algorithms, FiniteSetTheorems, WellFoundedInduction, TLAPS

----------------------------------------------------------------------------
(* Numbers and folds *)

\* The order of the numbers as a set of pairs.
Below == {ss \in Nat \X Nat : ss[1] < ss[2]}

\* Every set of numbers that is not empty has a least one.
LEMMA Least ==
    ASSUME NEW S \in SUBSET Nat, S # {}
    PROVE  \E n \in S : \A m \in S : n <= m
<1>1. IsWellFoundedOn(Below, Nat)
  BY NatLessThanWellFounded DEF OpToRel, Below
<1>2. PICK n \in S : \A m \in S : <<m, n>> \notin Below
  BY <1>1, WFMin
<1>3. \A m \in S : ~(m < n)
  BY <1>2 DEF Below
<1> QED BY <1>3

\* Induction up to n: what holds at 0 and is passed on holds up to n.
LEMMA UpTo ==
    ASSUME NEW n \in Nat, NEW S, 0 \in S, \A k \in 0..n : k < n /\ k \in S => k + 1 \in S
    PROVE  0..n \subseteq S
<1> DEFINE T == {k \in 0..n : k \notin S}
<1> SUFFICES ASSUME T # {} PROVE FALSE
  OBVIOUS
<1>1. PICK m \in T : \A k \in T : m <= k
  <2>1. T \in SUBSET Nat
    OBVIOUS
  <2> QED BY <2>1, Least
<1>2. m # 0 /\ m - 1 \in 0..n /\ m - 1 \in S
  BY <1>1
<1> QED BY <1>1, <1>2

\* A set of positions that is not empty has a highest one.
LEMMA MaxIn ==
    ASSUME NEW n \in Nat, NEW s \in SUBSET (1..n), s # {}
    PROVE  Max(s) \in s /\ \A k \in s : k <= Max(s)
<1> DEFINE T == {m \in 0..n : n - m \in s}
<1>1. T \in SUBSET Nat /\ T # {}
  <2>1. PICK k \in s : TRUE
    OBVIOUS
  <2>2. n - k \in T
    BY <2>1
  <2> QED BY <2>2
<1>2. PICK m \in T : \A k \in T : m <= k
  BY <1>1, Least
<1> DEFINE x == n - m
<1>3. x \in s
  BY <1>2
<1>4. ASSUME NEW k \in s PROVE x >= k
  <2>1. n - k \in T
    BY <1>4
  <2> QED BY <1>2, <2>1
<1> HIDE DEF x
<1> QED BY <1>3, <1>4 DEF Max

\* A fold over the positions 1..n: its value at a set is the step for the highest position
\* of the set, after all of the lower ones.  The iterator of FoldLeft is one.
IsFold(iter, S, base, n, F) ==
    /\ iter \in [SUBSET (1..n) -> S]
    /\ iter[{}] = base
    /\ \A s \in SUBSET (1..n) : s # {} => iter[s] = F[<<iter[s \ {Max(s)}], Max(s)>>]

\* There is a fold for every step that leads from S to S.
LEMMA FoldExists ==
    ASSUME NEW S, NEW base \in S, NEW n \in Nat, NEW F \in [S \X (1..n) -> S]
    PROVE  \E iter : IsFold(iter, S, base, n, F)
<1> DEFINE Fits(m, g) == \A s \in SUBSET (1..m) :
                           g[s] = IF s = {} THEN base ELSE F[<<g[s \ {Max(s)}], Max(s)>>]
           D == {m \in 0..n : \E g \in [SUBSET (1..m) -> S] : Fits(m, g)}
<1>1. 0 \in D
  <2>1. SUBSET (1..0) = {{}}
    OBVIOUS
  <2> DEFINE g == [s \in SUBSET (1..0) |-> base]
  <2>2. g \in [SUBSET (1..0) -> S]
    OBVIOUS
  <2>3. Fits(0, g)
    BY <2>1
  <2>4. 0 \in 0..n
    OBVIOUS
  <2> HIDE DEF g, Fits
  <2> QED BY <2>2, <2>3, <2>4
<1>2. ASSUME NEW m \in 0..n, m < n, m \in D PROVE m + 1 \in D
  <2>1. PICK g \in [SUBSET (1..m) -> S] : Fits(m, g)
    BY <1>2
  <2> DEFINE h == [s \in SUBSET (1..(m + 1)) |->
                     IF m + 1 \in s THEN F[<<g[s \ {m + 1}], m + 1>>] ELSE g[s]]
  <2>2. ASSUME NEW s \in SUBSET (1..(m + 1))
        PROVE  /\ m + 1 \notin s => s \in SUBSET (1..m)
               /\ s \ {m + 1} \in SUBSET (1..m)
    OBVIOUS
  <2>3. h \in [SUBSET (1..(m + 1)) -> S]
    <3>1. \A s \in SUBSET (1..m) : g[s] \in S
      OBVIOUS
    <3>2. \A v \in S : F[<<v, m + 1>>] \in S
      BY <1>2
    <3> QED BY <2>2, <3>1, <3>2
  <2>4. ASSUME NEW s \in SUBSET (1..(m + 1))
        PROVE  h[s] = IF s = {} THEN base ELSE F[<<h[s \ {Max(s)}], Max(s)>>]
    <3>1. CASE m + 1 \in s
      <4>1. Max(s) = m + 1
        <5>1. Max(s) \in s /\ \A k \in s : k <= Max(s)
          <6>1. m + 1 \in Nat
            OBVIOUS
          <6> QED BY <3>1, <6>1, MaxIn
        <5>2. Max(s) \in 1..(m + 1)
          BY <5>1
        <5>3. m + 1 <= Max(s)
          BY <3>1, <5>1
        <5> HIDE DEF h, Fits
        <5> QED BY <5>2, <5>3
      <4>2. h[s \ {m + 1}] = g[s \ {m + 1}]
        BY <2>2
      <4> QED BY <3>1, <4>1, <4>2
    <3>2. CASE m + 1 \notin s /\ s # {}
      <4>1. s \in SUBSET (1..m) /\ s \ {Max(s)} \in SUBSET (1..m)
        BY <2>2, <3>2
      <4>2. h[s] = g[s] /\ h[s \ {Max(s)}] = g[s \ {Max(s)}]
        BY <3>2, <4>1
      <4>3. g[s] = F[<<g[s \ {Max(s)}], Max(s)>>]
        BY <2>1, <3>2, <4>1
      <4> QED BY <3>2, <4>2, <4>3
    <3>3. CASE s = {}
      <4>1. s \in SUBSET (1..m)
        BY <3>3
      <4>2. g[s] = base
        BY <2>1, <3>3, <4>1
      <4> QED BY <3>3, <4>2
    <3> QED BY <3>1, <3>2, <3>3
  <2>5. Fits(m + 1, h)
    BY <2>4
  <2>6. m + 1 \in 0..n
    BY <1>2
  <2> HIDE DEF h, Fits
  <2> QED BY <2>3, <2>5, <2>6
<1>3. ASSUME NEW g \in [SUBSET (1..n) -> S], Fits(n, g)
      PROVE  IsFold(g, S, base, n, F)
  BY <1>3 DEF IsFold
<1> HIDE DEF Fits
<1>4. 0..n \subseteq D
  <2> HIDE DEF D
  <2> QED BY <1>1, <1>2, UpTo
<1>5. n \in D
  <2> HIDE DEF D
  <2>1. n \in 0..n
    OBVIOUS
  <2> QED BY <1>4, <2>1
<1> QED BY <1>5, <1>3


\* Values that stay in S from step to step are all in S.
LEMMA FoldStays ==
    ASSUME NEW S, NEW n \in Nat, NEW iter, iter[{}] \in S,
           \A s \in SUBSET (1..n) : s # {} /\ iter[s \ {Max(s)}] \in S => iter[s] \in S
    PROVE  \A s \in SUBSET (1..n) : iter[s] \in S
<1> DEFINE D == {m \in 0..n : \A s \in SUBSET (1..m) : iter[s] \in S}
<1>1. 0 \in D
  <2>1. SUBSET (1..0) = {{}} /\ 0 \in 0..n
    OBVIOUS
  <2> QED BY <2>1
<1>2. ASSUME NEW m \in 0..n, m < n, m \in D PROVE m + 1 \in D
  <2>1. ASSUME NEW s \in SUBSET (1..(m + 1)) PROVE iter[s] \in S
    <3>1. CASE s = {}
      BY <3>1
    <3>2. CASE s # {}
      <4>1. Max(s) \in s /\ (\A k \in s : k <= Max(s)) /\ s \in SUBSET (1..n)
        <5>1. m + 1 \in Nat
          OBVIOUS
        <5>2. \A k \in s : k \in 1..n
          BY <1>2
        <5> QED BY <3>2, <5>1, <5>2, MaxIn
      <4>2. s \ {Max(s)} \in SUBSET (1..m)
        <5>1. ASSUME NEW k \in s, k # Max(s) PROVE k \in 1..m
          <6>1. k <= Max(s) /\ k \in 1..(m + 1) /\ Max(s) \in 1..(m + 1)
            BY <4>1
          <6> QED BY <5>1, <6>1
        <5> QED BY <5>1
      <4>3. iter[s \ {Max(s)}] \in S
        BY <1>2, <4>2
      <4> QED BY <3>2, <4>1, <4>3
    <3> QED BY <3>1, <3>2
  <2>2. m + 1 \in 0..n
    BY <1>2
  <2> QED BY <2>1, <2>2
<1>3. 0..n \subseteq D
  <2> HIDE DEF D
  <2> QED BY <1>1, <1>2, UpTo
<1>4. n \in 0..n
  OBVIOUS
<1> QED BY <1>3, <1>4

\* What a fold makes of the first positions, with one more at a time.
Grows(iter, S, base, n, F) ==
    /\ iter[1..0] = base
    /\ \A k \in 0..(n - 1) : iter[1..(k + 1)] = F[<<iter[1..k], k + 1>>]
    /\ \A k \in 0..n : iter[1..k] \in S

\* A fold begins with its base and takes a step for each position.
LEMMA FoldNext ==
    ASSUME NEW S, NEW base, NEW n \in Nat, NEW F, NEW iter, IsFold(iter, S, base, n, F)
    PROVE  Grows(iter, S, base, n, F)
<1>1. iter[1..0] = base
  <2>1. 1..0 = {}
    OBVIOUS
  <2> QED BY <2>1 DEF IsFold
<1>2. ASSUME NEW k \in 0..(n - 1) PROVE iter[1..(k + 1)] = F[<<iter[1..k], k + 1>>]
  <2> DEFINE s == 1..(k + 1)
  <2>1. s \in SUBSET (1..n) /\ s # {} /\ k + 1 \in s
    <3>1. k + 1 \in s
      OBVIOUS
    <3>2. \A i \in s : i \in 1..n
      OBVIOUS
    <3> QED BY <3>1, <3>2
  <2>2. Max(s) = k + 1
    <3>1. Max(s) \in s /\ \A j \in s : j <= Max(s)
      <4> HIDE DEF s
      <4> QED BY <2>1, MaxIn
    <3>2. Max(s) \in 1..(k + 1) /\ k + 1 <= Max(s)
      BY <2>1, <3>1
    <3> QED BY <3>2
  <2>3. s \ {k + 1} = 1..k
    OBVIOUS
  <2>4. iter[s] = F[<<iter[s \ {Max(s)}], Max(s)>>]
    <3> HIDE DEF s
    <3> QED BY <2>1 DEF IsFold
  <2> HIDE DEF s
  <2>5. iter[s] = F[<<iter[1..k], k + 1>>]
    BY <2>2, <2>3, <2>4
  <2> QED BY <2>5 DEF s
<1>3. ASSUME NEW k \in 0..n PROVE iter[1..k] \in S
  <2>1. 1..k \in SUBSET (1..n)
    OBVIOUS
  <2> QED BY <2>1 DEF IsFold
<1> QED BY <1>1, <1>2, <1>3 DEF Grows

\* The step F leads from pairs in P to pairs in P.
Keeps(F, n, S, P) == \A k \in 0..(n - 1), v \in S : <<k, v>> \in P => <<k + 1, F[<<v, k + 1>>]>> \in P

\* An invariant of the loop that a fold is: P has the pairs of a position and a state.
LEMMA FoldKeeps ==
    ASSUME NEW S, NEW base \in S, NEW n \in Nat, NEW F \in [S \X (1..n) -> S], NEW iter,
           IsFold(iter, S, base, n, F), NEW P, <<0, base>> \in P, Keeps(F, n, S, P)
    PROVE  iter[1..n] \in S /\ <<n, iter[1..n]>> \in P
<1> DEFINE D == {k \in 0..n : <<k, iter[1..k]>> \in P}
<1>1. 0 \in D
  <2>1. 1..0 = {} /\ 0 \in 0..n
    OBVIOUS
  <2>2. iter[1..0] = base
    BY <2>1 DEF IsFold
  <2> QED BY <2>1, <2>2
<1>2. ASSUME NEW k \in 0..n, k < n, k \in D PROVE k + 1 \in D
  <2>1. k \in 0..(n - 1) /\ k + 1 \in 0..n
    BY <1>2
  <2>2. iter[1..k] \in S /\ iter[1..(k + 1)] = F[<<iter[1..k], k + 1>>]
    <3> HIDE DEF D
    <3>1. Grows(iter, S, base, n, F)
      BY FoldNext
    <3> QED BY <2>1, <3>1 DEF Grows
  <2>3. <<k + 1, iter[1..(k + 1)]>> \in P
    BY <1>2, <2>1, <2>2 DEF Keeps
  <2> QED BY <2>1, <2>3
<1>3. 0..n \subseteq D
  <2> HIDE DEF D
  <2> QED BY <1>1, <1>2, UpTo
<1>4. n \in 0..n /\ 1..n \in SUBSET (1..n)
  OBVIOUS
<1> QED BY <1>3, <1>4 DEF IsFold

----------------------------------------------------------------------------
(* Gates *)

\* All ways to write apply one rule, whatever the mode, the role, the settings and the mirror
\* of permissions are.
LEMMA OneRuleForWrites ==
    ASSUME NEW s \in Situation
    PROVE  SameRule(s)
<1>1. /\ s.auth \in {"local", "none"} /\ s.configured \in BOOLEAN /\ s.role \in Role \cup {Nobody}
      /\ s.readOnly \in BOOLEAN /\ s.readsNeedLogin \in BOOLEAN
      /\ s.role # Nobody => s.configured
  BY DEF Situation
\* What each gate lets through.
<1>2. /\ Passes(s, "login") <=> (s.auth = "none" \/ s.role # Nobody)
      /\ Passes(s, "admin") <=> (s.auth = "none" \/ s.role = "admin")
      /\ Passes(s, "reads") <=> (s.auth = "none" \/ s.role # Nobody \/ ~s.readsNeedLogin)
  BY <1>1 DEF Passes, RequireLogin, RequireAdmin, RequireReadAuth, RequireRole, Role, Nobody
<1>3. /\ Passes(s, "writable") <=> (~s.readOnly /\ ~(s.auth = "local" /\ s.role = "readonly"))
      /\ Passes(s, "inline") <=> MayWrite(s)
  BY <1>1 DEF Passes, RequireWritable, WriteGateBlocked, LoginRequiredForWrite, RoleBlocksWrite,
       MayWrite, Role, Nobody
<1>4. Passes(s, "editor") <=> (MayWrite(s) /\ (s.auth = "local" => s.mirror # "denies"))
  BY <1>1 DEF Passes, EditorExecutes, SessionCanWriteSQL, MayWrite, Role, Nobody
<1>5. MayWrite([s EXCEPT !.readOnly = FALSE]) <=> (s.auth = "local" => s.role \in {"admin", "user"})
  BY <1>1 DEF MayWrite, Situation
\* What the gates of a route let through together.
<1>6. MayWrite(s) <=> Passes(s, "writable") /\ Passes(s, "login")
  BY <1>1, <1>2, <1>3 DEF MayWrite, Role, Nobody
<1>7. MayWrite(s) <=> Passes(s, "reads") /\ Passes(s, "inline")
  BY <1>1, <1>2, <1>3 DEF MayWrite, Nobody
<1>8. (MayWrite(s) /\ (s.auth = "local" => s.mirror # "denies")) <=> Passes(s, "reads") /\ Passes(s, "editor")
  BY <1>1, <1>2, <1>4 DEF MayWrite, Nobody
<1>9. (MayWrite(s) /\ (s.auth = "local" => s.role = "admin")) <=> Passes(s, "admin") /\ Passes(s, "writable")
  BY <1>1, <1>2, <1>3 DEF MayWrite, Role, Nobody
<1>10. MayWrite([s EXCEPT !.readOnly = FALSE]) /\ s.role = "admin" => Passes(s, "admin")
  BY <1>2
<1> DEFINE Agrees(route) ==
        CASE route.effect = "write" -> Open(s, route) = MayWrite(s)
          [] route.effect = "writeBySQL" ->
                Open(s, route) = (MayWrite(s) /\ (s.auth = "local" => s.mirror # "denies"))
          [] route.effect = "administer" ->
                Open(s, route) = (MayWrite(s) /\ (s.auth = "local" => s.role = "admin"))
          [] route.effect = "configure" -> MayWrite([s EXCEPT !.readOnly = FALSE]) /\ s.role = "admin"
                                           => Open(s, route)
          [] route.effect = "read" ->
                Open(s, route) = (s.auth = "none" \/ s.role # Nobody \/ ~s.readsNeedLogin)
          [] OTHER -> Open(s, route)
<1>11. ASSUME NEW route \in Routes PROVE Agrees(route)
  <2>1. /\ Open(s, route) \in BOOLEAN /\ MayWrite(s) \in BOOLEAN
        /\ Open(s, route) <=> \A gate \in route.gates : Passes(s, gate)
    BY <1>1 DEF Open, MayWrite
  <2>2. CASE route.effect = "write" /\ route.gates = {"writable", "login"}
    BY <1>6, <2>1, <2>2
  <2>3. CASE route.effect = "write" /\ route.gates = {"reads", "inline"}
    BY <1>7, <2>1, <2>3
  <2>4. CASE route.effect = "writeBySQL" /\ route.gates = {"reads", "editor"}
    BY <1>8, <2>1, <2>4
  <2>5. CASE route.effect = "administer" /\ route.gates = {"admin", "writable"}
    BY <1>9, <2>1, <2>5
  <2>6. CASE route.effect = "configure" /\ route.gates = {"admin"}
    BY <1>10, <2>1, <2>6
  <2>7. CASE route.effect = "read" /\ route.gates = {"reads"}
    BY <1>2, <2>1, <2>7
  <2>8. CASE route.effect = "none" /\ route.gates = {}
    BY <2>1, <2>8
  <2>9. \/ route.effect = "write" /\ route.gates \in {{"writable", "login"}, {"reads", "inline"}}
        \/ route.effect = "writeBySQL" /\ route.gates = {"reads", "editor"}
        \/ route.effect = "administer" /\ route.gates = {"admin", "writable"}
        \/ route.effect = "configure" /\ route.gates = {"admin"}
        \/ route.effect = "read" /\ route.gates = {"reads"}
        \/ route.effect = "none" /\ route.gates = {}
    <3> HIDE DEF Agrees
    <3> QED BY DEF Routes
  <2> HIDE DEF Agrees
  <2> QED BY <2>2, <2>3, <2>4, <2>5, <2>6, <2>7, <2>8, <2>9
<1> QED BY <1>11 DEF SameRule

----------------------------------------------------------------------------
(* Windows *)

Lesser(a, b) == IF a < b THEN a ELSE b

\* The part of a window that lies in the first k rows.
Window(rows, from, size, k) == SubSeq(rows, from + 1, Lesser(k, from + size))

\* A row more is appended, unless it is before or after the window.
LEMMA WindowGrows ==
    ASSUME NEW T, NEW rows \in Seq(T), NEW from \in Nat, NEW size \in Nat, NEW k \in 0..(Len(rows) - 1)
    PROVE  /\ k < from \/ from + size <= k => Window(rows, from, size, k + 1) = Window(rows, from, size, k)
           /\ from <= k /\ k < from + size
              => Window(rows, from, size, k + 1) = Append(Window(rows, from, size, k), rows[k + 1])
           /\ from <= k => Len(Window(rows, from, size, k)) = Lesser(k, from + size) - from
           /\ Window(rows, from, size, k) \in Seq(T)
BY DEF Window, Lesser

\* What a reader of windows is to return.
WindowResult(rows, offset, limit) ==
    LET end == AtLeastNone(offset) + OrDefault(limit)
    IN  [rows |-> Window(rows, AtLeastNone(offset), OrDefault(limit), Len(rows)), more |-> end < Len(rows)]

ScanStep(S, rows, from, size) == [p \in S \X (1..Len(rows)) |-> ScanRow(p[1], rows[p[2]], from, size)]

\* The loop of scanRowsWindow is a fold.
LEMMA ScanFold ==
    ASSUME NEW T, NEW rows \in Seq(T), NEW from, NEW size, NEW S, ScanStart \in S,
           \A st \in S, row \in T : ScanRow(st, row, from, size) \in S
    PROVE  \E iter : /\ IsFold(iter, S, ScanStart, Len(rows), ScanStep(S, rows, from, size))
                     /\ ScanRows(rows, from, size) = iter[1..Len(rows)]
<1> DEFINE n == Len(rows)
           F == ScanStep(S, rows, from, size)
           Iterates(g) == g = [s \in SUBSET DOMAIN rows |->
                        IF s = {} THEN ScanStart ELSE ScanRow(g[s \ {Max(s)}], rows[Max(s)], from, size)]
           iter == CHOOSE g : Iterates(g)
<1>1. n \in Nat /\ DOMAIN rows = 1..n /\ \A k \in 1..n : rows[k] \in T
  OBVIOUS
<1>2. F \in [S \X (1..n) -> S]
  BY <1>1 DEF ScanStep
<1>3. PICK g : IsFold(g, S, ScanStart, n, F)
  <2> HIDE DEF n, F
  <2> QED BY <1>1, <1>2, FoldExists
<1>4. ASSUME NEW s \in SUBSET (1..n), s # {}, NEW v \in S
      PROVE  /\ F[<<v, Max(s)>>] = ScanRow(v, rows[Max(s)], from, size)
             /\ ScanRow(v, rows[Max(s)], from, size) \in S
  <2>1. Max(s) \in 1..n
    <3> HIDE DEF n
    <3> QED BY <1>1, <1>4, MaxIn
  <2> QED BY <1>1, <2>1 DEF ScanStep
<1>5. Iterates(g)
  <2> HIDE DEF F
  <2> QED BY <1>1, <1>3, <1>4 DEF IsFold
<1>6. Iterates(iter)
  <2> HIDE DEF Iterates
  <2> QED BY <1>5
<1>7. IsFold(iter, S, ScanStart, n, F)
  <2> HIDE DEF iter, F, n
  <2>1. iter[{}] = ScanStart
    BY <1>1, <1>6
  <2>2. \A s \in SUBSET (1..n) : s # {} => iter[s] = ScanRow(iter[s \ {Max(s)}], rows[Max(s)], from, size)
    BY <1>1, <1>6
  <2> HIDE DEF Iterates
  <2>3. \A s \in SUBSET (1..n) : s # {} /\ iter[s \ {Max(s)}] \in S => iter[s] \in S
    BY <1>4, <2>2
  <2>4. \A s \in SUBSET (1..n) : iter[s] \in S
    <3>1. iter[{}] \in S
      BY <1>1, <2>1
    <3>2. n \in Nat
      BY <1>1
    <3> QED BY ONLY <2>3, <3>1, <3>2, FoldStays
  <2>5. iter \in [SUBSET (1..n) -> S]
    BY <1>1, <1>6, <2>4 DEF Iterates
  <2>6. ASSUME NEW s \in SUBSET (1..n), s # {} PROVE iter[s] = F[<<iter[s \ {Max(s)}], Max(s)>>]
    <3>1. iter[s \ {Max(s)}] \in S
      BY <2>4
    <3> QED BY <1>4, <2>2, <2>6, <3>1
  <2> QED BY <2>1, <2>5, <2>6 DEF IsFold
<1>8. ScanRows(rows, from, size) = iter[1..n]
  BY <1>1 DEF ScanRows, FoldLeft, MapThenFoldSet
<1> HIDE DEF iter
<1> QED BY <1>7, <1>8

\* The states of the loop of scanRowsWindow, and what is known of one after k rows.
ScanState(T) == [seen : Nat, rows : Seq(T), more : BOOLEAN]

Scanned(st, k, rows, from, size) ==
    /\ st.rows = Window(rows, from, size, k)
    /\ st.seen = Lesser(k, from + size)
    /\ st.more <=> k > from + size

\* One more row is read.
LEMMA ScanRowReads ==
    ASSUME NEW T, NEW rows \in Seq(T), NEW from \in Nat, NEW size \in Nat, NEW st \in ScanState(T)
    PROVE  /\ \A row \in T : ScanRow(st, row, from, size) \in ScanState(T)
           /\ \A k \in 0..(Len(rows) - 1) :
                Scanned(st, k, rows, from, size)
                => Scanned(ScanRow(st, rows[k + 1], from, size), k + 1, rows, from, size)
<1>1. st.seen \in Nat /\ st.rows \in Seq(T) /\ st.more \in BOOLEAN
  BY DEF ScanState
<1> DEFINE skipped == [st EXCEPT !.seen = @ + 1]
           full == [st EXCEPT !.more = TRUE]
           taken(row) == [st EXCEPT !.rows = Append(@, row), !.seen = @ + 1]
<1>2. skipped \in ScanState(T) /\ skipped.seen = st.seen + 1 /\ skipped.rows = st.rows /\ skipped.more = st.more
  BY <1>1 DEF ScanState
<1>3. full \in ScanState(T) /\ full.seen = st.seen /\ full.rows = st.rows /\ full.more = TRUE
  BY <1>1 DEF ScanState
<1>4. ASSUME NEW row \in T
      PROVE  /\ taken(row) \in ScanState(T) /\ taken(row).seen = st.seen + 1
             /\ taken(row).rows = Append(st.rows, row) /\ taken(row).more = st.more
  <2>1. Append(st.rows, row) \in Seq(T) /\ st.seen + 1 \in Nat
    BY <1>1
  <2> QED BY <1>1, <2>1 DEF ScanState
<1>5. ASSUME NEW row \in T
      PROVE  ScanRow(st, row, from, size) = IF st.more THEN st ELSE IF st.seen < from THEN skipped
                                            ELSE IF Len(st.rows) >= size THEN full ELSE taken(row)
  BY DEF ScanRow
<1> HIDE DEF skipped, full, taken
<1>6. ASSUME NEW k \in 0..(Len(rows) - 1), Scanned(st, k, rows, from, size)
      PROVE  Scanned(ScanRow(st, rows[k + 1], from, size), k + 1, rows, from, size)
  <2>1. rows[k + 1] \in T
    OBVIOUS
  <2>2. CASE k < from
    <3>1. ~st.more /\ st.seen = k
      BY <1>6, <2>2 DEF Scanned, Lesser
    <3>2. ScanRow(st, rows[k + 1], from, size) = skipped
      BY <1>5, <2>1, <2>2, <3>1
    <3> QED BY <1>2, <1>6, <2>2, <3>1, <3>2, WindowGrows DEF Scanned, Lesser
  <2>3. CASE from <= k /\ k < from + size
    <3>1. ~st.more /\ st.seen = k /\ st.rows = Window(rows, from, size, k)
      BY <1>6, <2>3 DEF Scanned, Lesser
    <3>2. Len(st.rows) = k - from
      BY <2>3, <3>1, WindowGrows DEF Lesser
    <3>3. ScanRow(st, rows[k + 1], from, size) = taken(rows[k + 1])
      BY <1>5, <2>1, <2>3, <3>1, <3>2
    <3>4. Window(rows, from, size, k + 1) = Append(st.rows, rows[k + 1])
      BY <2>3, <3>1, WindowGrows
    <3>5. taken(rows[k + 1]).seen = k + 1 /\ taken(rows[k + 1]).rows = Append(st.rows, rows[k + 1])
      BY <1>4, <2>1, <3>1
    <3>6. ~taken(rows[k + 1]).more
      BY <1>4, <2>1, <3>1
    <3> QED BY <2>3, <3>3, <3>4, <3>5, <3>6 DEF Scanned, Lesser
  <2>4. CASE k = from + size
    <3>1. Len(st.rows) = size /\ ~st.more /\ st.seen = k
      BY <1>6, <2>4, WindowGrows DEF Scanned, Lesser
    <3>2. ScanRow(st, rows[k + 1], from, size) = full
      BY <1>5, <2>1, <2>4, <3>1
    <3> QED BY <1>3, <1>6, <2>4, <3>2, WindowGrows DEF Scanned, Lesser
  <2>5. CASE from + size < k
    <3>1. ScanRow(st, rows[k + 1], from, size) = st
      BY <1>5, <1>6, <2>1, <2>5 DEF Scanned
    <3> QED BY <1>6, <2>5, <3>1, WindowGrows DEF Scanned, Lesser
  <2> QED BY <2>2, <2>3, <2>4, <2>5
<1> QED BY <1>2, <1>3, <1>4, <1>5, <1>6

\* scanRowsWindow returns the window, ...
LEMMA ScanWindowReads ==
    ASSUME NEW T, NEW rows \in Seq(T), NEW offset \in Int, NEW limit \in Int, DefaultLimit \in Nat
    PROVE  ScanWindow(rows, offset, limit) = WindowResult(rows, offset, limit)
<1> DEFINE n == Len(rows)
           from == AtLeastNone(offset)
           size == OrDefault(limit)
           S == ScanState(T)
           F == ScanStep(S, rows, from, size)
           P == {w \in (0..n) \X S : Scanned(w[2], w[1], rows, from, size)}
<1>1. n \in Nat /\ from \in Nat /\ size \in Nat /\ \A k \in 1..n : rows[k] \in T
  BY DEF AtLeastNone, OrDefault
<1> HIDE DEF from, size
<1>2. ScanStart \in S /\ Scanned(ScanStart, 0, rows, from, size)
  <2>1. Lesser(0, from + size) = 0 /\ Window(rows, from, size, 0) = <<>>
    BY <1>1 DEF Window, Lesser
  <2>2. <<>> \in Seq(T)
    OBVIOUS
  <2> QED BY <1>1, <2>1, <2>2 DEF ScanState, ScanStart, Scanned
<1>3. \A st \in S, row \in T : ScanRow(st, row, from, size) \in S
  BY <1>1, ScanRowReads
<1>4. PICK iter : IsFold(iter, S, ScanStart, n, F) /\ ScanRows(rows, from, size) = iter[1..n]
  <2> HIDE DEF S
  <2> QED BY <1>2, <1>3, ScanFold
<1>5. F \in [S \X (1..n) -> S]
  <2> HIDE DEF S
  <2> QED BY <1>1, <1>3 DEF ScanStep
<1>6. Keeps(F, n, S, P)
  <2> SUFFICES ASSUME NEW k \in 0..(n - 1), NEW v \in S, <<k, v>> \in P
               PROVE <<k + 1, F[<<v, k + 1>>]>> \in P
    <3> HIDE DEF S, F, n, P
    <3> QED BY DEF Keeps
  <2>1. k + 1 \in 1..n
    BY <1>1
  <2>2. F[<<v, k + 1>>] = ScanRow(v, rows[k + 1], from, size)
    <3> HIDE DEF S
    <3> QED BY <2>1 DEF ScanStep
  <2>3. Scanned(ScanRow(v, rows[k + 1], from, size), k + 1, rows, from, size)
    BY <1>1, ScanRowReads
  <2>4. ScanRow(v, rows[k + 1], from, size) \in S
    <3> HIDE DEF S, n
    <3> QED BY <1>1, <1>3, <2>1
  <2> HIDE DEF S, F
  <2> QED BY <2>1, <2>2, <2>3, <2>4
<1>7. <<0, ScanStart>> \in P
  <2> HIDE DEF S
  <2> QED BY <1>1, <1>2
<1>8. <<n, iter[1..n]>> \in P
  <2> HIDE DEF S, n, F, P
  <2> QED BY <1>1, <1>2, <1>4, <1>5, <1>6, <1>7, FoldKeeps
<1>9. ScanWindow(rows, offset, limit) = [rows |-> iter[1..n].rows, more |-> iter[1..n].more]
  BY <1>4 DEF ScanWindow, from, size
<1>10. Scanned(iter[1..n], n, rows, from, size) /\ iter[1..n].more \in BOOLEAN
  BY <1>8 DEF ScanState
<1> QED BY <1>1, <1>9, <1>10 DEF WindowResult, Scanned, from, size

StreamStep(S, rows, size) == [p \in S \X (1..Len(rows)) |-> StreamRow(p[1], rows[p[2]], size)]

\* The loop of queryTinySQLRowsWindow is a fold.
LEMMA StreamFold ==
    ASSUME NEW T, NEW rows \in Seq(T), NEW from, NEW size, NEW S, StreamStart(from) \in S,
           \A st \in S, row \in T : StreamRow(st, row, size) \in S
    PROVE  \E iter : /\ IsFold(iter, S, StreamStart(from), Len(rows), StreamStep(S, rows, size))
                     /\ StreamRows(rows, from, size) = iter[1..Len(rows)]
<1> DEFINE n == Len(rows)
           F == StreamStep(S, rows, size)
           Iterates(g) == g = [s \in SUBSET DOMAIN rows |->
                        IF s = {} THEN StreamStart(from) ELSE StreamRow(g[s \ {Max(s)}], rows[Max(s)], size)]
           iter == CHOOSE g : Iterates(g)
<1>1. n \in Nat /\ DOMAIN rows = 1..n /\ \A k \in 1..n : rows[k] \in T
  OBVIOUS
<1>2. F \in [S \X (1..n) -> S]
  BY <1>1 DEF StreamStep
<1>3. PICK g : IsFold(g, S, StreamStart(from), n, F)
  <2> HIDE DEF n, F
  <2> QED BY <1>1, <1>2, FoldExists
<1>4. ASSUME NEW s \in SUBSET (1..n), s # {}, NEW v \in S
      PROVE  /\ F[<<v, Max(s)>>] = StreamRow(v, rows[Max(s)], size)
             /\ StreamRow(v, rows[Max(s)], size) \in S
  <2>1. Max(s) \in 1..n
    <3> HIDE DEF n
    <3> QED BY <1>1, <1>4, MaxIn
  <2> QED BY <1>1, <2>1 DEF StreamStep
<1>5. Iterates(g)
  <2> HIDE DEF F
  <2> QED BY <1>1, <1>3, <1>4 DEF IsFold
<1>6. Iterates(iter)
  <2> HIDE DEF Iterates
  <2> QED BY <1>5
<1>7. IsFold(iter, S, StreamStart(from), n, F)
  <2> HIDE DEF iter, F, n
  <2>1. iter[{}] = StreamStart(from)
    BY <1>1, <1>6
  <2>2. \A s \in SUBSET (1..n) : s # {} => iter[s] = StreamRow(iter[s \ {Max(s)}], rows[Max(s)], size)
    BY <1>1, <1>6
  <2> HIDE DEF Iterates
  <2>3. \A s \in SUBSET (1..n) : s # {} /\ iter[s \ {Max(s)}] \in S => iter[s] \in S
    BY <1>4, <2>2
  <2>4. \A s \in SUBSET (1..n) : iter[s] \in S
    <3>1. iter[{}] \in S
      BY <1>1, <2>1
    <3>2. n \in Nat
      BY <1>1
    <3> QED BY ONLY <2>3, <3>1, <3>2, FoldStays
  <2>5. iter \in [SUBSET (1..n) -> S]
    BY <1>1, <1>6, <2>4 DEF Iterates
  <2>6. ASSUME NEW s \in SUBSET (1..n), s # {} PROVE iter[s] = F[<<iter[s \ {Max(s)}], Max(s)>>]
    <3>1. iter[s \ {Max(s)}] \in S
      BY <2>4
    <3> QED BY <1>4, <2>2, <2>6, <3>1
  <2> QED BY <2>1, <2>5, <2>6 DEF IsFold
<1>8. StreamRows(rows, from, size) = iter[1..n]
  BY <1>1 DEF StreamRows, FoldLeft, MapThenFoldSet
<1> HIDE DEF iter
<1> QED BY <1>7, <1>8


\* The states of the loop of queryTinySQLRowsWindow, and what is known of one after k rows.
StreamState(T) == [skip : Nat, rows : Seq(T), more : BOOLEAN, done : BOOLEAN]

Streamed(st, k, rows, from, size) ==
    /\ st.rows = Window(rows, from, size, k)
    /\ st.skip = IF k < from THEN from - k ELSE 0
    /\ st.more <=> k > from + size
    /\ st.done <=> k > from + size

\* One more row is read.
LEMMA StreamRowReads ==
    ASSUME NEW T, NEW rows \in Seq(T), NEW from \in Nat, NEW size \in Nat, NEW st \in StreamState(T)
    PROVE  /\ \A row \in T : StreamRow(st, row, size) \in StreamState(T)
           /\ \A k \in 0..(Len(rows) - 1) :
                Streamed(st, k, rows, from, size)
                => Streamed(StreamRow(st, rows[k + 1], size), k + 1, rows, from, size)
<1>1. st.skip \in Nat /\ st.rows \in Seq(T) /\ st.more \in BOOLEAN /\ st.done \in BOOLEAN
  BY DEF StreamState
<1> DEFINE skipped == [st EXCEPT !.skip = @ - 1]
           full == [st EXCEPT !.more = TRUE, !.done = TRUE]
           taken(row) == [st EXCEPT !.rows = Append(@, row)]
<1>2. /\ st.skip > 0 => skipped \in StreamState(T)
      /\ skipped.skip = st.skip - 1 /\ skipped.rows = st.rows
      /\ skipped.more = st.more /\ skipped.done = st.done
  BY <1>1 DEF StreamState
<1>3. /\ full \in StreamState(T) /\ full.skip = st.skip /\ full.rows = st.rows
      /\ full.more = TRUE /\ full.done = TRUE
  BY <1>1 DEF StreamState
<1>4. ASSUME NEW row \in T
      PROVE  /\ taken(row) \in StreamState(T) /\ taken(row).skip = st.skip
             /\ taken(row).rows = Append(st.rows, row)
             /\ taken(row).more = st.more /\ taken(row).done = st.done
  <2>1. Append(st.rows, row) \in Seq(T)
    BY <1>1
  <2> QED BY <1>1, <2>1 DEF StreamState
<1>5. ASSUME NEW row \in T
      PROVE  StreamRow(st, row, size) = IF st.done THEN st ELSE IF st.skip > 0 THEN skipped
                                        ELSE IF Len(st.rows) = size THEN full ELSE taken(row)
  BY DEF StreamRow
<1> HIDE DEF skipped, full, taken
<1>6. ASSUME NEW k \in 0..(Len(rows) - 1), Streamed(st, k, rows, from, size)
      PROVE  Streamed(StreamRow(st, rows[k + 1], size), k + 1, rows, from, size)
  <2>1. rows[k + 1] \in T
    OBVIOUS
  <2>2. CASE k < from
    <3>1. ~st.done /\ ~st.more /\ st.skip = from - k
      BY <1>6, <2>2 DEF Streamed
    <3>2. StreamRow(st, rows[k + 1], size) = skipped
      BY <1>5, <2>1, <2>2, <3>1
    <3>3. st.rows = Window(rows, from, size, k + 1)
      BY <1>6, <2>2, WindowGrows DEF Streamed
    <3> QED BY <1>2, <2>2, <3>1, <3>2, <3>3 DEF Streamed
  <2>3. CASE from <= k /\ k < from + size
    <3>1. ~st.done /\ ~st.more /\ st.skip = 0 /\ st.rows = Window(rows, from, size, k)
      BY <1>6, <2>3 DEF Streamed
    <3>2. Len(st.rows) = k - from
      BY <2>3, <3>1, WindowGrows DEF Lesser
    <3>3. StreamRow(st, rows[k + 1], size) = taken(rows[k + 1])
      BY <1>5, <2>1, <2>3, <3>1, <3>2
    <3>4. Window(rows, from, size, k + 1) = Append(st.rows, rows[k + 1])
      BY <2>3, <3>1, WindowGrows
    <3>5. taken(rows[k + 1]).skip = 0 /\ taken(rows[k + 1]).rows = Append(st.rows, rows[k + 1])
      BY <1>4, <2>1, <3>1
    <3>6. ~taken(rows[k + 1]).more /\ ~taken(rows[k + 1]).done
      BY <1>4, <2>1, <3>1
    <3> QED BY <2>3, <3>3, <3>4, <3>5, <3>6 DEF Streamed
  <2>4. CASE k = from + size
    <3>1. ~st.done /\ st.skip = 0 /\ st.rows = Window(rows, from, size, k)
      BY <1>6, <2>4 DEF Streamed
    <3>2. Len(st.rows) = size
      BY <2>4, <3>1, WindowGrows DEF Lesser
    <3>3. StreamRow(st, rows[k + 1], size) = full
      BY <1>5, <2>1, <2>4, <3>1, <3>2
    <3>4. Window(rows, from, size, k + 1) = st.rows
      BY <2>4, <3>1, WindowGrows
    <3> QED BY <1>3, <2>4, <3>1, <3>3, <3>4 DEF Streamed
  <2>5. CASE from + size < k
    <3>1. StreamRow(st, rows[k + 1], size) = st
      BY <1>5, <1>6, <2>1, <2>5 DEF Streamed
    <3>2. Window(rows, from, size, k + 1) = Window(rows, from, size, k)
      BY <2>5, WindowGrows
    <3> QED BY <1>6, <2>5, <3>1, <3>2 DEF Streamed
  <2> QED BY <2>2, <2>3, <2>4, <2>5
<1> QED BY <1>1, <1>2, <1>3, <1>4, <1>5, <1>6

\* ... and so does queryTinySQLRowsWindow ...
LEMMA StreamWindowReads ==
    ASSUME NEW T, NEW rows \in Seq(T), NEW offset \in Int, NEW limit \in Int, DefaultLimit \in Nat
    PROVE  StreamWindow(rows, offset, limit) = WindowResult(rows, offset, limit)
<1> DEFINE n == Len(rows)
           from == AtLeastNone(offset)
           size == OrDefault(limit)
           S == StreamState(T)
           F == StreamStep(S, rows, size)
           P == {w \in (0..n) \X S : Streamed(w[2], w[1], rows, from, size)}
<1>1. n \in Nat /\ from \in Nat /\ size \in Nat /\ \A k \in 1..n : rows[k] \in T
  BY DEF AtLeastNone, OrDefault
<1> HIDE DEF from, size
<1>2. StreamStart(from) \in S /\ Streamed(StreamStart(from), 0, rows, from, size)
  <2>1. Lesser(0, from + size) = 0 /\ Window(rows, from, size, 0) = <<>>
    BY <1>1 DEF Window, Lesser
  <2>2. <<>> \in Seq(T)
    OBVIOUS
  <2> QED BY <1>1, <2>1, <2>2 DEF StreamState, StreamStart, Streamed
<1>3. \A st \in S, row \in T : StreamRow(st, row, size) \in S
  BY <1>1, StreamRowReads
<1>4. PICK iter : IsFold(iter, S, StreamStart(from), n, F) /\ StreamRows(rows, from, size) = iter[1..n]
  <2> HIDE DEF S
  <2> QED BY <1>2, <1>3, StreamFold
<1>5. F \in [S \X (1..n) -> S]
  <2> HIDE DEF S
  <2> QED BY <1>1, <1>3 DEF StreamStep
<1>6. Keeps(F, n, S, P)
  <2> SUFFICES ASSUME NEW k \in 0..(n - 1), NEW v \in S, <<k, v>> \in P
               PROVE <<k + 1, F[<<v, k + 1>>]>> \in P
    <3> HIDE DEF S, F, n, P
    <3> QED BY DEF Keeps
  <2>1. k + 1 \in 1..n
    BY <1>1
  <2>2. F[<<v, k + 1>>] = StreamRow(v, rows[k + 1], size)
    <3> HIDE DEF S
    <3> QED BY <2>1 DEF StreamStep
  <2>3. Streamed(StreamRow(v, rows[k + 1], size), k + 1, rows, from, size)
    BY <1>1, StreamRowReads
  <2>4. StreamRow(v, rows[k + 1], size) \in S
    <3> HIDE DEF S, n
    <3> QED BY <1>1, <1>3, <2>1
  <2> HIDE DEF S, F
  <2> QED BY <2>1, <2>2, <2>3, <2>4
<1>7. <<0, StreamStart(from)>> \in P
  <2> HIDE DEF S
  <2> QED BY <1>1, <1>2
<1>8. <<n, iter[1..n]>> \in P
  <2> HIDE DEF S, n, F, P
  <2> QED BY <1>1, <1>2, <1>4, <1>5, <1>6, <1>7, FoldKeeps
<1>9. StreamWindow(rows, offset, limit) = [rows |-> iter[1..n].rows, more |-> iter[1..n].more]
  BY <1>4 DEF StreamWindow, from, size
<1>10. Streamed(iter[1..n], n, rows, from, size) /\ iter[1..n].more \in BOOLEAN
  BY <1>8 DEF StreamState
<1> QED BY <1>1, <1>9, <1>10 DEF WindowResult, Streamed, from, size

\* ... and sliceRowsWindow.
LEMMA SliceWindowReads ==
    ASSUME NEW T, NEW rows \in Seq(T), NEW offset \in Int, NEW limit \in Int, DefaultLimit \in Nat
    PROVE  SliceWindow(rows, offset, limit) = WindowResult(rows, offset, limit)
<1> DEFINE from == AtLeastNone(offset)
           size == OrDefault(limit)
<1>1. from \in Nat /\ size \in Nat /\ Len(rows) \in Nat
  BY DEF AtLeastNone, OrDefault
<1>2. SliceWindow(rows, offset, limit)
        = IF from >= Len(rows) THEN [rows |-> <<>>, more |-> FALSE]
          ELSE [rows |-> SubSeq(rows, from + 1, IF from + size > Len(rows) THEN Len(rows) ELSE from + size),
                more |-> from + size < Len(rows)]
  BY DEF SliceWindow
<1>3. WindowResult(rows, offset, limit)
        = [rows |-> SubSeq(rows, from + 1, Lesser(Len(rows), from + size)), more |-> from + size < Len(rows)]
  BY DEF WindowResult, Window
<1> HIDE DEF from, size
<1>4. from >= Len(rows) => SubSeq(rows, from + 1, Lesser(Len(rows), from + size)) = <<>>
  BY <1>1 DEF Lesser
<1>5. CASE from >= Len(rows)
  <2>1. (from + size < Len(rows)) = FALSE
    BY <1>1, <1>5
  <2> QED BY <1>2, <1>3, <1>4, <1>5, <2>1
<1>6. CASE ~(from >= Len(rows))
  <2>1. (IF from + size > Len(rows) THEN Len(rows) ELSE from + size) = Lesser(Len(rows), from + size)
    BY <1>1 DEF Lesser
  <2> QED BY <1>2, <1>3, <1>6, <2>1
<1> QED BY <1>5, <1>6

WalkStep(S, rows, limit) == [p \in S \X (1..Len(rows) + 1) |-> NextWindow(p[1], p[2], rows, limit)]

\* The loop of a walk is a fold.
LEMMA WalkFold ==
    ASSUME NEW T, NEW rows \in Seq(T), NEW limit, NEW S, WalkStart \in S,
           \A st \in S, k \in 1..Len(rows) + 1 : NextWindow(st, k, rows, limit) \in S
    PROVE  \E iter : /\ IsFold(iter, S, WalkStart, Len(rows) + 1, WalkStep(S, rows, limit))
                     /\ Walk(rows, limit) = iter[1..Len(rows) + 1]
<1> DEFINE n == Len(rows) + 1
           ks == [k \in 1..Len(rows) + 1 |-> k]
           F == WalkStep(S, rows, limit)
           Iterates(g) == g = [s \in SUBSET DOMAIN ks |->
                        IF s = {} THEN WalkStart ELSE NextWindow(g[s \ {Max(s)}], ks[Max(s)], rows, limit)]
           iter == CHOOSE g : Iterates(g)
<1>1. n \in Nat /\ DOMAIN ks = 1..n /\ \A k \in 1..n : ks[k] = k
  OBVIOUS
<1>2. F \in [S \X (1..n) -> S]
  BY <1>1 DEF WalkStep
<1>3. PICK g : IsFold(g, S, WalkStart, n, F)
  <2> HIDE DEF n, F
  <2> QED BY <1>1, <1>2, FoldExists
<1>4. ASSUME NEW s \in SUBSET (1..n), s # {}, NEW v \in S
      PROVE  /\ F[<<v, Max(s)>>] = NextWindow(v, ks[Max(s)], rows, limit)
             /\ NextWindow(v, ks[Max(s)], rows, limit) \in S
  <2>1. Max(s) \in 1..n
    <3> HIDE DEF n
    <3> QED BY <1>1, <1>4, MaxIn
  <2> QED BY <1>1, <2>1 DEF WalkStep
<1>5. Iterates(g)
  <2> HIDE DEF F, ks
  <2> QED BY <1>1, <1>3, <1>4 DEF IsFold
<1>6. Iterates(iter)
  <2> HIDE DEF Iterates
  <2> QED BY <1>5
<1>7. IsFold(iter, S, WalkStart, n, F)
  <2> HIDE DEF iter, F, n, ks
  <2>1. iter[{}] = WalkStart
    BY <1>1, <1>6
  <2>2. \A s \in SUBSET (1..n) : s # {} => iter[s] = NextWindow(iter[s \ {Max(s)}], ks[Max(s)], rows, limit)
    BY <1>1, <1>6
  <2> HIDE DEF Iterates
  <2>3. \A s \in SUBSET (1..n) : s # {} /\ iter[s \ {Max(s)}] \in S => iter[s] \in S
    BY <1>4, <2>2
  <2>4. \A s \in SUBSET (1..n) : iter[s] \in S
    <3>1. iter[{}] \in S
      BY <1>1, <2>1
    <3>2. n \in Nat
      BY <1>1
    <3> QED BY ONLY <2>3, <3>1, <3>2, FoldStays
  <2>5. iter \in [SUBSET (1..n) -> S]
    BY <1>1, <1>6, <2>4 DEF Iterates
  <2>6. ASSUME NEW s \in SUBSET (1..n), s # {} PROVE iter[s] = F[<<iter[s \ {Max(s)}], Max(s)>>]
    <3>1. iter[s \ {Max(s)}] \in S
      BY <2>4
    <3> QED BY <1>4, <2>2, <2>6, <3>1
  <2> QED BY <2>1, <2>5, <2>6 DEF IsFold
<1>8. Walk(rows, limit) = iter[1..n]
  BY <1>1 DEF Walk, FoldLeft, MapThenFoldSet
<1> HIDE DEF iter
<1> QED BY <1>7, <1>8


\* The states of a walk, and what is known of one after k windows: as long as there are
\* more it has their rows, and then it has all.
WalkState(T) == [rows : Seq(T), done : BOOLEAN, asked : Nat]

Windows(rows, limit) == IF rows = <<>> THEN 1 ELSE (Len(rows) + limit - 1) \div limit

Walked(st, k, rows, limit) ==
    /\ ~st.done => st.rows = SubSeq(rows, 1, k * limit) /\ (k = 0 \/ k * limit < Len(rows))
    /\ st.done => st.rows = rows /\ st.asked = Windows(rows, limit)

\* A number that lies between two multiples.
LEMMA RoundedUp ==
    ASSUME NEW n \in Nat, NEW l \in Nat \ {0}, NEW k \in Nat, k * l < n, n <= (k + 1) * l
    PROVE  (n + l - 1) \div l = k + 1
OBVIOUS

\* Two parts of a sequence that meet.
LEMMA PartsMeet ==
    ASSUME NEW T, NEW q \in Seq(T), NEW a \in 0..Len(q), NEW b \in a..Len(q)
    PROVE  SubSeq(q, 1, a) \o SubSeq(q, a + 1, b) = SubSeq(q, 1, b)
OBVIOUS

\* One window more.
LEMMA WindowWalked ==
    ASSUME NEW T, NEW rows \in Seq(T), NEW limit \in Nat \ {0}, DefaultLimit \in Nat,
           NEW st \in WalkState(T), NEW k \in Nat
    PROVE  /\ NextWindow(st, k + 1, rows, limit) \in WalkState(T)
           /\ Walked(st, k, rows, limit) => Walked(NextWindow(st, k + 1, rows, limit), k + 1, rows, limit)
<1> DEFINE n == Len(rows)
           at == Len(st.rows)
           w == ScanWindow(rows, at, limit)
           next == [rows |-> st.rows \o w.rows, done |-> ~w.more, asked |-> k + 1]
<1>1. n \in Nat /\ at \in Nat /\ st.rows \in Seq(T) /\ st.done \in BOOLEAN
  BY DEF WalkState
<1>2. w = [rows |-> SubSeq(rows, at + 1, Lesser(n, at + limit)), more |-> at + limit < n]
  <2>1. w = WindowResult(rows, at, limit)
    BY <1>1, ScanWindowReads
  <2>2. AtLeastNone(at) = at /\ OrDefault(limit) = limit
    BY <1>1 DEF AtLeastNone, OrDefault
  <2> HIDE DEF w, at
  <2> QED BY <2>1, <2>2 DEF WindowResult, Window
<1>3. w.rows = SubSeq(rows, at + 1, Lesser(n, at + limit)) /\ w.more = (at + limit < n)
  <2> HIDE DEF w
  <2> QED BY <1>2
<1>4. w.rows \in Seq(T)
  <2> HIDE DEF w, at
  <2> QED BY <1>1, <1>3 DEF Lesser
<1>5. NextWindow(st, k + 1, rows, limit) = IF st.done THEN st ELSE next
  BY DEF NextWindow
<1>6. NextWindow(st, k + 1, rows, limit) \in WalkState(T)
  <2>1. st.rows \o w.rows \in Seq(T)
    <3> HIDE DEF w
    <3> QED BY <1>1, <1>4
  <2>2. next \in WalkState(T)
    <3> HIDE DEF w
    <3> QED BY <2>1 DEF WalkState
  <2> QED BY <1>5, <2>2
<1>7. ASSUME Walked(st, k, rows, limit), ~st.done PROVE Walked(next, k + 1, rows, limit)
  <2> HIDE DEF w
  <2>1. k * limit \in Nat /\ (k + 1) * limit = k * limit + limit
    OBVIOUS
  <2>2. st.rows = SubSeq(rows, 1, k * limit) /\ (k = 0 \/ k * limit < n)
    BY <1>7 DEF Walked
  <2>3. at = k * limit
    <3>1. CASE k = 0
      <4>1. st.rows = <<>> /\ k * limit = 0
        BY <2>2, <3>1
      <4> QED BY <4>1
    <3>2. CASE k * limit < n
      <4> DEFINE m == k * limit
      <4>1. m \in 0..n /\ st.rows = SubSeq(rows, 1, m)
        BY <1>1, <2>1, <2>2, <3>2
      <4> HIDE DEF m
      <4>2. Len(st.rows) = m
        BY <1>1, <4>1
      <4> QED BY <4>2 DEF m
    <3> QED BY <2>2, <3>1, <3>2
  <2>4. at <= n
    BY <1>1, <2>1, <2>2, <2>3
  <2>5. st.rows \o w.rows = SubSeq(rows, 1, Lesser(n, at + limit))
    <3>1. st.rows = SubSeq(rows, 1, at)
      BY <2>2, <2>3
    <3> DEFINE b == Lesser(n, at + limit)
    <3>2. at \in 0..n /\ b \in at..n
      <4> HIDE DEF at
      <4> QED BY <1>1, <2>4 DEF Lesser
    <3>3. w.rows = SubSeq(rows, at + 1, b)
      BY <1>3
    <3> HIDE DEF at, b
    <3>4. SubSeq(rows, 1, at) \o SubSeq(rows, at + 1, b) = SubSeq(rows, 1, b)
      BY <3>2, PartsMeet
    <3> QED BY <3>1, <3>3, <3>4 DEF b
  <2>6. CASE at + limit < n
    <3>1. ~next.done /\ next.rows = SubSeq(rows, 1, at + limit)
      <4>1. w.more = TRUE
        BY <1>3, <2>6
      <4>2. Lesser(n, at + limit) = at + limit
        <5> HIDE DEF at
        <5> QED BY <1>1, <2>6 DEF Lesser
      <4>3. next.done = FALSE /\ next.rows = st.rows \o w.rows
        BY <4>1
      <4> HIDE DEF at, next
      <4> QED BY <2>5, <4>2, <4>3
    <3>2. (k + 1) * limit = at + limit
      BY <2>1, <2>3
    <3> HIDE DEF next, at
    <3> QED BY <2>6, <3>1, <3>2 DEF Walked
  <2>7. CASE n <= at + limit
    <3>1. next.done /\ next.rows = rows /\ next.asked = k + 1
      <4>1. ~(at + limit < n)
        BY <1>1, <2>7
      <4>2. Lesser(n, at + limit) = n
        BY <1>1, <2>7 DEF Lesser
      <4>3. SubSeq(rows, 1, n) = rows
        OBVIOUS
      <4> HIDE DEF at
      <4> QED BY <1>3, <2>5, <4>1, <4>2, <4>3
    <3>2. k + 1 = Windows(rows, limit)
      <4>1. CASE n = 0
        <5>1. k = 0 /\ rows = <<>>
          BY <2>1, <2>2, <4>1
        <5> QED BY <5>1 DEF Windows
      <4>2. CASE n # 0
        <5>1. k * limit < n
          BY <1>1, <2>2, <4>2
        <5>2. n <= (k + 1) * limit
          BY <2>1, <2>3, <2>7
        <5>3. (n + limit - 1) \div limit = k + 1
          BY <1>1, <5>1, <5>2, RoundedUp
        <5>4. rows # <<>>
          BY <4>2
        <5> QED BY <5>3, <5>4 DEF Windows
      <4> QED BY <4>1, <4>2
    <3> HIDE DEF next
    <3> QED BY <3>1, <3>2 DEF Walked
  <2> QED BY <1>1, <2>6, <2>7
<1>8. ASSUME Walked(st, k, rows, limit), st.done PROVE Walked(st, k + 1, rows, limit)
  BY <1>8 DEF Walked
<1> HIDE DEF next
<1> QED BY <1>1, <1>5, <1>6, <1>7, <1>8

\* Whichever way a window of any rows is read it has the same rows, and who goes on as long
\* as there are more sees every row once, in order, in as few windows as possible (the three
\* window readers of db.go).
THEOREM WindowsAgree ==
    ASSUME NEW T, NEW rows \in Seq(T), NEW offset \in Int, NEW wanted \in Int,
           DefaultLimit \in Nat \ {0}, MaxLimit \in Nat \ {0}
    PROVE  WindowsRight(rows, offset, wanted)
<1> DEFINE limit == ClampQueryWindowLimit(wanted)
           n == Len(rows) + 1
           S == WalkState(T)
           F == WalkStep(S, rows, limit)
           P == {w \in (0..n) \X S : Walked(w[2], w[1], rows, limit)}
<1>1. limit \in Nat \ {0} /\ n \in Nat /\ Len(rows) \in Nat
  BY DEF ClampQueryWindowLimit
<1> HIDE DEF limit
<1>2. /\ ScanWindow(rows, offset, limit) = StreamWindow(rows, offset, limit)
      /\ ScanWindow(rows, offset, limit) = SliceWindow(rows, offset, limit)
  BY <1>1, ScanWindowReads, StreamWindowReads, SliceWindowReads
<1>3. WalkStart \in S /\ Walked(WalkStart, 0, rows, limit)
  <2>1. SubSeq(rows, 1, 0 * limit) = <<>> /\ <<>> \in Seq(T)
    BY <1>1
  <2> QED BY <2>1 DEF WalkStart, WalkState, Walked
<1>4. ASSUME NEW st \in S, NEW k \in 0..(n - 1)
      PROVE  /\ NextWindow(st, k + 1, rows, limit) \in S
             /\ Walked(st, k, rows, limit) => Walked(NextWindow(st, k + 1, rows, limit), k + 1, rows, limit)
  <2>1. k \in Nat /\ DefaultLimit \in Nat
    BY <1>1
  <2> HIDE DEF n
  <2> QED BY <1>1, <2>1, WindowWalked
<1>5. \A st \in S, k \in 1..n : NextWindow(st, k, rows, limit) \in S
  <2> SUFFICES ASSUME NEW st \in S, NEW k \in 1..n PROVE NextWindow(st, k, rows, limit) \in S
    OBVIOUS
  <2>1. k - 1 \in 0..(n - 1) /\ (k - 1) + 1 = k
    BY <1>1
  <2> HIDE DEF S, n
  <2> QED BY <1>4, <2>1
<1>6. PICK iter : IsFold(iter, S, WalkStart, n, F) /\ Walk(rows, limit) = iter[1..n]
  <2> HIDE DEF S
  <2> QED BY <1>3, <1>5, WalkFold
<1>7. F \in [S \X (1..n) -> S]
  <2> HIDE DEF S
  <2> QED BY <1>5 DEF WalkStep
<1>8. Keeps(F, n, S, P)
  <2> SUFFICES ASSUME NEW k \in 0..(n - 1), NEW v \in S, <<k, v>> \in P
               PROVE <<k + 1, F[<<v, k + 1>>]>> \in P
    <3> HIDE DEF S, F, n, P
    <3> QED BY DEF Keeps
  <2>1. k + 1 \in 1..n
    BY <1>1
  <2>2. F[<<v, k + 1>>] = NextWindow(v, k + 1, rows, limit)
    <3> HIDE DEF S
    <3> QED BY <2>1 DEF WalkStep
  <2> HIDE DEF S, F
  <2> QED BY <1>1, <1>4, <2>1, <2>2
<1>9. <<0, WalkStart>> \in P
  <2> HIDE DEF S
  <2> QED BY <1>1, <1>3
<1>10. iter[1..n] \in S /\ <<n, iter[1..n]>> \in P
  <2> HIDE DEF S, n, F, P
  <2> QED BY <1>1, <1>3, <1>6, <1>7, <1>8, <1>9, FoldKeeps
<1>11. Walk(rows, limit) \in S /\ Walked(Walk(rows, limit), n, rows, limit)
  <2> HIDE DEF S
  <2> QED BY <1>6, <1>10
<1>12. Walk(rows, limit).done
  <2>1. CASE ~Walk(rows, limit).done
    <3>1. n * limit < Len(rows)
      BY <1>1, <1>11, <2>1 DEF Walked
    <3> QED BY <1>1, <3>1
  <2> QED BY <2>1
<1> QED BY <1>2, <1>11, <1>12 DEF WindowsRight, Walked, Windows, limit

----------------------------------------------------------------------------
(* Pages of a table *)

OwnStep(S, rows, owner) == [p \in S \X (1..Len(rows)) |-> IfOwn(p[1], rows[p[2]], owner)]

\* The choice of the rows of an owner is a fold.
LEMMA OwnFold ==
    ASSUME NEW T, NEW rows \in Seq(T), NEW owner, NEW S, <<>> \in S,
           \A st \in S, row \in T : IfOwn(st, row, owner) \in S
    PROVE  \E iter : /\ IsFold(iter, S, <<>>, Len(rows), OwnStep(S, rows, owner))
                     /\ OwnRows(rows, owner) = iter[1..Len(rows)]
<1> DEFINE n == Len(rows)
           F == OwnStep(S, rows, owner)
           Iterates(g) == g = [s \in SUBSET DOMAIN rows |->
                        IF s = {} THEN <<>> ELSE IfOwn(g[s \ {Max(s)}], rows[Max(s)], owner)]
           iter == CHOOSE g : Iterates(g)
<1>1. n \in Nat /\ DOMAIN rows = 1..n /\ \A k \in 1..n : rows[k] \in T
  OBVIOUS
<1>2. F \in [S \X (1..n) -> S]
  BY <1>1 DEF OwnStep
<1>3. PICK g : IsFold(g, S, <<>>, n, F)
  <2> HIDE DEF n, F
  <2> QED BY <1>1, <1>2, FoldExists
<1>4. ASSUME NEW s \in SUBSET (1..n), s # {}, NEW v \in S
      PROVE  /\ F[<<v, Max(s)>>] = IfOwn(v, rows[Max(s)], owner)
             /\ IfOwn(v, rows[Max(s)], owner) \in S
  <2>1. Max(s) \in 1..n
    <3> HIDE DEF n
    <3> QED BY <1>1, <1>4, MaxIn
  <2> QED BY <1>1, <2>1 DEF OwnStep
<1>5. Iterates(g)
  <2> HIDE DEF F
  <2> QED BY <1>1, <1>3, <1>4 DEF IsFold
<1>6. Iterates(iter)
  <2> HIDE DEF Iterates
  <2> QED BY <1>5
<1>7. IsFold(iter, S, <<>>, n, F)
  <2> HIDE DEF iter, F, n
  <2>1. iter[{}] = <<>>
    BY <1>1, <1>6
  <2>2. \A s \in SUBSET (1..n) : s # {} => iter[s] = IfOwn(iter[s \ {Max(s)}], rows[Max(s)], owner)
    BY <1>1, <1>6
  <2> HIDE DEF Iterates
  <2>3. \A s \in SUBSET (1..n) : s # {} /\ iter[s \ {Max(s)}] \in S => iter[s] \in S
    BY <1>4, <2>2
  <2>4. \A s \in SUBSET (1..n) : iter[s] \in S
    <3>1. iter[{}] \in S
      BY <1>1, <2>1
    <3>2. n \in Nat
      BY <1>1
    <3> QED BY ONLY <2>3, <3>1, <3>2, FoldStays
  <2>5. iter \in [SUBSET (1..n) -> S]
    BY <1>1, <1>6, <2>4 DEF Iterates
  <2>6. ASSUME NEW s \in SUBSET (1..n), s # {} PROVE iter[s] = F[<<iter[s \ {Max(s)}], Max(s)>>]
    <3>1. iter[s \ {Max(s)}] \in S
      BY <2>4
    <3> QED BY <1>4, <2>2, <2>6, <3>1
  <2> QED BY <2>1, <2>5, <2>6 DEF IsFold
<1>8. OwnRows(rows, owner) = iter[1..n]
  BY <1>1 DEF OwnRows, FoldLeft, MapThenFoldSet
<1> HIDE DEF iter
<1> QED BY <1>7, <1>8


\* An owner has no more rows than there are.
LEMMA OwnRowsAreRows ==
    ASSUME NEW T, NEW rows \in Seq(T), NEW owner
    PROVE  OwnRows(rows, owner) \in Seq(T) /\ Len(OwnRows(rows, owner)) <= Len(rows)
<1> DEFINE n == Len(rows)
           S == Seq(T)
           F == OwnStep(S, rows, owner)
           P == {w \in (0..n) \X S : Len(w[2]) <= w[1]}
<1>1. n \in Nat /\ <<>> \in S /\ \A k \in 1..n : rows[k] \in T
  OBVIOUS
<1>2. ASSUME NEW list \in S, NEW row \in T
      PROVE  IfOwn(list, row, owner) \in S /\ Len(IfOwn(list, row, owner)) <= Len(list) + 1
  <2>1. Append(list, row) \in S /\ Len(Append(list, row)) = Len(list) + 1 /\ Len(list) \in Nat
    OBVIOUS
  <2>2. IfOwn(list, row, owner) = Append(list, row) \/ IfOwn(list, row, owner) = list
    BY DEF IfOwn
  <2>3. Len(list) <= Len(list) + 1 /\ Len(list) + 1 <= Len(list) + 1
    BY <2>1
  <2>4. CASE IfOwn(list, row, owner) = Append(list, row)
    BY <2>1, <2>3, <2>4, Zenon
  <2>5. CASE IfOwn(list, row, owner) = list
    BY <2>1, <2>3, <2>5, Zenon
  <2> QED BY <2>2, <2>4, <2>5
<1>3. PICK iter : IsFold(iter, S, <<>>, n, F) /\ OwnRows(rows, owner) = iter[1..n]
  <2> HIDE DEF S
  <2>1. \A st \in S, row \in T : IfOwn(st, row, owner) \in S
    BY <1>2
  <2> QED BY <1>1, <2>1, OwnFold
<1>4. F \in [S \X (1..n) -> S]
  <2> HIDE DEF S
  <2> QED BY <1>1, <1>2 DEF OwnStep
<1>5. Keeps(F, n, S, P)
  <2> SUFFICES ASSUME NEW k \in 0..(n - 1), NEW v \in S, <<k, v>> \in P
               PROVE <<k + 1, F[<<v, k + 1>>]>> \in P
    <3> HIDE DEF S, F, n, P
    <3> QED BY DEF Keeps
  <2>1. k + 1 \in 1..n /\ Len(v) \in Nat /\ Len(v) <= k
    BY <1>1
  <2>2. F[<<v, k + 1>>] = IfOwn(v, rows[k + 1], owner)
    <3> HIDE DEF S
    <3> QED BY <2>1 DEF OwnStep
  <2>3. /\ IfOwn(v, rows[k + 1], owner) \in S /\ Len(IfOwn(v, rows[k + 1], owner)) \in Nat
        /\ Len(IfOwn(v, rows[k + 1], owner)) <= Len(v) + 1
    <3>1. rows[k + 1] \in T
      BY <1>1, <2>1
    <3>2. IfOwn(v, rows[k + 1], owner) \in S /\ Len(IfOwn(v, rows[k + 1], owner)) <= Len(v) + 1
      <4> HIDE DEF S
      <4> QED BY <1>2, <3>1
    <3>3. Len(IfOwn(v, rows[k + 1], owner)) \in Nat
      BY <3>2
    <3> QED BY <3>2, <3>3
  <2> HIDE DEF S, F
  <2> QED BY <1>1, <2>1, <2>2, <2>3
<1>6. <<0, <<>>>> \in P
  <2>1. Len(<<>>) = 0 /\ 0 \in 0..n
    BY <1>1
  <2> HIDE DEF S, n
  <2> QED BY <1>1, <2>1
<1>7. iter[1..n] \in S /\ <<n, iter[1..n]>> \in P
  <2> HIDE DEF S, n, F, P
  <2> QED BY <1>1, <1>3, <1>4, <1>5, <1>6, FoldKeeps
<1> QED BY <1>3, <1>7

\* Pages of the same size one after the other are the list they are cut from.
LEMMA PagesFlattened ==
    ASSUME NEW T, NEW list \in Seq(T), NEW size \in Nat \ {0}, NEW N \in Nat \ {0}, Len(list) <= N * size,
           NEW pages, DOMAIN pages = 1..N, pages \in Seq(Seq(T)),
           \A p \in 1..N : pages[p] = SubSeq(list, (p - 1) * size + 1, Lesser(Len(list), (p - 1) * size + size))
    PROVE  FlattenSeq(pages) = list
<1> DEFINE L == Len(list)
           Flattens(g) == g = [i \in 1..Len(pages) |-> IF i = 1 THEN pages[i] ELSE g[i - 1] \o pages[i]]
           first(i) == SubSeq(list, 1, Lesser(L, i * size))
           h == [i \in 1..N |-> first(i)]
           flatten == CHOOSE g : Flattens(g)
<1>1. L \in Nat /\ Len(pages) = N
  OBVIOUS
<1>2. first(1) = pages[1]
  <2>1. 1 \in 1..N /\ (1 - 1) * size = 0 /\ 1 * size = size
    OBVIOUS
  <2> QED BY <2>1
<1>3. ASSUME NEW i \in 2..N PROVE first(i) = first(i - 1) \o pages[i]
  <2> DEFINE m == (i - 1) * size
  <2>1. m \in Nat /\ i * size = m + size /\ i \in 1..N
    OBVIOUS
  <2>2. pages[i] = SubSeq(list, m + 1, Lesser(L, m + size))
    BY <2>1
  <2> HIDE DEF m, L
  <2>3. CASE m <= L
    <3>1. Lesser(L, m) = m /\ m \in 0..L /\ Lesser(L, m + size) \in m..L
      BY <1>1, <2>1, <2>3 DEF Lesser
    <3>2. SubSeq(list, 1, m) \o SubSeq(list, m + 1, Lesser(L, m + size)) = SubSeq(list, 1, Lesser(L, m + size))
      BY <3>1, PartsMeet DEF L
    <3> QED BY <2>1, <2>2, <3>1, <3>2 DEF m
  <2>4. CASE L < m
    <3>1. Lesser(L, m) = L /\ Lesser(L, m + size) = L
      BY <1>1, <2>1, <2>4 DEF Lesser
    <3>2. SubSeq(list, m + 1, L) = <<>> /\ SubSeq(list, 1, L) = list /\ list \o <<>> = list
      BY <1>1, <2>1, <2>4 DEF L
    <3> QED BY <2>1, <2>2, <3>1, <3>2 DEF m
  <2>5. m <= L \/ L < m
    BY <1>1, <2>1
  <2> QED BY <2>3, <2>4, <2>5
<1>4. Flattens(h)
  <2> HIDE DEF first
  <2>1. ASSUME NEW i \in 1..N PROVE h[i] = IF i = 1 THEN pages[i] ELSE h[i - 1] \o pages[i]
    <3>1. CASE i = 1
      BY <1>2, <3>1
    <3>2. CASE i # 1
      <4>1. i \in 2..N /\ i - 1 \in 1..N
        BY <3>2
      <4> QED BY <1>3, <3>2, <4>1
    <3> QED BY <3>1, <3>2
  <2> QED BY <1>1, <2>1
<1>5. Flattens(flatten)
  <2> HIDE DEF Flattens
  <2> QED BY <1>4
<1>6. FlattenSeq(pages) = flatten[N]
  BY <1>1 DEF FlattenSeq
<1> DEFINE D == {i \in 0..N : i > 0 => flatten[i] = first(i)}
<1>7. 0..N \subseteq D
  <2>1. \A i \in 1..N : flatten[i] = IF i = 1 THEN pages[i] ELSE flatten[i - 1] \o pages[i]
    <3> HIDE DEF flatten
    <3> QED BY <1>1, <1>5
  <2> HIDE DEF first, flatten
  <2>2. 0 \in D
    OBVIOUS
  <2>3. ASSUME NEW k \in 0..N, k < N, k \in D PROVE k + 1 \in D
    <3>1. k + 1 \in 1..N
      BY <2>3
    <3>2. CASE k = 0
      BY <1>2, <2>1, <3>1, <3>2
    <3>3. CASE k # 0
      <4>1. k + 1 \in 2..N /\ (k + 1) - 1 = k
        BY <3>1, <3>3
      <4>2. flatten[k + 1] = flatten[k] \o pages[k + 1]
        <5>1. k + 1 # 1
          BY <3>3
        <5> QED BY <2>1, <3>1, <4>1, <5>1
      <4>3. flatten[k] = first(k)
        BY <2>3, <3>3
      <4>4. first(k + 1) = first(k) \o pages[k + 1]
        BY <1>3, <4>1
      <4>5. flatten[k + 1] = first(k + 1)
        BY <4>2, <4>3, <4>4
      <4>6. k + 1 \in 0..N
        BY <3>1
      <4> QED BY <4>5, <4>6
    <3> QED BY <3>2, <3>3
  <2> HIDE DEF D
  <2> QED BY <2>2, <2>3, UpTo
<1>8. flatten[N] = first(N)
  <2> HIDE DEF first, flatten
  <2>1. N \in 0..N /\ N > 0
    OBVIOUS
  <2> QED BY <1>7, <2>1
<1>9. first(N) = list
  <2>1. Lesser(L, N * size) = L
    BY <1>1 DEF Lesser
  <2>2. SubSeq(list, 1, L) = list
    OBVIOUS
  <2> QED BY <2>1, <2>2
<1> QED BY <1>6, <1>8, <1>9

\* A count that is not too small lets the pages it announces show every row of the owner
\* once, whatever page size is asked for (tableViewHandler).
THEOREM PagesShowAll ==
    ASSUME NEW T, NEW rows \in Seq(T), NEW owner, NEW count \in Int, NEW size \in Int,
           PageSize \in Nat \ {0}, MaxPageSize \in Nat \ {0}
    PROVE  PagesRight(rows, owner, count, size)
<1> SUFFICES ASSUME count >= Len(rows)
             PROVE  LET pages == [p \in 1..TablePage(rows, owner, count, 1, size).pages
                                    |-> TablePage(rows, owner, count, p, size).rows]
                    IN  FlattenSeq(pages) = OwnRows(rows, owner)
  BY DEF PagesRight
<1> DEFINE list == OwnRows(rows, owner)
           n == ResolvePageSize(size)
           N == IF count > n THEN (count + n - 1) \div n ELSE 1
           row(p) == SubSeq(list, (p - 1) * n + 1, Lesser(Len(list), (p - 1) * n + n))
           pages == [p \in 1..TablePage(rows, owner, count, 1, size).pages
                       |-> TablePage(rows, owner, count, p, size).rows]
<1>1. n \in Nat \ {0} /\ Len(rows) \in Nat
  BY DEF ResolvePageSize
<1>2. list \in Seq(T) /\ Len(list) \in Nat /\ Len(list) <= count
  <2>1. list \in Seq(T) /\ Len(list) <= Len(rows)
    BY OwnRowsAreRows
  <2>2. Len(list) \in Nat
    BY <2>1
  <2> HIDE DEF list
  <2> QED BY <1>1, <2>1, <2>2
<1>3. N \in Nat \ {0} /\ count <= N * n
  <2> HIDE DEF n
  <2>1. CASE count > n
    <3>1. (count + n - 1) \div n \in Int /\ count <= ((count + n - 1) \div n) * n
      BY <1>1, <2>1
    <3>2. (count + n - 1) \div n > 0
      BY <1>1, <2>1
    <3> QED BY <2>1, <3>1, <3>2
  <2>2. CASE ~(count > n)
    BY <1>1, <2>2
  <2> QED BY <2>1, <2>2
<1>4. TablePage(rows, owner, count, 1, size).pages = N
  BY DEF TablePage
<1>5. ASSUME NEW p \in 1..N PROVE TablePage(rows, owner, count, p, size).rows = row(p)
  <2>1. (IF p < 1 THEN 1 ELSE p) = p /\ (p - 1) * n \in Nat
    <3> HIDE DEF n, N
    <3> QED BY <1>1, <1>3
  <2> DEFINE from == (p - 1) * n
  <2>2. TablePage(rows, owner, count, p, size).rows
          = SubSeq(list, from + 1, IF from + n > Len(list) THEN Len(list) ELSE from + n)
    BY <2>1 DEF TablePage
  <2>3. (IF from + n > Len(list) THEN Len(list) ELSE from + n) = Lesser(Len(list), from + n)
    <3> HIDE DEF n, list, from
    <3> QED BY <1>1, <1>2, <2>1 DEF Lesser, from
  <2> QED BY <2>2, <2>3
<1>6. DOMAIN pages = 1..N /\ \A p \in 1..N : pages[p] = row(p)
  <2> HIDE DEF N, row
  <2> QED BY <1>4, <1>5
<1>7. ASSUME NEW p \in 1..N PROVE row(p) \in Seq(T)
  <2> HIDE DEF n, list, N
  <2>1. (p - 1) * n \in Nat
    BY <1>1, <1>3
  <2> DEFINE from == (p - 1) * n
  <2> HIDE DEF from
  <2>2. SubSeq(list, from + 1, Lesser(Len(list), from + n)) \in Seq(T)
    BY <1>1, <1>2, <2>1 DEF Lesser, from
  <2> QED BY <2>2 DEF from
<1>8. pages \in Seq(Seq(T))
  <2> HIDE DEF N, row
  <2>1. pages = [p \in 1..N |-> row(p)]
    BY <1>4, <1>5
  <2> HIDE DEF pages
  <2> QED BY <1>3, <1>7, <2>1
<1>9. Len(list) <= N * n
  <2>1. N * n \in Int
    <3> HIDE DEF n, N
    <3> QED BY <1>1, <1>3
  <2> HIDE DEF n, N, list
  <2> QED BY <1>2, <1>3, <2>1
<1>10. FlattenSeq(pages) = list
  <2> HIDE DEF n, N, list, pages
  <2> QED BY <1>1, <1>2, <1>3, <1>6, <1>8, <1>9, PagesFlattened
<1> QED BY <1>10

----------------------------------------------------------------------------
(* Migration *)

\* A table is there with its rows, or is not.
Table(T) == {<<>>} \cup {<<q>> : q \in Seq(T)}

Had(target) == IF target = <<>> THEN <<>> ELSE target[1]

\* A migration has copied the first n rows.
Copied(m, source, target, n) ==
    /\ m.rows = n
    /\ m.target = <<Had(target) \o SubSeq(source[1], 1, n)>>
    /\ m.failed = (n < Len(source[1]))

\* A table's rows are rows.
LEMMA TableRows ==
    ASSUME NEW T, NEW source \in Table(T)
    PROVE  /\ Had(source) \in Seq(T) /\ Len(Had(source)) \in Nat
           /\ source # <<>> => source[1] \in Seq(T) /\ Len(source[1]) \in Nat /\ DOMAIN source[1] = 1..Len(source[1])
BY DEF Table, Had

\* What a migration that is not refused does.
LEMMA MigrateCopies ==
    ASSUME NEW T, NEW source \in Table(T), NEW target \in Table(T), NEW create \in BOOLEAN, NEW failing \in Nat,
           source # <<>>, ~(create /\ target # <<>>), create \/ target # <<>>,
           NEW m, m = Migrate(source, target, create, failing)
    PROVE  \E n \in 0..Len(source[1]) : Copied(m, source, target, n) /\ (failing = 0 => n = Len(source[1]))
<1> DEFINE made == IF create THEN <<<<>>>> ELSE target
           there == create \/ target # <<>>
           copied == IF ~there THEN 0
                     ELSE IF failing \in DOMAIN source[1] THEN failing - 1 ELSE Len(source[1])
<1>1. Len(source[1]) \in Nat /\ DOMAIN source[1] = 1..Len(source[1])
  BY TableRows
<1>2. copied \in 0..Len(source[1]) /\ (failing = 0 => copied = Len(source[1]))
  <2>1. 0 \notin 1..Len(source[1])
    BY <1>1
  <2> QED BY <1>1, <2>1
<1>3. made # <<>> /\ made[1] = Had(target)
  BY DEF Table, Had
<1>t. there
  OBVIOUS
<1>4. m = [target |-> <<made[1] \o SubSeq(source[1], 1, copied)>>, rows |-> copied,
           failed |-> copied < Len(source[1])]
  <2>1. m = [target |-> IF there THEN <<made[1] \o SubSeq(source[1], 1, copied)>> ELSE target,
             rows |-> copied, failed |-> copied < Len(source[1])]
    BY DEF Migrate
  <2> HIDE DEF made, copied, there
  <2> QED BY <1>t, <2>1
<1> HIDE DEF made, copied, there
<1>5. m.rows = copied /\ m.failed = (copied < Len(source[1]))
  BY <1>4
<1>6. m.target = <<Had(target) \o SubSeq(source[1], 1, copied)>>
  <2> DEFINE q == <<made[1] \o SubSeq(source[1], 1, copied)>>
  <2>1. m.target = q
    <3>1. m = [target |-> q, rows |-> copied, failed |-> copied < Len(source[1])]
      BY <1>4
    <3> HIDE DEF q
    <3> QED BY <3>1
  <2> QED BY <1>3, <2>1, Zenon
<1>7. Copied(m, source, target, copied)
  BY <1>5, <1>6 DEF Copied
<1> QED BY <1>2, <1>7

\* What the target has after all rows were copied.
LEMMA AllCopied ==
    ASSUME NEW T, NEW source \in Table(T), NEW target \in Table(T), source # <<>>, NEW m,
           Copied(m, source, target, Len(source[1]))
    PROVE  Len(m.target[1]) = Len(Had(target)) + Len(source[1])
<1>1. source[1] \in Seq(T) /\ Had(target) \in Seq(T) /\ SubSeq(source[1], 1, Len(source[1])) = source[1]
  BY TableRows
<1>2. m.target[1] = Had(target) \o source[1]
  BY <1>1 DEF Copied
<1> QED BY <1>1, <1>2

\* A migration adds to what the target had exactly the rows it reports, and all of the
\* source's if it reports no error, but for an empty source there need be no target; a
\* second one after an error can make the table complete only by copying rows again
\* (migrateTable).
THEOREM RowsArrive ==
    ASSUME NEW T, NEW source \in Table(T), NEW target \in Table(T),
           NEW create \in BOOLEAN, NEW failing \in Nat
    PROVE  MigrationRight(source, target, create, failing)
<1> DEFINE m == Migrate(source, target, create, failing)
           again == Migrate(source, m.target, FALSE, 0)
           Adds == m.rows > 0 => m.target = <<Had(target) \o SubSeq(source[1], 1, m.rows)>>
           AddsAll == ~m.failed => m.target = IF create \/ target # <<>> \/ source[1] # <<>>
                                               THEN <<Had(target) \o source[1]>> ELSE <<>>
           Repeats == m.failed /\ ~again.failed => Len(again.target[1]) = Len(Had(target)) + m.rows + Len(source[1])
           turnedAway == create /\ target # <<>>
           absent == ~create /\ target = <<>>
<1>1. SUFFICES Adds /\ AddsAll /\ Repeats
  BY DEF MigrationRight, Had
<1>2. CASE source = <<>>
  <2>1. m.rows = 0 /\ m.failed = TRUE /\ again.failed = TRUE
    BY <1>2 DEF Migrate
  <2> HIDE DEF m, again
  <2> QED BY <2>1
<1>3. CASE source # <<>> /\ turnedAway
  <2>1. m.target = target /\ m.rows = 0 /\ m.failed = TRUE
    BY <1>3 DEF Migrate
  <2>2. again = Migrate(source, target, FALSE, 0)
    <3> HIDE DEF m
    <3> QED BY <2>1
  <2> HIDE DEF m, again
  <2>3. Copied(again, source, target, Len(source[1]))
    <3>1. PICK n \in 0..Len(source[1]) : Copied(again, source, target, n) /\ (0 = 0 => n = Len(source[1]))
      BY <1>3, <2>2, MigrateCopies
    <3> QED BY <3>1
  <2>4. Len(again.target[1]) = Len(Had(target)) + Len(source[1])
    BY <1>3, <2>3, AllCopied
  <2>5. Len(Had(target)) \in Nat /\ Len(source[1]) \in Nat
    BY <1>3, TableRows
  <2> QED BY <2>1, <2>4, <2>5
\* Without a target nothing is copied, now and again, and a source without rows needs none.
<1>a. CASE source # <<>> /\ absent
  <2>1. /\ m.target = target /\ m.rows = 0
        /\ m.failed = (0 < Len(source[1]))
    BY <1>a DEF Migrate
  <2>2. again = Migrate(source, target, FALSE, 0)
    <3> HIDE DEF m
    <3> QED BY <2>1
  <2>3. again.failed = (0 < Len(source[1]))
    BY <1>a, <2>2 DEF Migrate
  <2>4. source[1] \in Seq(T) /\ (~(0 < Len(source[1])) => source[1] = <<>>)
    BY <1>a, TableRows
  <2>5. m.failed = again.failed
    BY <2>1, <2>3, Zenon
  <2> HIDE DEF m, again
  <2>6. Adds /\ Repeats
    BY <2>1, <2>5
  <2>7. ASSUME ~m.failed PROVE m.target = <<>> /\ ~(create \/ target # <<>> \/ source[1] # <<>>)
    <3>1. ~(0 < Len(source[1]))
      BY <2>1, <2>7, Zenon
    <3> QED BY <1>a, <2>1, <2>4, <3>1
  <2>8. AddsAll
    BY <2>7
  <2> QED BY <2>6, <2>8
<1>4. CASE source # <<>> /\ ~turnedAway /\ ~absent
  <2>1. m = Migrate(source, target, create, failing) /\ again = Migrate(source, m.target, FALSE, 0)
    OBVIOUS
  <2> HIDE DEF m, again
  <2>2. PICK n \in 0..Len(source[1]) : Copied(m, source, target, n)
    BY <1>4, <2>1, MigrateCopies
  <2>3. /\ source[1] \in Seq(T) /\ Had(target) \in Seq(T)
        /\ Len(source[1]) \in Nat /\ Len(Had(target)) \in Nat
    BY <1>4, TableRows
  <2> DEFINE now == Had(target) \o SubSeq(source[1], 1, n)
  <2>4. now \in Seq(T) /\ Len(now) = Len(Had(target)) + n
    BY <2>3
  <2>5. m.target = <<now>> /\ m.rows = n /\ m.failed = (n < Len(source[1]))
    BY <2>2 DEF Copied
  <2> HIDE DEF now
  <2>6. m.target # <<>> /\ m.target \in Table(T) /\ Had(m.target) = now
    BY <2>4, <2>5 DEF Table, Had
  <2>7. Copied(again, source, m.target, Len(source[1]))
    <3>1. PICK k \in 0..Len(source[1]) : Copied(again, source, m.target, k) /\ (0 = 0 => k = Len(source[1]))
      BY <1>4, <2>1, <2>6, MigrateCopies
    <3> QED BY <3>1
  <2>8. Len(again.target[1]) = Len(now) + Len(source[1])
    BY <1>4, <2>6, <2>7, AllCopied
  <2>9. Repeats
    BY <2>3, <2>4, <2>5, <2>8
  <2>10. Adds
    BY <2>5 DEF now
  <2>11. AddsAll
    <3>1. ASSUME ~m.failed PROVE n = Len(source[1])
      <4>1. ~(n < Len(source[1]))
        BY <2>5, <3>1, Zenon
      <4>2. n \in 0..Len(source[1]) /\ Len(source[1]) \in Nat
        BY <2>3
      <4> HIDE DEF m, again
      <4> QED BY <4>1, <4>2
    <3>2. SubSeq(source[1], 1, Len(source[1])) = source[1]
      BY <2>3
    <3>3. ~m.failed => m.target = <<Had(target) \o source[1]>>
      BY <2>5, <3>1, <3>2 DEF now
    <3> QED BY <1>4, <3>3
  <2> QED BY <2>9, <2>10, <2>11
<1> QED BY <1>2, <1>3, <1>a, <1>4

----------------------------------------------------------------------------
(* Functions that are defined from the end backwards *)

\* Induction from M down: what is passed on from the higher positions holds from lo on.
LEMMA Downwards ==
    ASSUME NEW lo \in Nat, NEW M \in Nat, NEW D,
           \A i \in lo..M : (\A j \in (i + 1)..M : j \in D) => i \in D
    PROVE  \A i \in lo..M : i \in D
<1> DEFINE T == {k \in 0..M : M - k \in lo..M /\ M - k \notin D}
<1> SUFFICES ASSUME NEW x \in lo..M, x \notin D PROVE FALSE
  OBVIOUS
<1>1. M - x \in T
  <2>1. M - x \in 0..M /\ M - (M - x) = x
    OBVIOUS
  <2> QED BY <2>1
<1>2. PICK m \in T : \A k \in T : m <= k
  <2>1. T \in SUBSET Nat /\ T # {}
    BY <1>1
  <2> QED BY <2>1, Least
<1>3. m \in 0..M /\ M - m \in lo..M /\ M - m \notin D
  BY <1>2
<1>4. ASSUME NEW j \in ((M - m) + 1)..M PROVE j \in D
  <2>1. M - j \in 0..M /\ M - (M - j) = j /\ j \in lo..M /\ ~(m <= M - j)
    BY <1>3
  <2>2. M - j \notin T
    BY <1>2, <2>1
  <2> QED BY <2>1, <2>2
<1> QED BY <1>3, <1>4

\* What B makes at a position depends on higher positions only.
Backwards(B, lo, M, V) ==
    \A g, h \in [lo..M -> V], i \in lo..M :
        (\A j \in (i + 1)..M : g[j] = h[j]) => B[<<g, i>>] = B[<<h, i>>]

\* The values of g are what B makes of g.
MadeBy(g, B, lo, M, V) == g \in [lo..M -> V] /\ \A i \in lo..M : g[i] = B[<<g, i>>]

\* There is a function whose value at each position is made of those at higher ones.
LEMMA RecursionExists ==
    ASSUME NEW lo \in Nat \ {0}, NEW M \in Nat, NEW V, NEW default \in V,
           NEW B \in [[lo..M -> V] \X (lo..M) -> V], Backwards(B, lo, M, V)
    PROVE  \E g : MadeBy(g, B, lo, M, V)
<1> DEFINE Right(g, k) == \A i \in lo..M : i > M - k => g[i] = B[<<g, i>>]
           D == {k \in 0..M : \E g \in [lo..M -> V] : Right(g, k)}
<1>1. 0 \in D
  <2>1. [i \in lo..M |-> default] \in [lo..M -> V]
    OBVIOUS
  <2>2. Right([i \in lo..M |-> default], 0) /\ 0 \in 0..M
    OBVIOUS
  <2> HIDE DEF Right
  <2> QED BY <2>1, <2>2
<1>2. ASSUME NEW k \in 0..M, k < M, k \in D PROVE k + 1 \in D
  <2>1. PICK g \in [lo..M -> V] : Right(g, k)
    BY <1>2
  <2>2. k + 1 \in 0..M /\ M - k \in Int /\ M - (k + 1) = (M - k) - 1
    BY <1>2
  <2> DEFINE at == M - k
  <2>3. CASE at \notin lo..M
    <3>1. Right(g, k + 1)
      BY <2>1, <2>2, <2>3
    <3> HIDE DEF Right
    <3> QED BY <2>2, <3>1
  <2>4. CASE at \in lo..M
    <3> DEFINE h == [i \in lo..M |-> IF i = at THEN B[<<g, at>>] ELSE g[i]]
    <3>1. B[<<g, at>>] \in V
      BY <2>4
    <3> HIDE DEF at
    <3>2. h \in [lo..M -> V] /\ h[at] = B[<<g, at>>] /\ \A i \in lo..M : i # at => h[i] = g[i]
      BY <2>4, <3>1
    <3> HIDE DEF h
    <3>3. ASSUME NEW i \in lo..M, i >= at PROVE B[<<g, i>>] = B[<<h, i>>]
      <4>1. \A j \in (i + 1)..M : j \in lo..M /\ j # at
        BY <2>4, <3>3
      <4> QED BY <3>2, <4>1 DEF Backwards
    <3>4. ASSUME NEW i \in lo..M, i > M - (k + 1) PROVE h[i] = B[<<h, i>>]
      <4>1. CASE i = at
        <5>1. at \in lo..M /\ at >= at
          BY <2>4
        <5>2. B[<<g, at>>] = B[<<h, at>>]
          BY <3>3, <5>1
        <5> QED BY <3>2, <4>1, <5>2
      <4>2. CASE i # at
        <5>1. i > M - k /\ i >= at
          BY <2>2, <3>4, <4>2 DEF at
        <5> QED BY <2>1, <3>2, <3>3, <4>2, <5>1
      <4> QED BY <4>1, <4>2
    <3>5. Right(h, k + 1)
      BY <3>4
    <3> HIDE DEF Right
    <3> QED BY <2>2, <3>2, <3>5
  <2> QED BY <2>3, <2>4
<1>3. M \in D
  <2> HIDE DEF D
  <2>1. 0..M \subseteq D
    BY <1>1, <1>2, UpTo
  <2> QED BY <2>1
<1>4. PICK g \in [lo..M -> V] : Right(g, M)
  BY <1>3
<1> QED BY <1>4 DEF MadeBy

----------------------------------------------------------------------------
(* The two scanners of statements *)

\* The first of some positions.
LEMMA FirstFacts ==
    ASSUME NEW q, Len(q) \in Nat, NEW i \in Nat, NEW at \in SUBSET (i..Len(q))
    PROVE  IF at = {} THEN First(q, at) = Len(q) + 1
           ELSE First(q, at) \in at /\ \A k \in at : First(q, at) <= k
<1>1. CASE at # {}
  <2>1. at \in SUBSET Nat
    OBVIOUS
  <2>2. \E j \in at : \A k \in at : j <= k
    BY <1>1, <2>1, Least
  <2> QED BY <1>1, <2>2 DEF First
<1> QED BY <1>1 DEF First

\* What the scan of a literal goes on with.
AfterNext(q, i, escapes, after, j) ==
    IF j > Len(q) THEN j
    ELSE IF escapes /\ q[j] = "\\" THEN after[j + 2]
    ELSE IF q[j] # q[i] THEN after[j + 1]
    ELSE IF Is(q, j + 1, q[i]) THEN after[j + 2] ELSE j + 1

\* A literal is read from its opening quote on.
LEMMA AfterFacts ==
    ASSUME NEW q, Len(q) \in Nat, NEW i \in 1..Len(q), NEW escapes
    PROVE  \E after : /\ AfterLiteral(q, i, escapes) = after[i + 1]
                      /\ \A j \in (i + 1)..(Len(q) + 2) :
                            /\ after[j] \in (i + 1)..(Len(q) + 2)
                            /\ after[j] = AfterNext(q, i, escapes, after, j)
<1> DEFINE lo == i + 1
           M == Len(q) + 2
           V == lo..M
           B == [p \in [lo..M -> V] \X (lo..M) |-> AfterNext(q, i, escapes, p[1], p[2])]
           Defines(g) == g = [j \in lo..M |-> IF j > Len(q) THEN j
                                              ELSE IF escapes /\ q[j] = "\\" THEN g[j + 2]
                                              ELSE IF q[j] # q[i] THEN g[j + 1]
                                              ELSE IF Is(q, j + 1, q[i]) THEN g[j + 2] ELSE j + 1]
           after == CHOOSE g : Defines(g)
<1>1. lo \in Nat \ {0} /\ M \in Nat /\ lo \in V
  OBVIOUS
<1>2. ASSUME NEW j \in lo..M PROVE j <= Len(q) => j + 1 \in lo..M /\ j + 2 \in lo..M
  OBVIOUS
<1>3. ASSUME NEW g \in [lo..M -> V], NEW j \in lo..M PROVE AfterNext(q, i, escapes, g, j) \in V
  <2> HIDE DEF lo, M
  <2> QED BY <1>2 DEF AfterNext, V
<1>4. B \in [[lo..M -> V] \X (lo..M) -> V]
  <2> HIDE DEF lo, M, V
  <2> QED BY <1>3
<1>5. ASSUME NEW g \in [lo..M -> V], NEW h \in [lo..M -> V], NEW j \in lo..M,
             \A k \in (j + 1)..M : g[k] = h[k]
      PROVE  B[<<g, j>>] = B[<<h, j>>]
  <2>1. j <= Len(q) => j + 1 \in (j + 1)..M /\ j + 2 \in (j + 1)..M
    OBVIOUS
  <2>2. ~(j > Len(q)) => j <= Len(q)
    OBVIOUS
  <2> HIDE DEF lo, M, V
  <2>3. AfterNext(q, i, escapes, g, j) = AfterNext(q, i, escapes, h, j)
    BY <1>5, <2>1, <2>2 DEF AfterNext
  <2> QED BY <2>3
<1>6. PICK g : MadeBy(g, B, lo, M, V)
  <2> HIDE DEF B, V, lo, M
  <2>1. Backwards(B, lo, M, V)
    BY <1>5 DEF Backwards
  <2> QED BY <1>1, <1>4, <2>1, RecursionExists
<1>7. Defines(g)
  <2> HIDE DEF lo, M, V
  <2>1. \A j \in lo..M : g[j] = AfterNext(q, i, escapes, g, j)
    BY <1>6 DEF MadeBy
  <2> QED BY <1>6, <2>1 DEF AfterNext, MadeBy
<1>8. Defines(after)
  <2> HIDE DEF Defines
  <2> QED BY <1>7
<1>9. AfterLiteral(q, i, escapes) = after[i + 1]
  BY DEF AfterLiteral
<1>10. \A j \in lo..M : after[j] = AfterNext(q, i, escapes, after, j)
  <2> HIDE DEF after, lo, M
  <2> QED BY <1>8 DEF AfterNext
<1>11. \A j \in lo..M : after[j] \in V
  <2> DEFINE D == {j \in lo..M : after[j] \in V}
  <2>1. ASSUME NEW j \in lo..M, \A k \in (j + 1)..M : k \in D PROVE j \in D
    <3>1. j <= Len(q) => j + 1 \in (j + 1)..M /\ j + 2 \in (j + 1)..M /\ j + 1 \in V
      OBVIOUS
    <3>2. ~(j > Len(q)) => j <= Len(q)
      OBVIOUS
    <3>3. j \in V
      OBVIOUS
    <3> HIDE DEF after, lo, M, V
    <3>4. after[j] = AfterNext(q, i, escapes, after, j)
      BY <1>10
    <3> QED BY <2>1, <3>1, <3>2, <3>3, <3>4 DEF AfterNext
  <2> HIDE DEF D, lo, M, after, V
  <2>2. \A j \in lo..M : j \in D
    BY <1>1, <2>1, Downwards
  <2> QED BY <2>2 DEF D
<1> HIDE DEF after
<1> QED BY <1>9, <1>10, <1>11

\* A step of the scan for a separator moves by one or two.
LEMMA MovesFacts ==
    ASSUME NEW q, NEW i, NEW in \in Inside
    PROVE  Moves(q, i, in)[1] \in Inside /\ Moves(q, i, in)[2] \in {1, 2}
<1>1. Opens(q, i) \in Inside
  BY DEF Opens, Inside
<1>2. CASE in = "code"
  BY <1>1, <1>2 DEF Moves
<1>3. CASE in # "code"
  BY <1>3 DEF Moves, Inside
<1> QED BY <1>2, <1>3

\* What the scan for a separator goes on with.
FoundNext(q, found, i, in) ==
    /\ i <= Len(q)
    /\ \/ in = "code" /\ q[i] = ";" /\ Behind(q, i)
       \/ found[i + Moves(q, i, in)[2]][Moves(q, i, in)[1]]

\* The scan for a separator from each position and inside of anything.
IsFound(found, q) ==
    /\ \A i \in 1..(Len(q) + 2) : found[i] \in [Inside -> BOOLEAN]
    /\ \A i \in 1..(Len(q) + 2), in \in Inside : found[i][in] <=> FoundNext(q, found, i, in)

\* A separator is looked for from the first character on.
LEMMA FoundFacts ==
    ASSUME NEW q, Len(q) \in Nat
    PROVE  \E found : IsFound(found, q) /\ (HasSeparator(q) <=> found[1]["code"])
<1> DEFINE M == Len(q) + 2
           V == [Inside -> BOOLEAN]
           B == [p \in [1..M -> V] \X (1..M) |-> [in \in Inside |-> FoundNext(q, p[1], p[2], in)]]
           Defines(g) == g = [i \in 1..M |-> [in \in Inside |->
                                /\ i <= Len(q)
                                /\ \/ in = "code" /\ q[i] = ";" /\ Behind(q, i)
                                   \/ g[i + Moves(q, i, in)[2]][Moves(q, i, in)[1]]]]
           found == CHOOSE g : Defines(g)
<1>1. 1 \in Nat \ {0} /\ M \in Nat
  OBVIOUS
<1>2. ASSUME NEW i \in 1..M, i <= Len(q), NEW in \in Inside
      PROVE  i + Moves(q, i, in)[2] \in (i + 1)..M /\ i + Moves(q, i, in)[2] \in 1..M
  <2>1. Moves(q, i, in)[2] = 1 \/ Moves(q, i, in)[2] = 2
    BY MovesFacts
  <2> QED BY <1>2, <2>1
<1> HIDE DEF M
<1>3. ASSUME NEW g \in [1..M -> V], NEW i \in 1..M, NEW in \in Inside
      PROVE  FoundNext(q, g, i, in) \in BOOLEAN
  BY DEF FoundNext
<1>4. [in \in Inside |-> FALSE] \in V
  OBVIOUS
<1>5. B \in [[1..M -> V] \X (1..M) -> V]
  <2>1. ASSUME NEW g \in [1..M -> V], NEW i \in 1..M
        PROVE  [in \in Inside |-> FoundNext(q, g, i, in)] \in V
    BY <1>3
  <2> HIDE DEF V
  <2> QED BY <2>1
<1>6. Backwards(B, 1, M, V)
  <2> SUFFICES ASSUME NEW g \in [1..M -> V], NEW h \in [1..M -> V], NEW i \in 1..M,
                      \A j \in (i + 1)..M : g[j] = h[j]
               PROVE  B[<<g, i>>] = B[<<h, i>>]
    <3> HIDE DEF V, B
    <3> QED BY DEF Backwards
  <2>1. ASSUME NEW in \in Inside PROVE FoundNext(q, g, i, in) <=> FoundNext(q, h, i, in)
    <3>1. CASE i <= Len(q)
      <4>1. g[i + Moves(q, i, in)[2]] = h[i + Moves(q, i, in)[2]]
        BY <1>2, <3>1
      <4> QED BY <4>1 DEF FoundNext
    <3> QED BY <3>1 DEF FoundNext
  <2>2. [in \in Inside |-> FoundNext(q, g, i, in)] = [in \in Inside |-> FoundNext(q, h, i, in)]
    <3>1. \A in \in Inside : FoundNext(q, g, i, in) = FoundNext(q, h, i, in)
      BY <1>3, <2>1
    <3> QED BY <3>1
  <2> HIDE DEF V
  <2> QED BY <2>2
<1>7. PICK g : MadeBy(g, B, 1, M, V)
  <2> HIDE DEF V, B
  <2> QED BY <1>1, <1>4, <1>5, <1>6, RecursionExists
<1>8. Defines(g)
  <2> DEFINE f == [i \in 1..M |-> [in \in Inside |-> FoundNext(q, g, i, in)]]
  <2>1. g \in [1..M -> V] /\ \A i \in 1..M : g[i] = B[<<g, i>>]
    BY <1>7 DEF MadeBy
  <2>2. \A i \in 1..M : g[i] = [in \in Inside |-> FoundNext(q, g, i, in)]
    <3> HIDE DEF V
    <3> QED BY <2>1
  <2>3. g = f
    <3> HIDE DEF V
    <3> QED BY <2>1, <2>2
  <2>4. Defines(g) <=> g = f
    BY DEF FoundNext
  <2> QED BY <2>3, <2>4
<1>9. Defines(found)
  <2> HIDE DEF Defines
  <2> QED BY <1>8
<1>10. HasSeparator(q) <=> found[1]["code"]
  BY DEF HasSeparator, M
<1> HIDE DEF found
<1>11. \A i \in 1..M : found[i] = [in \in Inside |-> FoundNext(q, found, i, in)]
  <2>1. found = [i \in 1..M |-> [in \in Inside |-> FoundNext(q, found, i, in)]]
    BY <1>9 DEF FoundNext
  <2> QED BY <2>1
<1>12. ASSUME NEW i \in 1..M PROVE found[i] \in [Inside -> BOOLEAN]
  <2>1. \A in \in Inside : FoundNext(q, found, i, in) \in BOOLEAN
    BY DEF FoundNext
  <2> QED BY <1>11, <2>1
<1>13. \A i \in 1..M, in \in Inside : found[i][in] <=> FoundNext(q, found, i, in)
  BY <1>11
<1> QED BY <1>10, <1>12, <1>13 DEF IsFound, M

\* Where a comment and a word end.
LineEnd(q, i) == First(q, {j \in i..Len(q) : q[j] = "nl"})

BlockEnd(q, i) == First(q, {j \in i..Len(q) : Pair(q, j, "*", "/")})

WordEnd(q, i) == First(q, {j \in i..Len(q) : q[j] \notin Word})

\* A position from i on has a property for the first time, or none has.
LEMMA EndFacts ==
    ASSUME NEW q, Len(q) \in Nat, NEW i \in 1..(Len(q) + 2)
    PROVE  /\ LineEnd(q, i) \in 1..(Len(q) + 1) /\ BlockEnd(q, i) \in 1..(Len(q) + 1)
           /\ WordEnd(q, i) \in 1..(Len(q) + 1)
           /\ i <= Len(q) => /\ LineEnd(q, i) >= i /\ BlockEnd(q, i) >= i /\ WordEnd(q, i) >= i
                             /\ q[i] = "nl" => LineEnd(q, i) = i
                             /\ q[i] # "nl" => LineEnd(q, i) = LineEnd(q, i + 1)
                             /\ Pair(q, i, "*", "/") => BlockEnd(q, i) = i
                             /\ ~Pair(q, i, "*", "/") => BlockEnd(q, i) = BlockEnd(q, i + 1)
                             /\ q[i] \notin Word => WordEnd(q, i) = i
                             /\ q[i] \in Word => WordEnd(q, i) = WordEnd(q, i + 1)
           /\ i > Len(q) => /\ LineEnd(q, i) = Len(q) + 1 /\ BlockEnd(q, i) = Len(q) + 1
                            /\ WordEnd(q, i) = Len(q) + 1
<1> DEFINE Ls(k) == {j \in k..Len(q) : q[j] = "nl"}
           Bs(k) == {j \in k..Len(q) : Pair(q, j, "*", "/")}
           Ws(k) == {j \in k..Len(q) : q[j] \notin Word}
<1>1. /\ Ls(i) \in SUBSET (i..Len(q)) /\ Bs(i) \in SUBSET (i..Len(q)) /\ Ws(i) \in SUBSET (i..Len(q))
      /\ i \in Nat
  OBVIOUS
<1>2. ASSUME NEW at \in SUBSET (i..Len(q))
      PROVE  /\ First(q, at) \in 1..(Len(q) + 1) /\ (i <= Len(q) => First(q, at) >= i)
             /\ i \in at => First(q, at) = i
             /\ at = {} => First(q, at) = Len(q) + 1
  <2>1. IF at = {} THEN First(q, at) = Len(q) + 1
        ELSE First(q, at) \in at /\ \A k \in at : First(q, at) <= k
    BY <1>1, FirstFacts
  <2>2. CASE at = {}
    BY <2>1, <2>2
  <2>3. CASE at # {}
    <3> DEFINE f == First(q, at)
    <3>1. f \in i..Len(q) /\ \A k \in at : f <= k
      BY <2>1, <2>3
    <3> HIDE DEF f
    <3>2. f \in 1..(Len(q) + 1) /\ f >= i
      BY <3>1
    <3>3. i \in at => f = i
      BY <3>1
    <3> QED BY <2>3, <3>2, <3>3 DEF f
  <2> QED BY <2>2, <2>3
<1>3. ASSUME i <= Len(q)
      PROVE  /\ i \in i..Len(q)
             /\ \A j : j \in i..Len(q) <=> j = i \/ j \in (i + 1)..Len(q)
  BY <1>3
<1>4. ASSUME i <= Len(q)
      PROVE  /\ q[i] = "nl" => i \in Ls(i)
             /\ q[i] # "nl" => Ls(i) = Ls(i + 1)
             /\ Pair(q, i, "*", "/") => i \in Bs(i)
             /\ ~Pair(q, i, "*", "/") => Bs(i) = Bs(i + 1)
             /\ q[i] \notin Word => i \in Ws(i)
             /\ q[i] \in Word => Ws(i) = Ws(i + 1)
  BY <1>3, <1>4
<1>5. ASSUME i > Len(q) PROVE Ls(i) = {} /\ Bs(i) = {} /\ Ws(i) = {}
  BY <1>5
<1>6. \A k : LineEnd(q, k) = First(q, Ls(k)) /\ BlockEnd(q, k) = First(q, Bs(k)) /\ WordEnd(q, k) = First(q, Ws(k))
  BY DEF LineEnd, BlockEnd, WordEnd
<1> HIDE DEF Ls, Bs, Ws
<1> QED BY <1>1, <1>2, <1>4, <1>5, <1>6

\* What the reading of tokens goes on with.
TokensNext(q, from, i) ==
    IF i > Len(q) THEN {}
    ELSE IF OpensComment(q, i) THEN from[AfterComment(q, i)]
    ELSE IF q[i] \in {"'", "\""} THEN from[AfterLiteral(q, i, q[i] = "'" /\ EscapesAt(q, i))]
    ELSE IF q[i] \in {"(", ")", ";"} /\ ~Leading(q, i) THEN {i} \cup from[i + 1]
    ELSE IF q[i] \in Word THEN {i} \cup from[WordEnd(q, i)]
    ELSE from[i + 1]

\* It goes on behind the position it is at.
LEMMA GoesOn ==
    ASSUME NEW q, Len(q) \in Nat, DOMAIN q = 1..Len(q), NEW i \in 1..Len(q), NEW escapes
    PROVE  /\ AfterLiteral(q, i, escapes) \in (i + 1)..(Len(q) + 2)
           /\ OpensComment(q, i) => AfterComment(q, i) \in (i + 1)..(Len(q) + 2)
           /\ q[i] \in Word => WordEnd(q, i) \in (i + 1)..(Len(q) + 2)
<1>1. AfterLiteral(q, i, escapes) \in (i + 1)..(Len(q) + 2)
  <2>1. i + 1 \in (i + 1)..(Len(q) + 2)
    OBVIOUS
  <2> QED BY <2>1, AfterFacts
<1>2. ASSUME OpensComment(q, i) PROVE AfterComment(q, i) \in (i + 1)..(Len(q) + 2)
  <2>1. i + 2 \in 1..(Len(q) + 2)
    OBVIOUS
  <2>2. /\ LineEnd(q, i + 2) \in 1..(Len(q) + 1) /\ BlockEnd(q, i + 2) \in 1..(Len(q) + 1)
        /\ i + 2 <= Len(q) => LineEnd(q, i + 2) >= i + 2 /\ BlockEnd(q, i + 2) >= i + 2
        /\ i + 2 > Len(q) => LineEnd(q, i + 2) = Len(q) + 1 /\ BlockEnd(q, i + 2) = Len(q) + 1
    BY <2>1, EndFacts
  <2>3. i + 1 <= Len(q)
    <3>1. i + 1 \in DOMAIN q
      BY <1>2 DEF OpensComment, Pair, Is
    <3> QED BY <3>1
  <2>4. AfterComment(q, i) = IF q[i] = "-" THEN LineEnd(q, i + 2)
                             ELSE IF BlockEnd(q, i + 2) <= Len(q) THEN BlockEnd(q, i + 2) + 2
                             ELSE IF i + 2 > Len(q) THEN i + 2 ELSE Len(q)
    BY DEF AfterComment, LineEnd, BlockEnd
  <2>5. BlockEnd(q, i + 2) <= Len(q) => BlockEnd(q, i + 2) + 2 \in (i + 1)..(Len(q) + 2)
    BY <2>2
  <2> QED BY <2>2, <2>3, <2>4, <2>5
<1>3. ASSUME q[i] \in Word PROVE WordEnd(q, i) \in (i + 1)..(Len(q) + 2)
  <2>1. i \in 1..(Len(q) + 2) /\ i + 1 \in 1..(Len(q) + 2) /\ i <= Len(q)
    OBVIOUS
  <2>2. WordEnd(q, i) = WordEnd(q, i + 1)
    BY <1>3, <2>1, EndFacts
  <2>3. /\ WordEnd(q, i + 1) \in 1..(Len(q) + 1)
        /\ i + 1 <= Len(q) => WordEnd(q, i + 1) >= i + 1
        /\ i + 1 > Len(q) => WordEnd(q, i + 1) = Len(q) + 1
    BY <2>1, EndFacts
  <2> QED BY <2>1, <2>2, <2>3
<1> QED BY <1>1, <1>2, <1>3

\* The tokens are read from the first character on.
LEMMA TokensFacts ==
    ASSUME NEW q, Len(q) \in Nat, DOMAIN q = 1..Len(q)
    PROVE  \E from : /\ TokensAt(q) = from[1]
                     /\ \A i \in 1..(Len(q) + 2) : from[i] = TokensNext(q, from, i)
<1> DEFINE M == Len(q) + 2
           V == SUBSET (1..Len(q))
           B == [p \in [1..M -> V] \X (1..M) |-> TokensNext(q, p[1], p[2])]
           Defines(g) == g = [i \in 1..M |->
                IF i > Len(q) THEN {}
                ELSE IF OpensComment(q, i) THEN g[AfterComment(q, i)]
                ELSE IF q[i] \in {"'", "\""} THEN g[AfterLiteral(q, i, q[i] = "'" /\ EscapesAt(q, i))]
                ELSE IF q[i] \in {"(", ")", ";"} /\ ~Leading(q, i) THEN {i} \cup g[i + 1]
                ELSE IF q[i] \in Word
                THEN {i} \cup g[First(q, {j \in i..Len(q) : q[j] \notin Word})]
                ELSE g[i + 1]]
           from == CHOOSE g : Defines(g)
<1>1. 1 \in Nat \ {0} /\ M \in Nat
  OBVIOUS
<1>2. ASSUME NEW i \in 1..M, ~(i > Len(q))
      PROVE  /\ \A escapes : AfterLiteral(q, i, escapes) \in (i + 1)..M
             /\ OpensComment(q, i) => AfterComment(q, i) \in (i + 1)..M
             /\ q[i] \in Word => WordEnd(q, i) \in (i + 1)..M
             /\ i + 1 \in (i + 1)..M
             /\ \A j \in (i + 1)..M : j \in 1..M
             /\ i \in 1..Len(q)
  <2>1. i \in 1..Len(q) /\ i + 1 \in (i + 1)..M /\ \A j \in (i + 1)..M : j \in 1..M
    BY <1>2
  <2> QED BY <2>1, GoesOn
<1> HIDE DEF M
<1>3. ASSUME NEW g \in [1..M -> V], NEW i \in 1..M PROVE TokensNext(q, g, i) \in V
  <2>1. CASE i > Len(q)
    BY <2>1 DEF TokensNext
  <2>2. CASE ~(i > Len(q))
    <3>1. \A j \in (i + 1)..M : g[j] \in V /\ {i} \cup g[j] \in V
      BY <1>2, <2>2
    <3> HIDE DEF V
    <3> QED BY <1>2, <2>2, <3>1 DEF TokensNext
  <2> QED BY <2>1, <2>2
<1>4. {} \in V
  OBVIOUS
<1> HIDE DEF V
<1>5. B \in [[1..M -> V] \X (1..M) -> V]
  BY <1>3
<1>6. Backwards(B, 1, M, V)
  <2> SUFFICES ASSUME NEW g \in [1..M -> V], NEW h \in [1..M -> V], NEW i \in 1..M,
                      \A j \in (i + 1)..M : g[j] = h[j]
               PROVE  B[<<g, i>>] = B[<<h, i>>]
    <3> HIDE DEF B
    <3> QED BY DEF Backwards
  <2>1. TokensNext(q, g, i) = TokensNext(q, h, i)
    BY <1>2 DEF TokensNext
  <2> QED BY <2>1
<1>7. PICK g : MadeBy(g, B, 1, M, V)
  <2> HIDE DEF B
  <2> QED BY <1>1, <1>4, <1>5, <1>6, RecursionExists
<1>8. Defines(g)
  <2> DEFINE f == [i \in 1..M |-> TokensNext(q, g, i)]
  <2>1. g \in [1..M -> V] /\ \A i \in 1..M : g[i] = B[<<g, i>>]
    BY <1>7 DEF MadeBy
  <2>2. \A i \in 1..M : g[i] = TokensNext(q, g, i)
    BY <2>1
  <2>3. g = f
    BY <2>1, <2>2
  <2>4. Defines(g) <=> g = f
    BY DEF TokensNext, WordEnd
  <2> QED BY <2>3, <2>4
<1>9. Defines(from)
  <2> HIDE DEF Defines
  <2> QED BY <1>8
<1>10. TokensAt(q) = from[1]
  BY DEF TokensAt, M
<1> HIDE DEF from
<1>11. \A i \in 1..M : from[i] = TokensNext(q, from, i)
  <2>1. from = [i \in 1..M |-> TokensNext(q, from, i)]
    BY <1>9 DEF TokensNext, WordEnd
  <2> QED BY <2>1
<1> QED BY <1>10, <1>11 DEF M

\* Where there is no separator the scan finds what it does from where it moves to.
LEMMA FoundMoves ==
    ASSUME NEW q, Len(q) \in Nat, NEW found, IsFound(found, q), NEW i \in 1..(Len(q) + 2), i <= Len(q),
           NEW in \in Inside, ~(in = "code" /\ q[i] = ";" /\ Behind(q, i)),
           NEW to, NEW m, Moves(q, i, in) = <<to, m>>
    PROVE  found[i][in] <=> found[i + m][to]
<1>1. found[i][in] <=> FoundNext(q, found, i, in)
  BY DEF IsFound
<1>2. Moves(q, i, in)[1] = to /\ Moves(q, i, in)[2] = m
  <2>1. <<to, m>>[1] = to /\ <<to, m>>[2] = m
    OBVIOUS
  <2> QED BY ONLY <2>1, Moves(q, i, in) = <<to, m>>, Zenon
<1>3. FoundNext(q, found, i, in) <=> found[i + Moves(q, i, in)[2]][Moves(q, i, in)[1]]
  BY DEF FoundNext
<1> QED BY <1>1, <1>2, <1>3

\* Inside of a comment or a literal, the scan for a separator finds what there is behind
\* its end.
LEMMA FoundInside ==
    ASSUME NEW q, Len(q) \in Nat, NEW found, IsFound(found, q)
    PROVE  /\ \A i \in 1..(Len(q) + 2) :
                  i > Len(q) => \A in \in Inside : ~found[i][in]
           /\ \A i \in 1..(Len(q) + 2) : found[i]["line"] <=> found[LineEnd(q, i)]["code"]
           /\ \A i \in 1..(Len(q) + 2) :
                  found[i]["block"] <=> BlockEnd(q, i) <= Len(q) /\ found[BlockEnd(q, i) + 2]["code"]
           /\ \A i \in 1..(Len(q) + 2) : found[i]["code"] => i <= Len(q)
<1> DEFINE M == Len(q) + 2
<1>1. \A i \in 1..M, in \in Inside : found[i][in] <=> FoundNext(q, found, i, in)
  BY DEF IsFound
<1>2. /\ "line" \in Inside /\ "block" \in Inside /\ "code" \in Inside
  BY DEF Inside
<1>3. ASSUME NEW i \in 1..M, i > Len(q), NEW in \in Inside PROVE ~found[i][in]
  <2>1. ~(i <= Len(q))
    BY <1>3
  <2> QED BY <1>1, <2>1 DEF FoundNext
<1>4. ASSUME NEW i \in 1..M
      PROVE  /\ LineEnd(q, i) \in 1..(Len(q) + 1) /\ BlockEnd(q, i) \in 1..(Len(q) + 1)
             /\ i <= Len(q) => /\ q[i] = "nl" => LineEnd(q, i) = i
                               /\ q[i] # "nl" => LineEnd(q, i) = LineEnd(q, i + 1)
                               /\ Pair(q, i, "*", "/") => BlockEnd(q, i) = i
                               /\ ~Pair(q, i, "*", "/") => BlockEnd(q, i) = BlockEnd(q, i + 1)
             /\ i > Len(q) => LineEnd(q, i) = Len(q) + 1 /\ BlockEnd(q, i) = Len(q) + 1
  BY EndFacts
<1>5. ASSUME NEW i \in 1..M
      PROVE  /\ i <= Len(q) => i + 1 \in (i + 1)..M /\ i + 1 \in 1..M /\ i + 2 \in (i + 1)..M /\ i + 2 \in 1..M
             /\ i <= Len(q) \/ i > Len(q)
             /\ Len(q) + 1 \in 1..M /\ Len(q) + 1 > Len(q) /\ ~(Len(q) + 1 <= Len(q))
  OBVIOUS
<1> DEFINE Ls == {i \in 1..M : found[i]["line"] <=> found[LineEnd(q, i)]["code"]}
           Bs == {i \in 1..M : found[i]["block"] <=> BlockEnd(q, i) <= Len(q) /\ found[BlockEnd(q, i) + 2]["code"]}
<1> HIDE DEF M
<1>6. ASSUME NEW i \in 1..M, \A j \in (i + 1)..M : j \in Ls PROVE i \in Ls
  <2>1. CASE i > Len(q)
    BY <1>2, <1>3, <1>4, <1>5, <2>1
  <2>2. CASE i <= Len(q) /\ q[i] = "nl"
    <3>1. found[i]["line"] <=> found[i + 1]["code"]
      <4>1. Moves(q, i, "line") = <<"code", 1>>
        BY <2>2 DEF Moves
      <4> QED BY <1>2, <2>2, <4>1, FoundMoves DEF M
    <3>2. found[i]["code"] <=> found[i + 1]["code"]
      <4>1. Moves(q, i, "code") = <<"code", 1>>
        BY <2>2 DEF Moves, Opens, Pair, Is
      <4> QED BY <1>2, <2>2, <4>1, FoundMoves DEF M
    <3> QED BY <1>4, <2>2, <3>1, <3>2
  <2>3. CASE i <= Len(q) /\ q[i] # "nl"
    <3>1. found[i]["line"] <=> found[i + 1]["line"]
      <4>1. Moves(q, i, "line") = <<"line", 1>>
        BY <2>3 DEF Moves
      <4> QED BY <1>2, <2>3, <4>1, FoundMoves DEF M
    <3>2. i + 1 \in Ls /\ LineEnd(q, i) = LineEnd(q, i + 1)
      BY <1>4, <1>5, <1>6, <2>3
    <3> QED BY <3>1, <3>2
  <2> QED BY <1>5, <2>1, <2>2, <2>3
<1>7. ASSUME NEW i \in 1..M, \A j \in (i + 1)..M : j \in Bs PROVE i \in Bs
  <2>1. CASE i > Len(q)
    BY <1>2, <1>3, <1>4, <1>5, <2>1
  <2>2. CASE i <= Len(q) /\ Pair(q, i, "*", "/")
    <3>1. found[i]["block"] <=> found[i + 2]["code"]
      <4>1. Moves(q, i, "block") = <<"code", 2>>
        BY <2>2 DEF Moves
      <4> QED BY <1>2, <2>2, <4>1, FoundMoves DEF M
    <3> QED BY <1>4, <2>2, <3>1
  <2>3. CASE i <= Len(q) /\ ~Pair(q, i, "*", "/")
    <3>1. found[i]["block"] <=> found[i + 1]["block"]
      <4>1. Moves(q, i, "block") = <<"block", 1>>
        BY <2>3 DEF Moves
      <4> QED BY <1>2, <2>3, <4>1, FoundMoves DEF M
    <3>2. i + 1 \in Bs /\ BlockEnd(q, i) = BlockEnd(q, i + 1)
      BY <1>4, <1>5, <1>7, <2>3
    <3> QED BY <3>1, <3>2
  <2> QED BY <1>5, <2>1, <2>2, <2>3
<1>8. 1 \in Nat /\ M \in Nat
  BY DEF M
<1> HIDE DEF Ls, Bs
<1>9. \A i \in 1..M : i \in Ls /\ i \in Bs
  <2>1. \A i \in 1..M : i \in Ls
    BY <1>6, <1>8, Downwards
  <2>2. \A i \in 1..M : i \in Bs
    BY <1>7, <1>8, Downwards
  <2> QED BY <2>1, <2>2
<1>10. \A i \in 1..M : found[i]["code"] => i <= Len(q)
  BY <1>2, <1>3, <1>5
<1> QED BY <1>3, <1>9, <1>10 DEF M, Ls, Bs

\* The scan for a separator ends a literal where the reading of tokens does.
LEMMA FoundLiteral ==
    ASSUME NEW q, Len(q) \in Nat, NEW found, IsFound(found, q), NEW i \in 1..Len(q),
           NEW in \in {"single", "escaped", "double"}, q[i] = Quote(in),
           NEW escapes, escapes <=> in = "escaped"
    PROVE  found[i + 1][in] <=> found[AfterLiteral(q, i, escapes)]["code"]
<1> DEFINE M == Len(q) + 2
<1>1. PICK after : /\ AfterLiteral(q, i, escapes) = after[i + 1]
                   /\ \A j \in (i + 1)..M : /\ after[j] \in (i + 1)..M
                                            /\ after[j] = AfterNext(q, i, escapes, after, j)
  BY AfterFacts
<1>2. in \in Inside /\ "code" \in Inside /\ in # "code" /\ in # "line" /\ in # "block"
  BY DEF Inside
<1>3. ASSUME NEW j \in (i + 1)..M
      PROVE  /\ j \in 1..M /\ (j <= Len(q) \/ j > Len(q))
             /\ j <= Len(q) => /\ j + 1 \in (j + 1)..M /\ j + 2 \in (j + 1)..M
                               /\ ~(j > Len(q)) /\ j + 1 \in 1..M /\ j + 2 \in 1..M
  OBVIOUS
<1> DEFINE D == {j \in (i + 1)..M : found[j][in] <=> found[after[j]]["code"]}
<1>4. i + 1 \in Nat /\ M \in Nat /\ i + 1 \in (i + 1)..M
  OBVIOUS
<1>5. ASSUME NEW j \in (i + 1)..M, j <= Len(q), NEW to, NEW m, Moves(q, j, in) = <<to, m>>
      PROVE  found[j][in] <=> found[j + m][to]
  BY <1>2, <1>3, <1>5, FoundMoves
<1>6. ASSUME NEW j \in (i + 1)..M, j > Len(q), NEW m \in Inside PROVE ~found[j][m]
  BY <1>3, <1>6, FoundInside
<1> HIDE DEF M
<1>7. ASSUME NEW j \in (i + 1)..M, \A k \in (j + 1)..M : k \in D PROVE j \in D
  <2>1. after[j] = AfterNext(q, i, escapes, after, j)
    BY <1>1
  <2>2. CASE j > Len(q)
    <3>1. after[j] = j
      BY <2>1, <2>2 DEF AfterNext
    <3> QED BY <1>2, <1>6, <2>2, <3>1
  <2>3. CASE j <= Len(q) /\ in = "escaped" /\ q[j] = "\\"
    <3>1. after[j] = after[j + 2]
      BY <1>3, <2>1, <2>3 DEF AfterNext
    <3>2. Moves(q, j, in) = <<in, 2>>
      BY <1>2, <2>3 DEF Moves
    <3>3. found[j][in] <=> found[j + 2][in]
      BY <1>5, <2>3, <3>2
    <3>4. j + 2 \in D
      BY <1>3, <1>7, <2>3
    <3> QED BY <3>1, <3>3, <3>4
  <2>4. CASE j <= Len(q) /\ ~(in = "escaped" /\ q[j] = "\\") /\ q[j] # q[i]
    <3>1. after[j] = after[j + 1]
      BY <1>3, <2>1, <2>4 DEF AfterNext
    <3>2. Moves(q, j, in) = <<in, 1>>
      BY <1>2, <2>4 DEF Moves
    <3>3. found[j][in] <=> found[j + 1][in]
      BY <1>5, <2>4, <3>2
    <3>4. j + 1 \in D
      BY <1>3, <1>7, <2>4
    <3> QED BY <3>1, <3>3, <3>4
  <2>5. CASE j <= Len(q) /\ ~(in = "escaped" /\ q[j] = "\\") /\ q[j] = q[i] /\ Is(q, j + 1, q[i])
    <3>1. after[j] = after[j + 2]
      BY <1>3, <2>1, <2>5 DEF AfterNext
    <3>2. Moves(q, j, in) = <<in, 2>>
      BY <1>2, <2>5 DEF Moves
    <3>3. found[j][in] <=> found[j + 2][in]
      BY <1>5, <2>5, <3>2
    <3>4. j + 2 \in D
      BY <1>3, <1>7, <2>5
    <3> QED BY <3>1, <3>3, <3>4
  <2>6. CASE j <= Len(q) /\ ~(in = "escaped" /\ q[j] = "\\") /\ q[j] = q[i] /\ ~Is(q, j + 1, q[i])
    <3>1. after[j] = j + 1
      BY <1>3, <2>1, <2>6 DEF AfterNext
    <3>2. Moves(q, j, in) = <<"code", 1>>
      BY <1>2, <2>6 DEF Moves
    <3>3. found[j][in] <=> found[j + 1]["code"]
      BY <1>5, <2>6, <3>2
    <3> QED BY <3>1, <3>3
  <2> QED BY <1>3, <2>2, <2>3, <2>4, <2>5, <2>6
<1> HIDE DEF D
<1>8. \A j \in (i + 1)..M : j \in D
  BY <1>4, <1>7, Downwards
<1> QED BY <1>1, <1>4, <1>8 DEF D

\* Some of the positions have a separator with something behind it.
Sees(q, at) == \E p \in at : q[p] = ";" /\ Behind(q, p)

\* In a word there is no separator.
LEMMA FoundWord ==
    ASSUME NEW q, Len(q) \in Nat, NEW found, IsFound(found, q)
    PROVE  \A i \in 1..(Len(q) + 2) : found[i]["code"] <=> found[WordEnd(q, i)]["code"]
<1> DEFINE M == Len(q) + 2
           D == {i \in 1..M : found[i]["code"] <=> found[WordEnd(q, i)]["code"]}
<1>1. ASSUME NEW i \in 1..M
      PROVE  /\ i <= Len(q) => i + 1 \in (i + 1)..M
             /\ i <= Len(q) \/ i > Len(q)
             /\ Len(q) + 1 \in 1..M /\ Len(q) + 1 > Len(q)
  OBVIOUS
<1>2. 1 \in Nat /\ M \in Nat
  OBVIOUS
<1>3. ASSUME NEW i \in 1..M, i > Len(q) PROVE ~found[i]["code"]
  <2>1. "code" \in Inside
    BY DEF Inside
  <2> QED BY <1>3, <2>1, FoundInside
<1>4. ASSUME NEW i \in 1..M, i <= Len(q), q[i] \in Word PROVE found[i]["code"] <=> found[i + 1]["code"]
  <2>1. Moves(q, i, "code") = <<"code", 1>>
    BY <1>4 DEF Moves, Opens, Pair, Is, Word
  <2>2. "code" \in Inside /\ q[i] # ";"
    BY <1>4 DEF Inside, Word
  <2> QED BY <1>4, <2>1, <2>2, FoundMoves
<1>5. ASSUME NEW i \in 1..M
      PROVE  /\ i <= Len(q) => /\ q[i] \notin Word => WordEnd(q, i) = i
                               /\ q[i] \in Word => WordEnd(q, i) = WordEnd(q, i + 1)
             /\ i > Len(q) => WordEnd(q, i) = Len(q) + 1
  BY EndFacts
<1> HIDE DEF M
<1>6. ASSUME NEW i \in 1..M, \A j \in (i + 1)..M : j \in D PROVE i \in D
  <2>1. CASE i > Len(q)
    BY <1>1, <1>3, <1>5, <2>1
  <2>2. CASE i <= Len(q) /\ q[i] \notin Word
    BY <1>5, <2>2
  <2>3. CASE i <= Len(q) /\ q[i] \in Word
    BY <1>1, <1>4, <1>5, <1>6, <2>3
  <2> QED BY <1>1, <2>1, <2>2, <2>3
<1> HIDE DEF D
<1>7. \A i \in 1..M : i \in D
  BY <1>2, <1>6, Downwards
<1> QED BY <1>7 DEF D, M

\* From every position on, the two scanners see the same separators.
LEMMA SeeTheSame ==
    ASSUME NEW q, Len(q) \in Nat, DOMAIN q = 1..Len(q), NEW found, IsFound(found, q),
           NEW from, \A i \in 1..(Len(q) + 2) : from[i] = TokensNext(q, from, i)
    PROVE  \A i \in 1..(Len(q) + 2) : found[i]["code"] <=> Sees(q, from[i])
<1> DEFINE M == Len(q) + 2
           D == {i \in 1..M : found[i]["code"] <=> Sees(q, from[i])}
<1>1. ASSUME NEW i \in 1..M
      PROVE  /\ i \in 1..i /\ (i <= Len(q) \/ i > Len(q))
             /\ i <= Len(q) => /\ i \in 1..Len(q) /\ ~(i > Len(q)) /\ i + 1 \in (i + 1)..M
                               /\ i + 2 \in 1..M /\ i + 2 \in (i + 1)..M
  OBVIOUS
<1>2. 1 \in Nat /\ M \in Nat /\ "code" \in Inside
  BY DEF Inside
<1>3. /\ \A i \in 1..M : i > Len(q) => \A in \in Inside : ~found[i][in]
      /\ \A i \in 1..M : found[i]["line"] <=> found[LineEnd(q, i)]["code"]
      /\ \A i \in 1..M :
            found[i]["block"] <=> BlockEnd(q, i) <= Len(q) /\ found[BlockEnd(q, i) + 2]["code"]
      /\ \A i \in 1..M : found[i]["code"] => i <= Len(q)
  BY FoundInside
<1>4. ASSUME NEW i \in 1..M, i <= Len(q), ~(q[i] = ";" /\ Behind(q, i)),
             NEW to, NEW m, Moves(q, i, "code") = <<to, m>>
      PROVE  found[i]["code"] <=> found[i + m][to]
  <2>1. ~("code" = "code" /\ q[i] = ";" /\ Behind(q, i)) /\ i \in 1..(Len(q) + 2)
    BY <1>4
  <2> QED BY ONLY Len(q) \in Nat, IsFound(found, q), <1>2, <1>4, <2>1, FoundMoves
<1>5. ASSUME NEW i \in 1..M, i <= Len(q)
      PROVE  /\ \A escapes : AfterLiteral(q, i, escapes) \in (i + 1)..M
             /\ OpensComment(q, i) => AfterComment(q, i) \in (i + 1)..M
             /\ q[i] \in Word => WordEnd(q, i) \in (i + 1)..M
  BY <1>1, <1>5, GoesOn
<1>6. ASSUME Len(q) \in 1..M PROVE ~found[Len(q)]["code"]
  <2>1. ~Behind(q, Len(q))
    BY DEF Behind
  <2>2. PICK to, m : /\ to = Moves(q, Len(q), "code")[1] /\ m = Moves(q, Len(q), "code")[2]
                     /\ to \in Inside /\ m \in {1, 2}
    BY <1>2, MovesFacts
  <2>3. Len(q) + m \in 1..M /\ Len(q) + m > Len(q) /\ Len(q) <= Len(q)
    BY <2>2
  <2>4. found[Len(q)]["code"] <=> found[Len(q) + m][to]
    <3>1. found[Len(q)]["code"] <=> FoundNext(q, found, Len(q), "code")
      BY <1>2, <1>6 DEF IsFound
    <3> QED BY <2>1, <2>2, <2>3, <3>1 DEF FoundNext
  <2> QED BY <1>3, <2>2, <2>3, <2>4
<1>7. ASSUME NEW i, ~(q[i] = ";" /\ Behind(q, i)), NEW X PROVE Sees(q, {i} \cup X) <=> Sees(q, X)
  BY <1>7 DEF Sees
<1> HIDE DEF M
<1>8. ASSUME NEW i \in 1..M, \A j \in (i + 1)..M : j \in D PROVE i \in D
  <2>1. from[i] = TokensNext(q, from, i)
    BY DEF M
  <2>2. CASE i > Len(q)
    <3>1. from[i] = {}
      BY <2>1, <2>2 DEF TokensNext
    <3>2. ~found[i]["code"]
      BY <1>2, <1>3, <2>2
    <3> QED BY <3>1, <3>2 DEF Sees
  <2>3. CASE i <= Len(q) /\ OpensComment(q, i)
    <3>1. from[i] = from[AfterComment(q, i)] /\ AfterComment(q, i) \in D
      BY <1>1, <1>5, <1>8, <2>1, <2>3 DEF TokensNext
    <3>2. AfterComment(q, i) = IF q[i] = "-" THEN LineEnd(q, i + 2)
                               ELSE IF BlockEnd(q, i + 2) <= Len(q) THEN BlockEnd(q, i + 2) + 2
                               ELSE IF i + 2 > Len(q) THEN i + 2 ELSE Len(q)
      BY DEF AfterComment, LineEnd, BlockEnd
    <3>3. CASE q[i] = "-"
      <4>1. Moves(q, i, "code") = <<"line", 2>>
        BY <2>3, <3>3 DEF Moves, Opens, OpensComment, Pair, Is
      <4>2. found[i]["code"] <=> found[i + 2]["line"]
        BY <1>4, <2>3, <3>3, <4>1
      <4>3. found[i]["code"] <=> found[AfterComment(q, i)]["code"]
        BY <1>1, <1>3, <2>3, <3>2, <3>3, <4>2
      <4> QED BY <3>1, <4>3
    <3>4. CASE q[i] # "-"
      <4>1. Moves(q, i, "code") = <<"block", 2>>
        BY <2>3, <3>4 DEF Moves, Opens, OpensComment, Pair, Is
      <4>2. q[i] # ";"
        BY <2>3 DEF OpensComment, Pair, Is
      <4>3. found[i]["code"] <=> found[i + 2]["block"]
        BY <1>4, <2>3, <4>1, <4>2
      <4>4. found[i]["code"] <=> BlockEnd(q, i + 2) <= Len(q) /\ found[BlockEnd(q, i + 2) + 2]["code"]
        BY <1>1, <1>3, <2>3, <4>3
      <4>5. CASE BlockEnd(q, i + 2) <= Len(q)
        BY <3>1, <3>2, <3>4, <4>4, <4>5
      <4>6. CASE ~(BlockEnd(q, i + 2) <= Len(q)) /\ i + 2 > Len(q)
        <5>1. AfterComment(q, i) = i + 2
          BY <3>2, <3>4, <4>6
        <5>2. ~found[i + 2]["code"]
          BY <1>1, <1>2, <1>3, <2>3, <4>6
        <5> QED BY <3>1, <4>4, <4>6, <5>1, <5>2
      <4>7. CASE ~(BlockEnd(q, i + 2) <= Len(q)) /\ ~(i + 2 > Len(q))
        <5>1. AfterComment(q, i) = Len(q)
          BY <3>2, <3>4, <4>7
        <5>2. Len(q) \in 1..M
          BY <1>1, <2>3 DEF M
        <5> QED BY <1>6, <3>1, <4>4, <4>7, <5>1, <5>2
      <4> QED BY <4>5, <4>6, <4>7
    <3> QED BY <3>3, <3>4
  <2>4. CASE i <= Len(q) /\ ~OpensComment(q, i) /\ q[i] \in {"'", "\""}
    <3> DEFINE escapes == q[i] = "'" /\ EscapesAt(q, i)
               in == IF q[i] = "\"" THEN "double" ELSE IF escapes THEN "escaped" ELSE "single"
    <3>1. from[i] = from[AfterLiteral(q, i, escapes)]
      BY <1>1, <2>1, <2>4 DEF TokensNext
    <3>2. AfterLiteral(q, i, escapes) \in D
      BY <1>5, <1>8, <2>4
    <3>3. Moves(q, i, "code") = <<in, 1>>
      <4>1. Opens(q, i) = in
        BY <2>4 DEF Opens, OpensComment
      <4>2. in \notin {"line", "block"}
        OBVIOUS
      <4> QED BY <4>1, <4>2 DEF Moves
    <3>4. in \in {"single", "escaped", "double"} /\ q[i] = Quote(in) /\ (escapes <=> in = "escaped")
      BY <2>4 DEF Quote
    <3>5. q[i] # ";"
      BY <2>4
    <3> HIDE DEF in, escapes
    <3>6. found[i]["code"] <=> found[i + 1][in]
      BY <1>4, <2>4, <3>3, <3>5
    <3>7. found[i + 1][in] <=> found[AfterLiteral(q, i, escapes)]["code"]
      <4>1. i \in 1..Len(q)
        BY <1>1, <2>4
      <4> QED BY <3>4, <4>1, FoundLiteral
    <3> QED BY <3>1, <3>2, <3>6, <3>7
  <2>5. CASE i <= Len(q) /\ ~OpensComment(q, i) /\ q[i] \notin {"'", "\""}
    <3>1. Moves(q, i, "code") = <<"code", 1>>
      <4>1. Opens(q, i) = "code"
        BY <2>5 DEF Opens, OpensComment
      <4> QED BY <4>1 DEF Moves
    <3>2. CASE q[i] = ";" /\ Behind(q, i)
      <4>1. found[i]["code"]
        <5>1. FoundNext(q, found, i, "code")
          BY <2>5, <3>2 DEF FoundNext
        <5> QED BY <1>2, <5>1 DEF IsFound, M
      <4>2. from[i] = {i} \cup from[i + 1]
        <5>1. ~Leading(q, i)
          <6>1. i \in 1..i /\ q[i] # "("
            BY <1>1, <3>2
          <6> QED BY <6>1 DEF Leading
        <5> QED BY <1>1, <2>1, <2>5, <3>2, <5>1 DEF TokensNext
      <4>3. Sees(q, from[i])
        BY <3>2, <4>2 DEF Sees
      <4> QED BY <4>1, <4>3
    <3>3. CASE ~(q[i] = ";" /\ Behind(q, i))
      <4>1. found[i]["code"] <=> found[i + 1]["code"]
        BY <1>4, <2>5, <3>1, <3>3
      <4>2. i + 1 \in D
        BY <1>1, <1>8, <2>5
      <4>3. CASE q[i] \in {"(", ")", ";"} /\ ~Leading(q, i)
        <5>1. from[i] = {i} \cup from[i + 1]
          BY <1>1, <2>1, <2>5, <4>3 DEF TokensNext
        <5>2. Sees(q, from[i]) <=> Sees(q, from[i + 1])
          BY <1>7, <3>3, <5>1
        <5> QED BY <4>1, <4>2, <5>2
      <4>4. CASE ~(q[i] \in {"(", ")", ";"} /\ ~Leading(q, i)) /\ q[i] \in Word
        <5>1. from[i] = {i} \cup from[WordEnd(q, i)]
          BY <1>1, <2>1, <2>5, <4>4 DEF TokensNext
        <5>2. Sees(q, from[i]) <=> Sees(q, from[WordEnd(q, i)])
          BY <1>7, <3>3, <5>1
        <5>3. WordEnd(q, i) \in D
          BY <1>5, <1>8, <2>5, <4>4
        <5>4. found[i]["code"] <=> found[WordEnd(q, i)]["code"]
          BY FoundWord DEF M
        <5> QED BY <5>2, <5>3, <5>4
      <4>5. CASE ~(q[i] \in {"(", ")", ";"} /\ ~Leading(q, i)) /\ q[i] \notin Word
        <5>1. from[i] = from[i + 1]
          BY <1>1, <2>1, <2>5, <4>5 DEF TokensNext
        <5> QED BY <4>1, <4>2, <5>1
      <4> QED BY <4>3, <4>4, <4>5
    <3> QED BY <3>2, <3>3
  <2> QED BY <1>1, <2>2, <2>3, <2>4, <2>5
<1> HIDE DEF D
<1>9. \A i \in 1..M : i \in D
  BY <1>2, <1>8, Downwards
<1> QED BY <1>9 DEF D, M

\* The two scanners agree on every text.
LEMMA TextsRight ==
    ASSUME NEW T, NEW q \in Seq(T)
    PROVE  ScannersAgree(q)
<1>1. Len(q) \in Nat /\ DOMAIN q = 1..Len(q)
  OBVIOUS
<1>2. PICK found : IsFound(found, q) /\ (HasSeparator(q) <=> found[1]["code"])
  BY <1>1, FoundFacts
<1>3. PICK from : /\ TokensAt(q) = from[1]
                  /\ \A i \in 1..(Len(q) + 2) : from[i] = TokensNext(q, from, i)
  BY <1>1, TokensFacts
<1>4. 1 \in 1..(Len(q) + 2)
  BY <1>1
<1>5. found[1]["code"] <=> Sees(q, from[1])
  BY <1>1, <1>2, <1>3, <1>4, SeeTheSame
<1> QED BY <1>2, <1>3, <1>5 DEF ScannersAgree, Sees

----------------------------------------------------------------------------
(* The classes of statements *)

\* The tokens from a position on.
Rest(ts, k) == SubSeq(ts, k, Len(ts))

\* What there is of them, and of what is left of them.
LEMMA RestFacts ==
    ASSUME NEW T, NEW ts \in Seq(T), NEW k \in 1..Len(ts)
    PROVE  /\ Rest(ts, k) \in Seq(T) /\ Len(Rest(ts, k)) = Len(ts) - k + 1
           /\ Rest(ts, k) # <<>> /\ Rest(ts, k)[1] = ts[k]
           /\ \A c \in 1..(Len(ts) - k + 1) : Rest(Rest(ts, k), c) = Rest(ts, k + c - 1)
<1>1. Rest(ts, k) \in Seq(T) /\ Len(Rest(ts, k)) = Len(ts) - k + 1
  BY DEF Rest
<1>2. \A i \in 1..(Len(ts) - k + 1) : Rest(ts, k)[i] = ts[i + k - 1]
  BY DEF Rest
<1>3. Rest(ts, k) # <<>> /\ Rest(ts, k)[1] = ts[k]
  <2>1. 1 \in 1..(Len(ts) - k + 1) /\ 1 + k - 1 = k /\ Len(ts) - k + 1 # 0
    OBVIOUS
  <2>2. Rest(ts, k) # <<>>
    BY <1>1, <2>1
  <2>3. Rest(ts, k)[1] = ts[1 + k - 1]
    BY <1>2, <2>1
  <2> QED BY <2>1, <2>2, <2>3
<1>4. ASSUME NEW c \in 1..(Len(ts) - k + 1) PROVE Rest(Rest(ts, k), c) = Rest(ts, k + c - 1)
  <2> DEFINE r == Rest(ts, k)
             m == Len(ts) - k + 1
             n == Len(ts) - (k + c - 1) + 1
  <2>1. /\ n \in Nat /\ k + c - 1 \in 1..Len(ts) /\ 1 + m - c = n /\ 1 + Len(ts) - (k + c - 1) = n
        /\ \A i \in 1..n : i + c - 1 \in 1..m /\ (i + c - 1) + k - 1 = i + (k + c - 1) - 1
    OBVIOUS
  <2>2. r \in Seq(T) /\ Len(r) = m
    BY <1>1
  <2>3. SubSeq(r, c, m) = [i \in 1..n |-> r[i + c - 1]]
    <3> HIDE DEF r, m, n
    <3> QED BY <2>1, <2>2
  <2>4. SubSeq(ts, k + c - 1, Len(ts)) = [i \in 1..n |-> ts[i + (k + c - 1) - 1]]
    <3> HIDE DEF n
    <3> QED BY <2>1
  <2>5. \A i \in 1..n : r[i + c - 1] = ts[i + (k + c - 1) - 1]
    BY <1>2, <2>1
  <2> HIDE DEF r, n, m
  <2>6. SubSeq(r, c, m) = SubSeq(ts, k + c - 1, Len(ts))
    BY <2>3, <2>4, <2>5
  <2> QED BY <2>2, <2>6 DEF Rest, r, m
<1> QED BY <1>1, <1>3, <1>4

\* What EXPLAIN ANALYZE executes is what is left of the tokens behind the first.
LEMMA ExplainedFacts ==
    ASSUME NEW T, NEW ts \in Seq(T), NEW k \in 1..Len(ts)
    PROVE  \/ Explained(Rest(ts, k)) = <<>>
           \/ \E j \in (k + 1)..Len(ts) : /\ Explained(Rest(ts, k)) = Rest(ts, j)
                                          /\ j = Len(ts) + 1 - Len(Explained(Rest(ts, k)))
<1> DEFINE r == Rest(ts, k)
           m == Len(ts) - k + 1
<1>1. r \in Seq(T) /\ Len(r) = m /\ m \in Nat \ {0} /\ Len(ts) \in Nat /\ DOMAIN r = 1..m
  <2>1. r \in Seq(T) /\ Len(r) = m
    BY RestFacts
  <2> QED BY <2>1
<1>2. ASSUME NEW c \in 2..(m + 2)
      PROVE  \/ SubSeq(r, c, Len(r)) = <<>>
             \/ \E j \in (k + 1)..Len(ts) : /\ SubSeq(r, c, Len(r)) = Rest(ts, j)
                                            /\ j = Len(ts) + 1 - Len(SubSeq(r, c, Len(r)))
  <2>1. CASE c > m
    <3>1. SubSeq(r, c, m) = <<>>
      <4> HIDE DEF r, m
      <4>1. 1 + m - c \in Int /\ 1 + m - c <= 0
        BY <1>1, <2>1
      <4>2. 1..(1 + m - c) = {}
        BY <4>1
      <4>3. SubSeq(r, c, m) = [i \in 1..(1 + m - c) |-> r[i + c - 1]]
        BY <1>1, <2>1
      <4> QED BY <4>2, <4>3
    <3> QED BY <1>1, <3>1
  <2>2. CASE c <= m
    <3> DEFINE j == k + c - 1
    <3>1. c \in 1..m /\ j \in (k + 1)..Len(ts) /\ j \in 1..Len(ts) /\ j = Len(ts) + 1 - (Len(ts) - j + 1)
      BY <2>2
    <3>2. Rest(r, c) = Rest(ts, j)
      BY <3>1, RestFacts
    <3> HIDE DEF j, r, m
    <3>3. Len(Rest(ts, j)) = Len(ts) - j + 1
      BY <3>1, RestFacts
    <3> QED BY <3>1, <3>2, <3>3 DEF Rest
  <2> QED BY <1>1, <2>1, <2>2
<1> HIDE DEF r, m
<1>3. CASE Is(r, 2, "(")
  <2> DEFINE at == {j \in 3..Len(r) : Depth(r, j + 1) = 0}
             close == First(r, at)
  <2>1. 2 <= m
    BY <1>1, <1>3 DEF Is
  <2>2. close \in 3..m \/ close = m + 1
    <3>1. at \in SUBSET (3..Len(r)) /\ Len(r) \in Nat /\ 3 \in Nat
      BY <1>1
    <3> HIDE DEF at
    <3>2. IF at = {} THEN First(r, at) = Len(r) + 1
          ELSE First(r, at) \in at /\ \A j \in at : First(r, at) <= j
      BY <3>1, FirstFacts
    <3> QED BY <1>1, <3>1, <3>2
  <2>3. Explained(r) = SubSeq(r, close + 1, Len(r)) \/ Explained(r) = <<>>
    BY <1>3 DEF Explained
  <2> HIDE DEF close
  <2>4. close + 1 \in 2..(m + 2)
    BY <1>1, <2>1, <2>2
  <2> QED BY <1>2, <2>3, <2>4 DEF r
<1>4. CASE ~Is(r, 2, "(")
  <2>1. Explained(r) = SubSeq(r, 3, Len(r)) \/ Explained(r) = <<>>
    BY <1>4 DEF Explained
  <2>2. 3 \in 2..(m + 2)
    BY <1>1
  <2> QED BY <1>2, <2>1, <2>2 DEF r
<1> QED BY <1>3, <1>4

\* The verb that the tokens from a position on are classified by.
VerbAt(ts, i) == IF ts[i] = "WITH" THEN MainVerb(Rest(ts, i)) ELSE ts[i]

\* What the classification goes on with.
ClassNext(ts, class, i) ==
    IF i > Len(ts) THEN "unknown"
    ELSE IF VerbAt(ts, i) # "EXPLAIN" THEN OneStatement(Rest(ts, i), VerbAt(ts, i))
    ELSE IF Explained(Rest(ts, i)) = <<>> THEN "read_query"
    ELSE class[Len(ts) + 1 - Len(Explained(Rest(ts, i)))]

\* Tokens are classified from the first one on.
LEMMA ClassFacts ==
    ASSUME NEW T, NEW ts \in Seq(T)
    PROVE  \E class : /\ Classify(ts) = class[1]
                      /\ \A i \in 1..(Len(ts) + 1) : class[i] = ClassNext(ts, class, i)
<1> DEFINE M == Len(ts) + 1
           V == {"unknown", "write_dml", "read_query", "ddl", "procedure_call"}
           B == [p \in [1..M -> V] \X (1..M) |-> ClassNext(ts, p[1], p[2])]
           verb(i) == IF ts[i] = "WITH" THEN MainVerb(SubSeq(ts, i, Len(ts))) ELSE ts[i]
           Defines(g) == g = [i \in 1..M |->
                IF i > Len(ts) THEN "unknown"
                ELSE LET rest == SubSeq(ts, i, Len(ts))
                     IN  IF verb(i) # "EXPLAIN" THEN OneStatement(rest, verb(i))
                         ELSE IF Explained(rest) = <<>> THEN "read_query"
                         ELSE g[Len(ts) + 1 - Len(Explained(rest))]]
           class == CHOOSE g : Defines(g)
<1>1. 1 \in Nat \ {0} /\ M \in Nat /\ "unknown" \in V /\ "read_query" \in V
  OBVIOUS
<1>2. ASSUME NEW i \in 1..M, ~(i > Len(ts)), Explained(Rest(ts, i)) # <<>>
      PROVE  Len(ts) + 1 - Len(Explained(Rest(ts, i))) \in (i + 1)..M
  <2>1. i \in 1..Len(ts) /\ Len(ts) \in Nat
    BY <1>2
  <2>2. PICK j \in (i + 1)..Len(ts) : j = Len(ts) + 1 - Len(Explained(Rest(ts, i)))
    BY <1>2, <2>1, ExplainedFacts
  <2>3. j \in (i + 1)..M
    BY <2>1
  <2> QED BY <2>2, <2>3
<1>3. \A i \in 1..M : \A j \in (i + 1)..M : j \in 1..M
  OBVIOUS
<1>4. \A t, v : OneStatement(t, v) \in V
  BY DEF OneStatement
<1> HIDE DEF M, V
<1>5. ASSUME NEW g \in [1..M -> V], NEW i \in 1..M PROVE ClassNext(ts, g, i) \in V
  BY <1>1, <1>2, <1>3, <1>4 DEF ClassNext
<1>6. B \in [[1..M -> V] \X (1..M) -> V]
  BY <1>5
<1>7. Backwards(B, 1, M, V)
  <2> SUFFICES ASSUME NEW g \in [1..M -> V], NEW h \in [1..M -> V], NEW i \in 1..M,
                      \A j \in (i + 1)..M : g[j] = h[j]
               PROVE  B[<<g, i>>] = B[<<h, i>>]
    <3> HIDE DEF B
    <3> QED BY DEF Backwards
  <2>1. ClassNext(ts, g, i) = ClassNext(ts, h, i)
    BY <1>2 DEF ClassNext
  <2> QED BY <2>1
<1>8. PICK g : MadeBy(g, B, 1, M, V)
  <2> HIDE DEF B
  <2> QED BY <1>1, <1>6, <1>7, RecursionExists
<1>9. Defines(g)
  <2> DEFINE f == [i \in 1..M |-> ClassNext(ts, g, i)]
  <2>1. g \in [1..M -> V] /\ \A i \in 1..M : g[i] = B[<<g, i>>]
    BY <1>8 DEF MadeBy
  <2>2. \A i \in 1..M : g[i] = ClassNext(ts, g, i)
    BY <2>1
  <2>3. g = f
    BY <2>1, <2>2
  <2>4. Defines(g) <=> g = f
    BY DEF ClassNext, VerbAt, Rest
  <2> QED BY <2>3, <2>4
<1>10. Defines(class)
  <2> HIDE DEF Defines
  <2> QED BY <1>9
<1>11. Classify(ts) = class[1]
  BY DEF Classify, M
<1> HIDE DEF class
<1>12. \A i \in 1..M : class[i] = ClassNext(ts, class, i)
  <2>1. class = [i \in 1..M |-> ClassNext(ts, class, i)]
    BY <1>10 DEF ClassNext, VerbAt, Rest
  <2> QED BY <2>1
<1> QED BY <1>11, <1>12 DEF M

\* A verb behind WITH that is SELECT is where the statement itself begins, and there is no
\* modifying verb before it.
LEMMA MainFacts ==
    ASSUME NEW T, NEW ts \in Seq(T)
    PROVE  /\ MainVerb(ts) \in Modifying \cup {"SELECT", "WITH"}
           /\ MainVerb(ts) = "SELECT" => /\ Main(ts) \in 2..Len(ts) /\ ts[Main(ts)] = "SELECT"
                                         /\ \A j \in 2..Main(ts) : ts[j] \notin Modifying
<1> DEFINE at == {j \in 2..Len(ts) : ts[j] \in Modifying \/ (ts[j] = "SELECT" /\ Depth(ts, j) = 0)}
           main == {j \in 2..Len(ts) : ts[j] \in Modifying \cup {"SELECT"} /\ Depth(ts, j) = 0}
           i == First(ts, at)
           m == First(ts, main)
<1>1. /\ Len(ts) \in Nat /\ 2 \in Nat
      /\ at \in SUBSET (2..Len(ts)) /\ main \in SUBSET (2..Len(ts)) /\ main \subseteq at
  OBVIOUS
<1>2. \A j \in at : ts[j] \in Modifying \cup {"SELECT"}
  OBVIOUS
<1>3. \A j \in at : ts[j] \notin Modifying => j \in main
  OBVIOUS
<1>4. \A j \in 2..Len(ts) : ts[j] \in Modifying => j \in at
  OBVIOUS
<1>5. MainVerb(ts) = IF i > Len(ts) THEN "WITH" ELSE ts[i]
  BY DEF MainVerb
<1>6. Main(ts) = m
  BY DEF Main
<1> HIDE DEF at, main
<1>7. IF at = {} THEN i = Len(ts) + 1 ELSE i \in at /\ \A k \in at : i <= k
  BY <1>1, FirstFacts
<1>8. IF main = {} THEN m = Len(ts) + 1 ELSE m \in main /\ \A k \in main : m <= k
  BY <1>1, FirstFacts
<1> HIDE DEF i, m
<1>9. MainVerb(ts) \in Modifying \cup {"SELECT", "WITH"}
  <2>1. CASE at = {}
    BY <1>1, <1>5, <1>7, <2>1
  <2>2. CASE at # {}
    BY <1>1, <1>2, <1>5, <1>7, <2>2
  <2> QED BY <2>1, <2>2
<1>10. ASSUME MainVerb(ts) = "SELECT"
       PROVE  /\ Main(ts) \in 2..Len(ts) /\ ts[Main(ts)] = "SELECT"
              /\ \A j \in 2..Main(ts) : ts[j] \notin Modifying
  <2>1. at # {} /\ i \in at /\ ts[i] = "SELECT"
    BY <1>1, <1>5, <1>7, <1>10
  <2>2. i \in main
    BY <1>3, <2>1 DEF Modifying
  <2>3. m \in main /\ m <= i /\ i <= m /\ m \in 2..Len(ts) /\ i \in 2..Len(ts)
    BY <1>1, <1>7, <1>8, <2>1, <2>2
  <2>4. m = i
    BY <2>3
  <2>5. ASSUME NEW j \in 2..m, ts[j] \in Modifying PROVE FALSE
    <3>1. j \in 2..Len(ts) /\ j <= m
      BY <2>3
    <3>2. j \in at
      BY <1>4, <2>5, <3>1
    <3>3. j = i
      BY <1>7, <2>1, <2>3, <2>4, <3>1, <3>2
    <3> QED BY <2>1, <2>5, <3>3 DEF Modifying
  <2> QED BY <1>6, <2>1, <2>3, <2>4, <2>5
<1> QED BY <1>9, <1>10

\* The texts that EXPLAIN may lead to from ts and that are classified as ts is.
Like(ts, class) == {<<>>} \cup {Rest(ts, k) : k \in {i \in 1..Len(ts) : class[i] = class[1]}}

\* What is reached with one EXPLAIN more.
Further(texts) == texts \cup {Explained(t) : t \in {u \in texts : u # <<>> /\ u[1] = "EXPLAIN"}}

\* EXPLAIN leads from texts that are classified as reads to texts that are.
LEMMA FurtherReads ==
    ASSUME NEW T, NEW ts \in Seq(T), NEW class, class[1] = "read_query",
           \A i \in 1..(Len(ts) + 1) : class[i] = ClassNext(ts, class, i),
           NEW texts \in SUBSET Like(ts, class)
    PROVE  Further(texts) \in SUBSET Like(ts, class)
<1>1. ASSUME NEW t \in texts, t # <<>>, t[1] = "EXPLAIN" PROVE Explained(t) \in Like(ts, class)
  <2>1. PICK k \in 1..Len(ts) : t = Rest(ts, k) /\ class[k] = class[1]
    BY <1>1 DEF Like
  <2>2. ts[k] = "EXPLAIN" /\ VerbAt(ts, k) = "EXPLAIN"
    <3>1. ts[k] = "EXPLAIN"
      BY <1>1, <2>1, RestFacts
    <3> QED BY <3>1 DEF VerbAt
  <2>3. CASE Explained(t) = <<>>
    BY <2>3 DEF Like
  <2>4. CASE Explained(t) # <<>>
    <3>1. PICK j \in (k + 1)..Len(ts) : /\ Explained(t) = Rest(ts, j)
                                        /\ j = Len(ts) + 1 - Len(Explained(t))
      BY <2>1, <2>4, ExplainedFacts
    <3>2. /\ k \in 1..(Len(ts) + 1) /\ ~(k > Len(ts)) /\ j \in 1..Len(ts)
      BY <2>1, <3>1
    <3>3. class[k] = class[j]
      <4>1. class[k] = ClassNext(ts, class, k)
        BY <3>2
      <4>2. Len(ts) + 1 - Len(Explained(Rest(ts, k))) = j
        BY <2>1, <3>1
      <4>3. ClassNext(ts, class, k) = class[Len(ts) + 1 - Len(Explained(Rest(ts, k)))]
        BY <2>1, <2>2, <2>4, <3>2 DEF ClassNext
      <4> QED BY <4>1, <4>2, <4>3
    <3>4. j \in {i \in 1..Len(ts) : class[i] = class[1]}
      BY <2>1, <3>2, <3>3
    <3> QED BY <3>1, <3>4 DEF Like
  <2> QED BY <2>3, <2>4
<1> QED BY <1>1 DEF Further

\* The verbs that are executed for texts: their own, those in the parentheses of a WITH,
\* and the one behind it.
Behinds(texts) == {t \in texts : t[1] = "WITH"}

Inners(texts) ==
    UNION {{t[j] : j \in {k \in 3..Len(t) : t[k - 1] = "(" /\ k <= Main(t)}} \cap Modifying :
           t \in Behinds(texts)}

Mains(texts) == {t[Main(t)] : t \in {u \in Behinds(texts) : Main(u) <= Len(u)}}

Verbs(texts) == {t[1] : t \in texts} \cup Inners(texts) \cup Mains(texts)

\* What is executed for the tokens of a read are the verbs of such texts.
LEMMA ExecutedFacts ==
    ASSUME NEW T, NEW ts \in Seq(T), NEW class, class[1] = "read_query",
           \A i \in 1..(Len(ts) + 1) : class[i] = ClassNext(ts, class, i)
    PROVE  \E texts \in SUBSET Like(ts, class) :
              Executed(ts) = Verbs({t \in texts : t # <<>> /\ t[1] # "EXPLAIN"})
<1> DEFINE n == Len(ts)
           S == SUBSET Like(ts, class)
           base == {ts}
           F == [p \in S \X (1..n) |-> Further(p[1])]
           Defines(g) == g = [m \in 0..n |->
                           IF m = 0 THEN {ts}
                           ELSE g[m - 1] \cup
                                {Explained(t) : t \in {u \in g[m - 1] :
                                                       u # <<>> /\ u[1] = "EXPLAIN"}}]
           explains == CHOOSE g : Defines(g)
<1>1. n \in Nat /\ 0 \in 0..n /\ n \in 0..n /\ \A m \in 0..n : m # 0 => m - 1 \in 0..n /\ m - 1 < m
  OBVIOUS
<1>2. base \in S
  <2>1. CASE ts = <<>>
    BY <2>1 DEF Like
  <2>2. CASE ts # <<>>
    <3>1. 1 \in 1..Len(ts)
      BY <2>2
    <3>2. ts = Rest(ts, 1)
      BY <3>1 DEF Rest
    <3>3. 1 \in {i \in 1..Len(ts) : class[i] = class[1]}
      BY <3>1
    <3> QED BY <3>2, <3>3 DEF Like
  <2> QED BY <2>1, <2>2
<1>3. ASSUME NEW v \in S PROVE Further(v) \in S
  BY FurtherReads
<1> HIDE DEF S, n
<1>4. F \in [S \X (1..n) -> S]
  BY <1>3
<1>5. PICK iter : IsFold(iter, S, base, n, F)
  <2> HIDE DEF F, base
  <2> QED BY <1>1, <1>2, <1>4, FoldExists
<1>6. Grows(iter, S, base, n, F)
  <2> HIDE DEF F, base
  <2> QED BY <1>1, <1>5, FoldNext
<1> DEFINE g == [m \in 0..n |-> iter[1..m]]
<1>7. ASSUME NEW m \in 0..n, m # 0 PROVE g[m] = Further(g[m - 1])
  <2>1. m - 1 \in 0..(n - 1) /\ m - 1 \in 0..n /\ m - 1 + 1 = m /\ m \in 1..n
    BY <1>1, <1>7
  <2>2. iter[1..m] = F[<<iter[1..(m - 1)], m>>] /\ iter[1..(m - 1)] \in S
    <3> HIDE DEF F, base
    <3> QED BY <1>6, <2>1 DEF Grows
  <2>3. F[<<iter[1..(m - 1)], m>>] = Further(iter[1..(m - 1)])
    BY <2>1, <2>2
  <2> HIDE DEF F
  <2> QED BY <2>1, <2>2, <2>3
<1>8. g[0] = {ts}
  BY <1>1, <1>6 DEF Grows
<1>9. Defines(g)
  <2> DEFINE f == [m \in 0..n |-> IF m = 0 THEN {ts} ELSE Further(g[m - 1])]
  <2>1. g = f
    <3>1. \A m \in 0..n : g[m] = IF m = 0 THEN {ts} ELSE Further(g[m - 1])
      <4> HIDE DEF g
      <4> QED BY <1>7, <1>8
    <3>2. g = [m \in 0..n |-> g[m]]
      OBVIOUS
    <3> HIDE DEF g
    <3> QED BY <3>1, <3>2
  <2>2. Defines(g) <=> g = f
    <3> HIDE DEF g
    <3> QED BY DEF Further
  <2> QED BY <2>1, <2>2
<1>10. Defines(explains)
  <2> HIDE DEF Defines, g
  <2> QED BY <1>9
<1>11. Executed(ts) = Verbs({t \in explains[n] : t # <<>> /\ t[1] # "EXPLAIN"})
  BY DEF Executed, Verbs, Inners, Mains, Behinds, n
<1> HIDE DEF explains
<1>12. explains[n] \in S
  <2> DEFINE D == {m \in 0..n : explains[m] \in S}
  <2>1. explains = [m \in 0..n |-> IF m = 0 THEN {ts} ELSE Further(explains[m - 1])]
    BY <1>10 DEF Further
  <2> HIDE DEF Defines, g, F
  <2>2. \A m \in 0..n : explains[m] = IF m = 0 THEN {ts} ELSE Further(explains[m - 1])
    BY <2>1
  <2>3. 0 \in D
    BY <1>1, <1>2, <2>2
  <2>4. ASSUME NEW m \in 0..n, m < n, m \in D PROVE m + 1 \in D
    <3>1. m + 1 \in 0..n /\ m + 1 # 0 /\ (m + 1) - 1 = m
      BY <1>1, <2>4
    <3>2. explains[m + 1] = Further(explains[m])
      BY <2>2, <3>1
    <3> QED BY <1>3, <2>4, <3>1, <3>2
  <2> HIDE DEF D
  <2>5. 0..n \subseteq D
    BY <1>1, <2>3, <2>4, UpTo
  <2> QED BY <1>1, <2>5 DEF D
<1> QED BY <1>11, <1>12 DEF S

Writing == Modifying \cup {"CREATE", "CALL"}

\* A text that is classified as a read by a verb of its own executes nothing that writes.
LEMMA ReadExecutes ==
    ASSUME NEW T, NEW t \in Seq(T), t # <<>>, NEW v,
           v = IF t[1] = "WITH" THEN MainVerb(t) ELSE t[1], OneStatement(t, v) = "read_query"
    PROVE  /\ t[1] \notin Writing
           /\ t[1] = "WITH" => /\ \A j \in 2..Len(t) : j <= Main(t) => t[j] \notin Modifying
                               /\ t[Main(t)] \notin Writing
<1>1. v \in {"PRAGMA", "SELECT"}
  BY DEF OneStatement, Modifying
<1>2. CASE t[1] # "WITH"
  <2>1. t[1] \in {"PRAGMA", "SELECT"}
    BY <1>1, <1>2
  <2> QED BY <1>2, <2>1 DEF Writing, Modifying
<1>3. CASE t[1] = "WITH"
  <2>1. MainVerb(t) \in Modifying \cup {"SELECT", "WITH"}
    BY MainFacts
  <2>2. MainVerb(t) = "SELECT"
    BY <1>1, <1>3, <2>1 DEF Modifying
  <2>3. /\ Main(t) \in 2..Len(t) /\ t[Main(t)] = "SELECT"
        /\ \A j \in 2..Main(t) : t[j] \notin Modifying
    BY <2>2, MainFacts
  <2>4. ASSUME NEW j \in 2..Len(t), j <= Main(t) PROVE t[j] \notin Modifying
    <3>1. j \in 2..Main(t)
      BY <2>3, <2>4
    <3> QED BY <2>3, <3>1
  <2>5. "WITH" \notin Writing /\ "SELECT" \notin Writing
    BY DEF Writing, Modifying
  <2> QED BY <1>3, <2>3, <2>4, <2>5
<1> QED BY <1>2, <1>3

\* Nothing that is classified as a read executes a statement that writes.
LEMMA ReadsRight ==
    ASSUME NEW T, NEW ts \in Seq(T)
    PROVE  ReadsOnlyRead(ts)
<1> SUFFICES ASSUME Classify(ts) = "read_query" PROVE Executed(ts) \cap Writing = {}
  BY DEF ReadsOnlyRead, Writing
<1>1. PICK class : /\ Classify(ts) = class[1]
                   /\ \A i \in 1..(Len(ts) + 1) : class[i] = ClassNext(ts, class, i)
  BY ClassFacts
<1>2. PICK texts \in SUBSET Like(ts, class) :
              Executed(ts) = Verbs({t \in texts : t # <<>> /\ t[1] # "EXPLAIN"})
  BY <1>1, ExecutedFacts
<1> DEFINE X == {t \in texts : t # <<>> /\ t[1] # "EXPLAIN"}
<1>3. ASSUME NEW t \in X
      PROVE  /\ t \in Seq(T) /\ t[1] \notin Writing
             /\ t[1] = "WITH" => /\ \A j \in 2..Len(t) : j <= Main(t) => t[j] \notin Modifying
                                 /\ t[Main(t)] \notin Writing
  <2>1. PICK k \in 1..Len(ts) : t = Rest(ts, k) /\ class[k] = class[1]
    BY DEF Like
  <2>2. t \in Seq(T) /\ t # <<>> /\ t[1] = ts[k]
    BY <2>1, RestFacts
  <2>3. k \in 1..(Len(ts) + 1) /\ ~(k > Len(ts))
    BY <2>1
  <2>4. ClassNext(ts, class, k) = "read_query"
    BY <1>1, <2>1, <2>3
  <2>5. VerbAt(ts, k) = IF t[1] = "WITH" THEN MainVerb(t) ELSE t[1]
    BY <2>1, <2>2 DEF VerbAt
  <2>6. VerbAt(ts, k) # "EXPLAIN"
    <3>1. t[1] # "EXPLAIN"
      OBVIOUS
    <3>2. MainVerb(t) # "EXPLAIN"
      <4>1. MainVerb(t) \in Modifying \cup {"SELECT", "WITH"}
        BY <2>2, MainFacts
      <4> QED BY <4>1 DEF Modifying
    <3> QED BY <2>5, <3>1, <3>2
  <2>7. OneStatement(t, VerbAt(ts, k)) = "read_query"
    BY <2>1, <2>3, <2>4, <2>6 DEF ClassNext
  <2> HIDE DEF X
  <2> QED BY <2>2, <2>5, <2>7, ReadExecutes
<1> HIDE DEF X
<1>4. ASSUME NEW w \in Verbs(X) PROVE w \notin Writing
  <2>1. w \in {t[1] : t \in X} \/ w \in Inners(X) \/ w \in Mains(X)
    BY DEF Verbs
  <2>2. CASE w \in {t[1] : t \in X}
    BY <1>3, <2>2
  <2>3. w \notin Inners(X)
    <3> SUFFICES ASSUME NEW t \in Behinds(X), w \in Modifying,
                        NEW j \in {k \in 3..Len(t) : t[k - 1] = "(" /\ k <= Main(t)}, w = t[j]
                 PROVE  FALSE
      BY DEF Inners
    <3>1. t \in X /\ t[1] = "WITH" /\ j \in 3..Len(t) /\ j <= Main(t)
      BY DEF Behinds
    <3>2. t \in Seq(T)
      BY <1>3, <3>1
    <3>3. j \in 2..Len(t)
      BY <3>1, <3>2
    <3> QED BY <1>3, <3>1, <3>3
  <2>4. CASE w \in Mains(X)
    <3>1. PICK t \in X : t[1] = "WITH" /\ w = t[Main(t)]
      BY <2>4 DEF Mains, Behinds
    <3> QED BY <1>3, <3>1
  <2> QED BY <2>1, <2>2, <2>3, <2>4
<1> QED BY <1>2, <1>4 DEF X

----------------------------------------------------------------------------
(* The candidates of the matcher *)

\* Finite scores.
Score == [n : Int, d : Nat \ {0}]

\* Finite scores are ordered, with ties.
LEMMA LessFacts ==
    ASSUME NEW x \in Score, NEW y \in Score, NEW z \in Score
    PROVE  /\ ~Less(x, x)
           /\ Less(x, y) => ~Less(y, x)
           /\ ~Less(x, y) /\ ~Less(y, z) => ~Less(x, z)
<1>1. /\ x.n \in Int /\ y.n \in Int /\ z.n \in Int
      /\ x.d \in Nat \ {0} /\ y.d \in Nat \ {0} /\ z.d \in Nat \ {0}
  BY DEF Score
<1>2. /\ Less(x, x) <=> x.n * x.d < x.n * x.d
      /\ Less(x, y) <=> x.n * y.d < y.n * x.d
      /\ Less(y, x) <=> y.n * x.d < x.n * y.d
      /\ Less(y, z) <=> y.n * z.d < z.n * y.d
      /\ Less(x, z) <=> x.n * z.d < z.n * x.d
  BY <1>1 DEF Less
<1>3. ASSUME NEW a \in Int, NEW b \in Int, NEW c \in Int,
             NEW k \in Nat \ {0}, NEW l \in Nat \ {0}, NEW m \in Nat \ {0},
             a * l >= b * k, b * m >= c * l
      PROVE  a * m >= c * k
  <2>1. (a * l) * m >= (b * k) * m
    BY <1>3
  <2>2. (b * m) * k >= (c * l) * k
    BY <1>3
  <2>3. (a * m) * l >= (c * k) * l
    <3>1. (a * l) * m = (a * m) * l /\ (b * k) * m = (b * m) * k /\ (c * l) * k = (c * k) * l
      BY <1>3
    <3> DEFINE r == (a * m) * l
               s == (b * m) * k
               t == (c * k) * l
    <3>2. r \in Int /\ s \in Int /\ t \in Int
      BY <1>3
    <3>3. r >= s /\ s >= t
      BY <2>1, <2>2, <3>1
    <3> HIDE DEF r, s, t
    <3>4. r >= t
      BY <3>2, <3>3
    <3> QED BY <3>4 DEF r, t
  <2> DEFINE u == a * m
             v == c * k
  <2>4. u \in Int /\ v \in Int
    BY <1>3
  <2> HIDE DEF u, v
  <2>5. u * l >= v * l
    BY <2>3 DEF u, v
  <2>6. u >= v
    BY <2>4, <2>5
  <2> QED BY <2>6 DEF u, v
<1>4. x.n * y.d >= y.n * x.d /\ y.n * z.d >= z.n * y.d => x.n * z.d >= z.n * x.d
  <2> DEFINE a == x.n
             b == y.n
             c == z.n
             k == x.d
             l == y.d
             m == z.d
  <2>1. a \in Int /\ b \in Int /\ c \in Int /\ k \in Nat \ {0} /\ l \in Nat \ {0} /\ m \in Nat \ {0}
    BY <1>1
  <2> HIDE DEF a, b, c, k, l, m
  <2>2. a * l >= b * k /\ b * m >= c * l => a * m >= c * k
    BY <1>3, <2>1
  <2> QED BY <2>2 DEF a, b, c, k, l, m
<1>5. /\ x.n * y.d \in Int /\ y.n * x.d \in Int /\ y.n * z.d \in Int
      /\ z.n * y.d \in Int /\ x.n * z.d \in Int /\ z.n * x.d \in Int
  BY <1>1
<1>6. ~Less(x, x)
  <2>1. x.n * x.d \in Int
    BY <1>1
  <2> QED BY <1>2, <2>1
<1>7. Less(x, y) => ~Less(y, x)
  BY <1>2, <1>5
<1>8. ~Less(x, y) /\ ~Less(y, z) => ~Less(x, z)
  BY <1>2, <1>4, <1>5
<1> QED BY <1>6, <1>7, <1>8

\* The entries of a list of candidates.
Candidate(T) == [target : T, score : Score, status : {"auto", "review"}]

Descending(list) == \A i, j \in 1..Len(list) : i < j => ~Less(list[i].score, list[j].score)

\* The list new has c at p, and of the others what fits.
Inserted(new, list, c, p, k) ==
    /\ Len(new) = Lesser(Len(list) + 1, k)
    /\ \A i \in 1..Len(new) : new[i] = IF i < p THEN list[i] ELSE IF i = p THEN c ELSE list[i - 1]
    /\ \A i \in p..Len(list) : Less(list[i].score, c.score)
    /\ p > 1 => ~Less(list[p - 1].score, c.score)

\* An insertion passes those at the end that are worse.
LEMMA InsertFacts ==
    ASSUME NEW T, NEW list \in Seq(Candidate(T)), NEW c \in Candidate(T), NEW k \in Nat
    PROVE  /\ InsertTopK(list, c, k) \in Seq(Candidate(T))
           /\ \E p \in 1..(Len(list) + 1) : Inserted(InsertTopK(list, c, k), list, c, p, k)
<1> DEFINE n == Len(list)
           D == {i \in DOMAIN list : \A j \in i..Len(list) : Less(list[j].score, c.score)}
<1>1. n \in Nat /\ DOMAIN list = 1..n /\ D \in SUBSET (1..n)
  OBVIOUS
<1>2. PICK p \in 1..(n + 1) : D = p..n
  <2>1. CASE D = {}
    <3>1. (n + 1)..n = {} /\ n + 1 \in 1..(n + 1)
      BY <1>1
    <3> HIDE DEF D, n
    <3> QED BY <2>1, <3>1
  <2>2. CASE D # {}
    <3>1. PICK p \in D : \A i \in D : p <= i
      <4>1. D \in SUBSET Nat
        BY <1>1
      <4> HIDE DEF D
      <4> QED BY <2>2, <4>1, Least
    <3>2. \A i \in p..n : i \in D
      BY <1>1, <3>1
    <3>3. \A i \in D : i \in p..n
      BY <1>1, <3>1
    <3>4. D = p..n
      <4> HIDE DEF D, n
      <4> QED BY <3>2, <3>3
    <3>5. p \in 1..(n + 1)
      BY <1>1, <3>1
    <3> QED BY <3>4, <3>5
  <2> QED BY <2>1, <2>2
<1>3. /\ \A i \in p..n : Less(list[i].score, c.score)
      /\ p > 1 => ~Less(list[p - 1].score, c.score)
  <2>1. ASSUME NEW i \in p..n PROVE Less(list[i].score, c.score)
    <3>1. i \in D /\ i \in i..n
      BY <1>1, <1>2
    <3> QED BY <3>1
  <2>2. ASSUME p > 1, Less(list[p - 1].score, c.score) PROVE FALSE
    <3>1. p - 1 \in 1..n /\ p - 1 \notin D
      <4> HIDE DEF D, n
      <4>1. p \in Int /\ p <= n + 1 /\ p > 1
        BY <1>1, <2>2
      <4>2. p - 1 \in 1..n
        BY <1>1, <4>1
      <4>3. p - 1 \notin p..n
        BY <1>1, <4>1
      <4> QED BY <1>2, <4>2, <4>3
    <3>2. ASSUME NEW j \in (p - 1)..n PROVE Less(list[j].score, c.score)
      <4>1. j = p - 1 \/ j \in p..n
        BY <1>1
      <4> QED BY <2>1, <2>2, <4>1
    <3> QED BY <1>1, <3>1, <3>2
  <2> QED BY <2>1, <2>2
<1>4. Len(list) + 1 - Cardinality(D) = p
  <2>1. Cardinality(p..n) = IF p > n THEN 0 ELSE n - p + 1
    <3>1. p \in Int /\ n \in Int
      BY <1>1
    <3> HIDE DEF n
    <3> QED BY <3>1, FS_Interval
  <2>2. n + 1 - Cardinality(D) = p
    <3> HIDE DEF D, n
    <3> QED BY <1>1, <1>2, <2>1
  <2> QED BY <2>2
<1> DEFINE longer == SubSeq(list, 1, p - 1) \o <<c>> \o SubSeq(list, p, n)
           m == Min({Len(longer), k})
<1>5. InsertTopK(list, c, k) = SubSeq(longer, 1, m)
  BY <1>4 DEF InsertTopK, InsertAt
<1> HIDE DEF D
<1>6. /\ longer \in Seq(Candidate(T)) /\ Len(longer) = n + 1
      /\ \A i \in 1..(n + 1) : longer[i] = IF i < p THEN list[i] ELSE IF i = p THEN c ELSE list[i - 1]
  <2> DEFINE front == SubSeq(list, 1, p - 1)
             back == SubSeq(list, p, n)
  <2>1. /\ front \in Seq(Candidate(T)) /\ Len(front) = p - 1
        /\ \A i \in 1..(p - 1) : front[i] = list[i]
    BY <1>1
  <2>2. /\ back \in Seq(Candidate(T)) /\ Len(back) = n - p + 1
        /\ \A i \in 1..(n - p + 1) : back[i] = list[p + i - 1]
    BY <1>1
  <2> HIDE DEF front, back
  <2>3. front \o <<c>> \in Seq(Candidate(T)) /\ Len(front \o <<c>>) = p
        /\ \A i \in 1..p : (front \o <<c>>)[i] = IF i < p THEN list[i] ELSE c
    BY <2>1
  <2> DEFINE some == front \o <<c>>
  <2>4. longer = some \o back
    BY DEF front, back
  <2> HIDE DEF some, longer
  <2>5. some \in Seq(Candidate(T)) /\ Len(some) = p
        /\ \A i \in 1..p : some[i] = IF i < p THEN list[i] ELSE c
    BY <2>3 DEF some
  <2>6. longer \in Seq(Candidate(T)) /\ Len(longer) = n + 1
    <3>1. longer \in Seq(Candidate(T)) /\ Len(longer) = Len(some) + Len(back)
      <4>1. some \in Seq(Candidate(T)) /\ back \in Seq(Candidate(T))
        BY <2>2, <2>5
      <4> HIDE DEF m, n
      <4> QED BY <2>4, <4>1
    <3>2. p \in Int /\ p + (n - p + 1) = n + 1
      BY <1>1
    <3> HIDE DEF n
    <3> QED BY <2>2, <2>5, <3>1, <3>2
  <2>7. ASSUME NEW i \in 1..(n + 1)
        PROVE  longer[i] = IF i < p THEN list[i] ELSE IF i = p THEN c ELSE list[i - 1]
    <3>1. CASE i <= p
      <4>1. longer[i] = some[i]
        BY <1>1, <2>2, <2>4, <2>5, <3>1
      <4>2. i \in 1..p
        BY <3>1
      <4> QED BY <2>5, <3>1, <4>1, <4>2
    <3>2. CASE i > p
      <4>1. i - p \in 1..(n - p + 1) /\ p + (i - p) - 1 = i - 1
        BY <1>1, <3>2
      <4>2. longer[i] = back[i - p]
        BY <1>1, <2>2, <2>4, <2>5, <3>2
      <4>3. back[i - p] = list[i - 1]
        BY <2>2, <4>1
      <4> QED BY <3>2, <4>2, <4>3
    <3> QED BY <3>1, <3>2
  <2> QED BY <2>6, <2>7
<1> HIDE DEF longer
<1>7. m = Lesser(n + 1, k) /\ m \in 0..(n + 1)
  <2>1. /\ m \in {n + 1, k} /\ m <= n + 1 /\ m <= k
    <3>1. m = Min({n + 1, k})
      BY <1>6
    <3>2. \E x \in {n + 1, k} : \A y \in {n + 1, k} : x <= y
      BY <1>1
    <3>3. m \in {n + 1, k} /\ \A y \in {n + 1, k} : m <= y
      <4> HIDE DEF m, n
      <4> QED BY <3>1, <3>2 DEF Min
    <3> QED BY <3>3
  <2> HIDE DEF m
  <2> QED BY <1>1, <2>1 DEF Lesser
<1> HIDE DEF m
<1>8. /\ SubSeq(longer, 1, m) \in Seq(Candidate(T)) /\ Len(SubSeq(longer, 1, m)) = m
      /\ \A i \in 1..m : SubSeq(longer, 1, m)[i] = longer[i]
  <2> HIDE DEF n
  <2>1. m \in Nat /\ m <= Len(longer) /\ \A i \in 1..m : i \in 1..(n + 1)
    BY <1>1, <1>6, <1>7
  <2> QED BY <1>6, <2>1
<1>9. \A i \in 1..m : i \in 1..(n + 1)
  BY <1>1, <1>7
<1> QED BY <1>3, <1>5, <1>6, <1>7, <1>8, <1>9 DEF Inserted

\* A finite set of numbers is put in order: all of its members, each once.
LEMMA InOrderFacts ==
    ASSUME NEW N \in SUBSET Nat, IsFiniteSet(N)
    PROVE  /\ Cardinality(N) \in Nat
           /\ InOrder(N) \in [1..Cardinality(N) -> N]
           /\ \A i, j \in 1..Cardinality(N) : i # j => InOrder(N)[i] # InOrder(N)[j]
           /\ \A x \in N : \E k \in 1..Cardinality(N) : InOrder(N)[k] = x
<1> DEFINE n == Cardinality(N)
           Lower(x) == {y \in N : y < x}
           Rank(x) == Cardinality(Lower(x))
           rank == [x \in N |-> Rank(x)]
<1>1. n \in Nat
  BY FS_CardinalityType
<1>2. ASSUME NEW x \in N PROVE Lower(x) \in SUBSET N /\ x \notin Lower(x)
  OBVIOUS
<1>3. ASSUME NEW x \in N PROVE Rank(x) \in 0..(n - 1)
  <2>1. Lower(x) \in SUBSET N /\ x \notin Lower(x)
    BY <1>2
  <2> HIDE DEF Lower
  <2>2. IsFiniteSet(Lower(x)) /\ Rank(x) <= n /\ Rank(x) \in Nat
    BY <2>1, FS_Subset, FS_CardinalityType
  <2>3. Rank(x) # n
    BY <2>1, FS_Subset
  <2> HIDE DEF n, Rank
  <2> QED BY <1>1, <2>2, <2>3
<1>4. ASSUME NEW x \in N, NEW y \in N, x < y PROVE Rank(x) # Rank(y)
  <2>1. Lower(x) \in SUBSET Lower(y) /\ x \in Lower(y) /\ x \notin Lower(x)
    <3>1. \A z \in N : z < x => z < y
      BY <1>4
    <3>2. x \in Lower(y) /\ x \notin Lower(x)
      BY <1>4
    <3> QED BY <3>1, <3>2
  <2>2. IsFiniteSet(Lower(y))
    BY FS_Subset
  <2> HIDE DEF Lower
  <2> QED BY <2>1, <2>2, FS_Subset
<1>5. ASSUME NEW x \in N, NEW y \in N, Rank(x) = Rank(y) PROVE x = y
  <2>1. ~(x < y) /\ ~(y < x)
    <3> HIDE DEF Rank
    <3> QED BY <1>4, <1>5
  <2> HIDE DEF Rank
  <2> QED BY <2>1
<1> HIDE DEF Lower
<1>6. rank \in Injection(N, 0..(n - 1))
  <2> HIDE DEF Rank, n
  <2> QED BY <1>3, <1>5 DEF Injection, IsInjective
<1>7. IsFiniteSet(0..(n - 1)) /\ Cardinality(0..(n - 1)) = n
  <2> HIDE DEF n
  <2>1. 0 \in Int /\ n - 1 \in Int
    BY <1>1
  <2> QED BY <1>1, <2>1, FS_Interval
<1>8. rank \in Surjection(N, 0..(n - 1))
  <2> HIDE DEF rank
  <2> QED BY <1>6, <1>7, FS_Injection
<1>9. \A k \in 0..(n - 1) : \E x \in N : Rank(x) = k
  <2> HIDE DEF Rank, n
  <2> QED BY <1>8 DEF Surjection
<1>10. InOrder(N) = [k \in 1..n |-> CHOOSE x \in N : Rank(x) = k - 1]
  BY DEF InOrder, Lower
<1> HIDE DEF Rank, n
<1>11. ASSUME NEW k \in 1..n PROVE InOrder(N)[k] \in N /\ Rank(InOrder(N)[k]) = k - 1
  <2>1. k - 1 \in 0..(n - 1)
    BY <1>1
  <2>2. \E x \in N : Rank(x) = k - 1
    BY <1>9, <2>1
  <2> QED BY <1>10, <2>2
<1>12. InOrder(N) \in [1..n -> N]
  BY <1>10, <1>11
<1>13. ASSUME NEW x \in N PROVE \E k \in 1..n : InOrder(N)[k] = x
  <2> DEFINE k == Rank(x) + 1
  <2>1. k \in 1..n /\ k - 1 = Rank(x)
    BY <1>1, <1>3
  <2> QED BY <1>5, <1>11, <2>1
<1>14. ASSUME NEW i \in 1..n, NEW j \in 1..n, i # j PROVE InOrder(N)[i] # InOrder(N)[j]
  BY <1>11, <1>14
<1> QED BY <1>1, <1>12, <1>13, <1>14 DEF n

OfferStep(S, cands, opts) == [p \in S \X (1..Len(cands)) |-> Offer(p[1], cands[p[2]], opts)]

Offered(cands, opts) == FoldLeft(LAMBDA list, c : Offer(list, c, opts), <<>>, cands)

\* The choice of candidates is a fold.
LEMMA OfferFold ==
    ASSUME NEW T, NEW cands \in Seq(T), NEW opts, NEW S, <<>> \in S,
           \A st \in S, c \in T : Offer(st, c, opts) \in S
    PROVE  \E iter : /\ IsFold(iter, S, <<>>, Len(cands), OfferStep(S, cands, opts))
                     /\ Offered(cands, opts) = iter[1..Len(cands)]
<1> DEFINE n == Len(cands)
           F == OfferStep(S, cands, opts)
           Iterates(g) == g = [s \in SUBSET DOMAIN cands |->
                        IF s = {} THEN <<>> ELSE Offer(g[s \ {Max(s)}], cands[Max(s)], opts)]
           iter == CHOOSE g : Iterates(g)
<1>1. n \in Nat /\ DOMAIN cands = 1..n /\ \A k \in 1..n : cands[k] \in T
  OBVIOUS
<1>2. F \in [S \X (1..n) -> S]
  BY <1>1 DEF OfferStep
<1>3. PICK g : IsFold(g, S, <<>>, n, F)
  <2> HIDE DEF n, F
  <2> QED BY <1>1, <1>2, FoldExists
<1>4. ASSUME NEW s \in SUBSET (1..n), s # {}, NEW v \in S
      PROVE  /\ F[<<v, Max(s)>>] = Offer(v, cands[Max(s)], opts)
             /\ Offer(v, cands[Max(s)], opts) \in S
  <2>1. Max(s) \in 1..n
    <3> HIDE DEF n
    <3> QED BY <1>1, <1>4, MaxIn
  <2> QED BY <1>1, <2>1 DEF OfferStep
<1>5. Iterates(g)
  <2> HIDE DEF F
  <2> QED BY <1>1, <1>3, <1>4 DEF IsFold
<1>6. Iterates(iter)
  <2> HIDE DEF Iterates
  <2> QED BY <1>5
<1>7. IsFold(iter, S, <<>>, n, F)
  <2> HIDE DEF iter, F, n
  <2>1. iter[{}] = <<>>
    BY <1>1, <1>6
  <2>2. \A s \in SUBSET (1..n) : s # {} => iter[s] = Offer(iter[s \ {Max(s)}], cands[Max(s)], opts)
    BY <1>1, <1>6
  <2> HIDE DEF Iterates
  <2>3. \A s \in SUBSET (1..n) : s # {} /\ iter[s \ {Max(s)}] \in S => iter[s] \in S
    BY <1>4, <2>2
  <2>4. \A s \in SUBSET (1..n) : iter[s] \in S
    <3>1. iter[{}] \in S
      BY <1>1, <2>1
    <3>2. n \in Nat
      BY <1>1
    <3> QED BY ONLY <2>3, <3>1, <3>2, FoldStays
  <2>5. iter \in [SUBSET (1..n) -> S]
    BY <1>1, <1>6, <2>4 DEF Iterates
  <2>6. ASSUME NEW s \in SUBSET (1..n), s # {} PROVE iter[s] = F[<<iter[s \ {Max(s)}], Max(s)>>]
    <3>1. iter[s \ {Max(s)}] \in S
      BY <2>4
    <3> QED BY <1>4, <2>2, <2>6, <3>1
  <2> QED BY <2>1, <2>5, <2>6 DEF IsFold
<1>8. Offered(cands, opts) = iter[1..n]
  BY <1>1 DEF Offered, FoldLeft, MapThenFoldSet
<1> HIDE DEF iter
<1> QED BY <1>7, <1>8

\* Targets in T are compared, each at most once, and have finite scores.
Comparisons(cands, T) ==
    /\ \A k \in 1..Len(cands) :
          cands[k].target \in T /\ (cands[k].pair.ok => cands[k].pair.score \in Score)
    /\ \A k, l \in 1..Len(cands) : k # l => cands[k].target # cands[l].target

Fits(c, opts) == c.pair.ok /\ Reviewed(c.pair.score, opts)

EntryOf(c, opts) ==
    [target |-> c.target, score |-> c.pair.score, status |-> Status(c.pair.score, opts)]

\* The list has those of the first n candidates that are best.
FromGood(list, n, cands, opts) ==
    \A i \in 1..Len(list) : \E k \in 1..n : Fits(cands[k], opts) /\ list[i] = EntryOf(cands[k], opts)

NoneBetter(list, n, cands, opts) ==
    \A k \in 1..n : Fits(cands[k], opts) =>
        \/ \E i \in 1..Len(list) : list[i] = EntryOf(cands[k], opts)
        \/ /\ Len(list) = opts.maxCandidates
           /\ \A i \in 1..Len(list) : ~Less(list[i].score, cands[k].pair.score)

Apart(list) == \A i, j \in 1..Len(list) : i # j => list[i].target # list[j].target

Best(list, n, cands, opts) ==
    /\ Len(list) <= opts.maxCandidates
    /\ Descending(list)
    /\ Apart(list)
    /\ FromGood(list, n, cands, opts)
    /\ NoneBetter(list, n, cands, opts)

\* An insertion leaves the list in order.
LEMMA InsertDescends ==
    ASSUME NEW T, NEW list \in Seq(Candidate(T)), NEW c \in Candidate(T), NEW k \in Nat,
           NEW p \in 1..(Len(list) + 1), NEW new \in Seq(Candidate(T)),
           Inserted(new, list, c, p, k), Descending(list)
    PROVE  Descending(new)
<1> DEFINE n == Len(list)
           m == Len(new)
<1>1. /\ n \in Nat /\ m \in Nat /\ p \in Nat /\ p >= 1 /\ p <= n + 1 /\ m <= n + 1
      /\ \A i \in 1..n : list[i].score \in Score
      /\ c.score \in Score
  <2>1. m = Lesser(n + 1, k)
    BY DEF Inserted
  <2>2. n \in Nat /\ m \in Nat /\ p \in Nat /\ p >= 1 /\ p <= n + 1
    OBVIOUS
  <2>3. m <= n + 1
    BY <2>1, <2>2 DEF Lesser
  <2>4. ASSUME NEW i \in 1..n PROVE list[i].score \in Score
    <3>1. list[i] \in Candidate(T)
      OBVIOUS
    <3> QED BY <3>1 DEF Candidate
  <2>5. c.score \in Score
    BY DEF Candidate
  <2> QED BY <2>2, <2>3, <2>4, <2>5
<1>2. \A i, j \in 1..n : i < j => ~Less(list[i].score, list[j].score)
  BY DEF Descending
<1>3. /\ \A i \in 1..m : new[i] = IF i < p THEN list[i] ELSE IF i = p THEN c ELSE list[i - 1]
      /\ \A i \in p..n : Less(list[i].score, c.score)
      /\ p > 1 => ~Less(list[p - 1].score, c.score)
  BY DEF Inserted
<1> HIDE DEF n, m
<1> SUFFICES ASSUME NEW i \in 1..m, NEW j \in 1..m, i < j PROVE ~Less(new[i].score, new[j].score)
  BY DEF Descending, m
<1>4. CASE j < p
  <2>1. i \in 1..n /\ j \in 1..n /\ i < p
    BY <1>1, <1>4
  <2>2. new[i] = list[i] /\ new[j] = list[j]
    BY <1>3, <1>4, <2>1
  <2> QED BY <1>2, <2>1, <2>2
<1>5. CASE j = p
  <2>1. i \in 1..n /\ p - 1 \in 1..n /\ p > 1 /\ i < p /\ i <= p - 1
    BY <1>1, <1>5
  <2>2. new[i] = list[i] /\ new[j] = c
    BY <1>3, <1>5, <2>1
  <2>3. ~Less(list[p - 1].score, c.score)
    BY <1>3, <2>1
  <2>4. ~Less(list[i].score, list[p - 1].score)
    <3>1. CASE i = p - 1
      BY <1>1, <2>1, <3>1, LessFacts
    <3>2. CASE i < p - 1
      BY <1>2, <2>1, <3>2
    <3> QED BY <2>1, <3>1, <3>2
  <2>5. ~Less(list[i].score, c.score)
    BY <1>1, <2>1, <2>3, <2>4, LessFacts
  <2> QED BY <2>2, <2>5
<1>6. CASE j > p
  <2>1. j - 1 \in 1..n /\ j - 1 \in p..n
    BY <1>1, <1>6
  <2>2. new[j] = list[j - 1]
    BY <1>1, <1>3, <1>6
  <2>3. CASE i < p
    <3>1. i \in 1..n /\ i < j - 1 /\ new[i] = list[i]
      BY <1>1, <1>3, <1>6, <2>3
    <3> QED BY <1>2, <2>1, <2>2, <3>1
  <2>4. CASE i = p
    <3>1. new[i] = c
      BY <1>3, <2>4
    <3>2. Less(list[j - 1].score, c.score)
      BY <1>3, <2>1
    <3>3. ~Less(c.score, list[j - 1].score)
      BY <1>1, <2>1, <3>2, LessFacts
    <3> QED BY <2>2, <3>1, <3>3
  <2>5. CASE i > p
    <3>1. i - 1 \in 1..n /\ i - 1 < j - 1 /\ new[i] = list[i - 1]
      BY <1>1, <1>3, <1>6, <2>5
    <3> QED BY <1>2, <2>1, <2>2, <3>1
  <2> QED BY <1>1, <2>3, <2>4, <2>5
<1> QED BY <1>1, <1>4, <1>5, <1>6

\* An insertion keeps what there was, except for the last one of a full list; it takes the new
\* one, except after all of a full list.
LEMMA InsertKeeps ==
    ASSUME NEW T, NEW list \in Seq(Candidate(T)), NEW c \in Candidate(T), NEW k \in Nat,
           NEW p \in 1..(Len(list) + 1), NEW new \in Seq(Candidate(T)),
           Inserted(new, list, c, p, k), Len(list) <= k
    PROVE  /\ Len(new) <= k
           /\ \A x \in 1..Len(new) : (x = p /\ new[x] = c) \/ \E y \in 1..Len(list) : new[x] = list[y]
           /\ \A y \in 1..Len(list) :
                 \/ \E x \in 1..Len(new) : new[x] = list[y]
                 \/ Len(new) = k /\ y = Len(list) /\ Len(new) = Len(list) /\ p <= y
           /\ \/ \E x \in 1..Len(new) : new[x] = c
              \/ Len(new) = k /\ p = Len(list) + 1 /\ Len(new) = Len(list)
<1> DEFINE n == Len(list)
           m == Len(new)
<1>1. /\ n \in Nat /\ m \in Nat /\ p \in Nat /\ p >= 1 /\ p <= n + 1 /\ n <= k
      /\ (m = n + 1 /\ m <= k) \/ (m = n /\ n = k)
  <2>1. m = Lesser(n + 1, k)
    BY DEF Inserted
  <2>2. n \in Nat /\ m \in Nat /\ p \in Nat /\ p >= 1 /\ p <= n + 1 /\ n <= k
    OBVIOUS
  <2> HIDE DEF n, m
  <2> QED BY <2>1, <2>2 DEF Lesser
<1>2. \A i \in 1..m : new[i] = IF i < p THEN list[i] ELSE IF i = p THEN c ELSE list[i - 1]
  BY DEF Inserted
<1> HIDE DEF n, m
<1>3. m <= k
  BY <1>1
<1>4. ASSUME NEW x \in 1..m
      PROVE  (x = p /\ new[x] = c) \/ \E y \in 1..n : new[x] = list[y]
  <2>1. CASE x < p
    <3>1. x \in 1..n /\ new[x] = list[x]
      BY <1>1, <1>2, <2>1
    <3> QED BY <3>1
  <2>2. CASE x = p
    BY <1>2, <2>2
  <2>3. CASE x > p
    <3>1. x - 1 \in 1..n /\ new[x] = list[x - 1]
      BY <1>1, <1>2, <2>3
    <3> QED BY <3>1
  <2> QED BY <1>1, <2>1, <2>2, <2>3
<1>5. ASSUME NEW y \in 1..n
      PROVE  \/ \E x \in 1..m : new[x] = list[y]
             \/ m = k /\ y = n /\ m = n /\ p <= y
  <2>1. CASE y < p /\ y <= m
    <3>1. y \in 1..m /\ new[y] = list[y]
      BY <1>1, <1>2, <2>1
    <3> QED BY <3>1
  <2>2. CASE y >= p /\ y + 1 <= m
    <3>1. y + 1 \in 1..m /\ (y + 1) - 1 = y /\ ~(y + 1 < p) /\ y + 1 # p
      BY <1>1, <2>2
    <3>2. new[y + 1] = list[y]
      BY <1>2, <3>1
    <3> QED BY <3>1, <3>2
  <2>3. CASE y >= p /\ ~(y + 1 <= m)
    BY <1>1, <2>3
  <2>4. y <= m
    BY <1>1
  <2> QED BY <1>1, <2>1, <2>2, <2>3, <2>4
<1>6. \/ \E x \in 1..m : new[x] = c
      \/ m = k /\ p = n + 1 /\ m = n
  <2>1. CASE p <= m
    <3>1. p \in 1..m /\ new[p] = c
      BY <1>1, <1>2, <2>1
    <3> QED BY <3>1
  <2>2. CASE ~(p <= m)
    BY <1>1, <2>2
  <2> QED BY <2>1, <2>2
<1> QED BY <1>3, <1>4, <1>5, <1>6 DEF n, m

\* An insertion of another target keeps the targets apart.
LEMMA InsertApart ==
    ASSUME NEW T, NEW list \in Seq(Candidate(T)), NEW c, NEW k \in Nat,
           NEW p \in 1..(Len(list) + 1), NEW new \in Seq(Candidate(T)),
           Inserted(new, list, c, p, k), Apart(list),
           \A y \in 1..Len(list) : list[y].target # c.target
    PROVE  Apart(new)
<1> DEFINE n == Len(list)
           m == Len(new)
<1>1. n \in Nat /\ m \in Nat /\ p \in Nat /\ p >= 1 /\ p <= n + 1 /\ m <= n + 1
  <2>1. m = Lesser(n + 1, k)
    BY DEF Inserted
  <2>2. n \in Nat /\ m \in Nat /\ p \in Nat /\ p >= 1 /\ p <= n + 1
    OBVIOUS
  <2>3. m <= n + 1
    BY <2>1, <2>2 DEF Lesser
  <2> QED BY <2>2, <2>3
<1>2. \A i \in 1..m : new[i] = IF i < p THEN list[i] ELSE IF i = p THEN c ELSE list[i - 1]
  BY DEF Inserted
<1>3. \A i, j \in 1..n : i # j => list[i].target # list[j].target
  BY DEF Apart
<1> HIDE DEF n, m
<1> DEFINE from(i) == IF i < p THEN i ELSE i - 1
<1>4. ASSUME NEW i \in 1..m, i # p PROVE from(i) \in 1..n /\ new[i] = list[from(i)]
  BY <1>1, <1>2, <1>4
<1>5. ASSUME NEW i \in 1..m, NEW j \in 1..m, i # j, i # p, j # p PROVE from(i) # from(j)
  BY <1>1, <1>5
<1>6. \A i \in 1..m : i = p => new[i] = c
  BY <1>2
<1> HIDE DEF from
<1> SUFFICES ASSUME NEW i \in 1..m, NEW j \in 1..m, i # j PROVE new[i].target # new[j].target
  BY DEF Apart, m
<1>7. CASE i # p /\ j # p
  BY <1>3, <1>4, <1>5, <1>7
<1>8. CASE i = p
  <2>1. j # p
    BY <1>8
  <2>2. from(j) \in 1..n /\ new[j] = list[from(j)] /\ new[i] = c
    BY <1>4, <1>6, <1>8, <2>1
  <2> QED BY <2>2 DEF n
<1>9. CASE j = p
  <2>1. i # p
    BY <1>9
  <2>2. from(i) \in 1..n /\ new[i] = list[from(i)] /\ new[j] = c
    BY <1>4, <1>6, <1>9, <2>1
  <2> QED BY <2>2 DEF n
<1> QED BY <1>7, <1>8, <1>9

\* A candidate offered to the best ones of those before it leaves the best ones of all.
LEMMA OfferKeepsBest ==
    ASSUME NEW T, NEW cands, NEW opts, opts.maxCandidates \in Nat, Comparisons(cands, T),
           NEW n \in Nat, n + 1 \in 1..Len(cands), Len(cands) \in Nat,
           NEW list \in Seq(Candidate(T)), Best(list, n, cands, opts)
    PROVE  /\ Offer(list, cands[n + 1], opts) \in Seq(Candidate(T))
           /\ Best(Offer(list, cands[n + 1], opts), n + 1, cands, opts)
<1> DEFINE c == cands[n + 1]
           K == opts.maxCandidates
<1>1. \A k \in 1..(n + 1) : k \in 1..Len(cands) /\ (k = n + 1 \/ k \in 1..n)
  OBVIOUS
<1>2. \A k \in 1..n : k \in 1..(n + 1) /\ k # n + 1
  OBVIOUS
<1>3. n + 1 \in 1..(n + 1)
  OBVIOUS
<1>4. /\ \A k \in 1..(n + 1) :
            cands[k].target \in T /\ (cands[k].pair.ok => cands[k].pair.score \in Score)
      /\ \A k, l \in 1..(n + 1) : k # l => cands[k].target # cands[l].target
  BY <1>1 DEF Comparisons
<1>5. /\ Len(list) <= K /\ Descending(list) /\ Apart(list)
      /\ FromGood(list, n, cands, opts) /\ NoneBetter(list, n, cands, opts)
  BY DEF Best
<1>6. CASE ~Fits(c, opts)
  <2>1. Offer(list, c, opts) = list
    BY <1>6 DEF Offer, Fits
  <2>2. FromGood(list, n + 1, cands, opts)
    BY <1>2, <1>5 DEF FromGood
  <2>3. NoneBetter(list, n + 1, cands, opts)
    BY <1>1, <1>5, <1>6 DEF NoneBetter
  <2> QED BY <1>5, <2>1, <2>2, <2>3 DEF Best
<1>7. CASE Fits(c, opts)
  <2> DEFINE e == EntryOf(c, opts)
             new == InsertTopK(list, e, K)
  <2>1. Offer(list, c, opts) = new
    BY <1>7 DEF Offer, Fits, EntryOf
  <2>2. e \in Candidate(T) /\ e.target = c.target /\ e.score = c.pair.score
    <3>1. Status(c.pair.score, opts) \in {"auto", "review"}
      BY DEF Status
    <3>2. c.target \in T /\ c.pair.score \in Score
      BY <1>3, <1>4, <1>7 DEF Fits
    <3> QED BY <3>1, <3>2 DEF EntryOf, Candidate
  <2> HIDE DEF e
  <2>3. new \in Seq(Candidate(T)) /\ \E p \in 1..(Len(list) + 1) : Inserted(new, list, e, p, K)
    BY <2>2, InsertFacts
  <2>4. PICK p \in 1..(Len(list) + 1) : Inserted(new, list, e, p, K)
    BY <2>3
  <2> HIDE DEF new
  <2>5. Descending(new)
    BY <1>5, <2>2, <2>3, <2>4, InsertDescends
  <2>6. /\ Len(new) <= K
        /\ \A x \in 1..Len(new) : (x = p /\ new[x] = e) \/ \E y \in 1..Len(list) : new[x] = list[y]
        /\ \A y \in 1..Len(list) :
              \/ \E x \in 1..Len(new) : new[x] = list[y]
              \/ Len(new) = K /\ y = Len(list) /\ Len(new) = Len(list) /\ p <= y
        /\ \/ \E x \in 1..Len(new) : new[x] = e
           \/ Len(new) = K /\ p = Len(list) + 1 /\ Len(new) = Len(list)
    BY <1>5, <2>2, <2>3, <2>4, InsertKeeps
  <2>7. FromGood(new, n + 1, cands, opts)
    <3> SUFFICES ASSUME NEW x \in 1..Len(new)
                 PROVE  \E k \in 1..(n + 1) : Fits(cands[k], opts) /\ new[x] = EntryOf(cands[k], opts)
      BY DEF FromGood
    <3>1. CASE new[x] = e
      BY <1>3, <1>7, <3>1 DEF e
    <3>2. CASE \E y \in 1..Len(list) : new[x] = list[y]
      BY <1>2, <1>5, <3>2 DEF FromGood
    <3> QED BY <2>6, <3>1, <3>2
  <2>8. \A y \in 1..Len(list) : list[y].target # e.target
    <3> SUFFICES ASSUME NEW y \in 1..Len(list) PROVE list[y].target # e.target
      OBVIOUS
    <3>1. PICK k \in 1..n : list[y] = EntryOf(cands[k], opts)
      BY <1>5 DEF FromGood
    <3>2. list[y].target = cands[k].target
      BY <3>1 DEF EntryOf
    <3> QED BY <1>2, <1>3, <1>4, <2>2, <3>2
  <2>9. /\ \A y \in 1..Len(list) : list[y].score \in Score
        /\ e.score \in Score
        /\ \A k \in 1..(n + 1) : Fits(cands[k], opts) => cands[k].pair.score \in Score
    <3>1. ASSUME NEW y \in 1..Len(list) PROVE list[y].score \in Score
      <4>1. list[y] \in Candidate(T)
        OBVIOUS
      <4> QED BY <4>1 DEF Candidate
    <3>2. e.score \in Score
      BY <2>2 DEF Candidate
    <3> QED BY <1>4, <3>1, <3>2 DEF Fits
  <2>10. /\ \A y \in p..Len(list) : Less(list[y].score, e.score)
         /\ p > 1 => ~Less(list[p - 1].score, e.score)
    BY <2>4 DEF Inserted
  <2>11. \A y \in 1..Len(list) : ~Less(list[y].score, list[Len(list)].score)
    <3> SUFFICES ASSUME NEW y \in 1..Len(list) PROVE ~Less(list[y].score, list[Len(list)].score)
      OBVIOUS
    <3>1. Len(list) \in 1..Len(list)
      OBVIOUS
    <3>2. CASE y = Len(list)
      BY <2>9, <3>1, <3>2, LessFacts
    <3>3. CASE y < Len(list)
      BY <1>5, <3>1, <3>3 DEF Descending
    <3> QED BY <3>2, <3>3
  <2>12. NoneBetter(new, n + 1, cands, opts)
    <3> SUFFICES ASSUME NEW k \in 1..(n + 1), Fits(cands[k], opts)
                 PROVE  \/ \E x \in 1..Len(new) : new[x] = EntryOf(cands[k], opts)
                        \/ /\ Len(new) = K
                           /\ \A x \in 1..Len(new) : ~Less(new[x].score, cands[k].pair.score)
      BY DEF NoneBetter
    <3> DEFINE s == cands[k].pair.score
    <3>1. s \in Score
      BY <2>9
    <3> HIDE DEF s
    <3>2. CASE k = n + 1
      <4>1. EntryOf(cands[k], opts) = e /\ e.score = s
        BY <2>2, <3>2 DEF e, s
      <4>2. CASE p = Len(list) + 1 /\ Len(new) = K /\ Len(new) = Len(list)
        <5> SUFFICES ASSUME NEW x \in 1..Len(new) PROVE ~Less(new[x].score, s)
          BY <4>2 DEF s
        <5>1. x \in 1..Len(list) /\ x < p
          BY <4>2
        <5>2. new[x] = list[x]
          BY <2>4, <5>1 DEF Inserted
        <5>3. p > 1 /\ p - 1 = Len(list) /\ Len(list) \in 1..Len(list)
          BY <4>2, <5>1
        <5>4. ~Less(list[Len(list)].score, e.score)
          BY <2>10, <5>3
        <5> QED BY <2>9, <2>11, <4>1, <5>1, <5>2, <5>3, <5>4, LessFacts
      <4> QED BY <2>6, <4>1, <4>2
    <3>3. CASE k \in 1..n
      <4>1. CASE \E y \in 1..Len(list) : list[y] = EntryOf(cands[k], opts)
        <5>1. PICK y \in 1..Len(list) : list[y] = EntryOf(cands[k], opts)
          BY <4>1
        <5>2. CASE \E x \in 1..Len(new) : new[x] = list[y]
          BY <5>1, <5>2
        <5>3. CASE Len(new) = K /\ y = Len(list) /\ Len(new) = Len(list) /\ p <= y
          <6>1. s = list[y].score
            BY <5>1 DEF s, EntryOf
          <6> SUFFICES ASSUME NEW x \in 1..Len(new) PROVE ~Less(new[x].score, s)
            BY <5>3 DEF s
          <6>2. CASE new[x] = e
            <7>1. y \in p..Len(list)
              BY <5>3
            <7>2. Less(list[y].score, e.score)
              BY <2>10, <7>1
            <7> QED BY <2>9, <6>1, <6>2, <7>2, LessFacts
          <6>3. CASE \E z \in 1..Len(list) : new[x] = list[z]
            BY <2>11, <5>3, <6>1, <6>3
          <6> QED BY <2>6, <6>2, <6>3
        <5> QED BY <2>6, <5>2, <5>3
      <4>2. CASE Len(list) = K /\ \A y \in 1..Len(list) : ~Less(list[y].score, s)
        <5>1. (\E x \in 1..Len(new) : new[x] = e) => \E y \in 1..Len(list) : Less(list[y].score, e.score)
          <6>1. CASE p <= Len(list)
            <7>1. p \in p..Len(list) /\ p \in 1..Len(list)
              BY <6>1
            <7> QED BY <2>10, <7>1
          <6>2. CASE p = Len(list) + 1
            <7>1. Len(new) = Lesser(Len(list) + 1, K)
              BY <2>4 DEF Inserted
            <7>2. Len(list) \in Nat
              OBVIOUS
            <7>3. Len(new) = Len(list)
              BY <4>2, <7>1, <7>2 DEF Lesser
            <7>4. ASSUME NEW x \in 1..Len(new) PROVE new[x] # e
              <8>1. x \in 1..Len(list) /\ x < p
                BY <6>2, <7>2, <7>3
              <8>2. new[x] = list[x]
                BY <2>4, <8>1 DEF Inserted
              <8> QED BY <2>8, <8>1, <8>2
            <7> QED BY <7>4
          <6> QED BY <6>1, <6>2
        <5>2. Len(new) = K
          <6>1. Len(new) = Lesser(Len(list) + 1, K)
            BY <2>4 DEF Inserted
          <6>2. Len(list) \in Nat
            OBVIOUS
          <6> QED BY <4>2, <6>1, <6>2 DEF Lesser
        <5> SUFFICES ASSUME NEW x \in 1..Len(new) PROVE ~Less(new[x].score, s)
          BY <5>2 DEF s
        <5>3. CASE new[x] = e
          <6>1. PICK y \in 1..Len(list) : Less(list[y].score, e.score)
            BY <5>1, <5>3
          <6>2. ~Less(e.score, list[y].score) /\ ~Less(list[y].score, s)
            BY <2>9, <4>2, <6>1, LessFacts
          <6> QED BY <2>9, <3>1, <5>3, <6>2, LessFacts
        <5>4. CASE \E z \in 1..Len(list) : new[x] = list[z]
          BY <4>2, <5>4
        <5> QED BY <2>6, <5>3, <5>4
      <4> QED BY <1>5, <3>3, <4>1, <4>2 DEF NoneBetter, s
    <3> QED BY <1>1, <3>2, <3>3
  <2>13. Apart(new)
    BY <1>5, <2>3, <2>4, <2>8, InsertApart
  <2> QED BY <2>1, <2>3, <2>5, <2>6, <2>7, <2>12, <2>13 DEF Best
<1> QED BY <1>6, <1>7

\* The list that all candidates were offered to has the best ones.
LEMMA OfferedBest ==
    ASSUME NEW T, NEW C, NEW cands \in Seq(C), NEW opts, opts.maxCandidates \in Nat,
           Comparisons(cands, T)
    PROVE  /\ Offered(cands, opts) \in Seq(Candidate(T))
           /\ Best(Offered(cands, opts), Len(cands), cands, opts)
<1> DEFINE n == Len(cands)
           D == {cands[k] : k \in 1..n}
           S == Seq(Candidate(T))
           F == OfferStep(S, cands, opts)
           P == {w \in (0..n) \X S : Best(w[2], w[1], cands, opts)}
<1>1. n \in Nat /\ cands \in Seq(D) /\ \A k \in 1..n : cands[k] \in D
  OBVIOUS
<1>2. ASSUME NEW list \in S, NEW c \in D PROVE Offer(list, c, opts) \in S
  <2>1. c.target \in T /\ (c.pair.ok => c.pair.score \in Score)
    BY DEF Comparisons
  <2>2. CASE Fits(c, opts)
    <3>1. Offer(list, c, opts) = InsertTopK(list, EntryOf(c, opts), opts.maxCandidates)
      BY <2>2 DEF Offer, Fits, EntryOf
    <3>2. EntryOf(c, opts) \in Candidate(T)
      <4>1. Status(c.pair.score, opts) \in {"auto", "review"}
        BY DEF Status
      <4> QED BY <2>1, <2>2, <4>1 DEF EntryOf, Candidate, Fits
    <3> QED BY <3>1, <3>2, InsertFacts
  <2>3. CASE ~Fits(c, opts)
    BY <2>3 DEF Offer, Fits
  <2> QED BY <2>2, <2>3
<1>3. <<>> \in S
  OBVIOUS
<1>4. PICK iter : IsFold(iter, S, <<>>, n, F) /\ Offered(cands, opts) = iter[1..n]
  <2> HIDE DEF S, D
  <2> QED BY <1>1, <1>2, <1>3, OfferFold
<1>5. F \in [S \X (1..n) -> S]
  <2> HIDE DEF S, D
  <2> QED BY <1>1, <1>2 DEF OfferStep
<1>6. Keeps(F, n, S, P)
  <2> SUFFICES ASSUME NEW k \in 0..(n - 1), NEW v \in S, <<k, v>> \in P
               PROVE <<k + 1, F[<<v, k + 1>>]>> \in P
    <3> HIDE DEF S, F, n, P
    <3> QED BY DEF Keeps
  <2>1. k + 1 \in 1..n /\ k \in Nat /\ k + 1 \in 0..n
    BY <1>1
  <2>2. F[<<v, k + 1>>] = Offer(v, cands[k + 1], opts)
    <3> HIDE DEF S, n
    <3> QED BY <2>1 DEF OfferStep, n
  <2>3. Best(v, k, cands, opts)
    <3> HIDE DEF S, n
    <3> QED BY <2>1
  <2>4. Offer(v, cands[k + 1], opts) \in S /\ Best(Offer(v, cands[k + 1], opts), k + 1, cands, opts)
    BY <1>1, <2>1, <2>3, OfferKeepsBest
  <2> HIDE DEF S, F, n
  <2> QED BY <2>1, <2>2, <2>4
<1>7. <<0, <<>>>> \in P
  <2>1. /\ Len(<<>>) = 0 /\ 0 \in 0..n /\ 0 <= opts.maxCandidates
        /\ \A i \in 1..0 : FALSE
    BY <1>1
  <2>2. Best(<<>>, 0, cands, opts)
    BY <2>1 DEF Best, Descending, Apart, FromGood, NoneBetter
  <2> HIDE DEF S, n
  <2> QED BY <1>3, <2>1, <2>2
<1>8. iter[1..n] \in S /\ <<n, iter[1..n]>> \in P
  <2> HIDE DEF S, n, F, P
  <2> QED BY <1>1, <1>3, <1>4, <1>5, <1>6, <1>7, FoldKeeps
<1> QED BY <1>4, <1>8

\* The lesser of two numbers is the minimum of the set of the two.
LEMMA MinOfTwo ==
    ASSUME NEW a \in Nat, NEW b \in Nat
    PROVE  Min({a, b}) = Lesser(a, b)
<1> DEFINE m == Min({a, b})
<1>1. \E x \in {a, b} : \A y \in {a, b} : x <= y
  OBVIOUS
<1>2. m \in {a, b} /\ \A y \in {a, b} : m <= y
  BY <1>1 DEF Min
<1> HIDE DEF m
<1>3. m = Lesser(a, b)
  BY <1>2 DEF Lesser
<1> QED BY <1>3 DEF m

\* The candidates that a row is given are its best ones.
LEMMA KeptAreBest ==
    ASSUME NEW row, NEW target, NEW opts, NEW targets \in SUBSET Nat, IsFiniteSet(targets),
           opts.maxCandidates \in Nat, opts.auto \in Score, opts.review \in Score,
           \A j \in targets : ScorePair(row, target[j], opts.fields).ok
                                => ScorePair(row, target[j], opts.fields).score \in Score
    PROVE  /\ KeepsBest(BestOf(row, targets, target, opts), row, targets, target, opts)
           /\ BestOf(row, targets, target, opts) \in Seq(Candidate(targets))
           /\ \A i \in 1..Len(BestOf(row, targets, target, opts)) :
                 ~Less(BestOf(row, targets, target, opts)[i].score, opts.review)
<1> DEFINE n == Cardinality(targets)
           pair(j) == ScorePair(row, target[j], opts.fields)
           nth(k) == InOrder(targets)[k]
           cands == [k \in 1..n |-> [target |-> nth(k), pair |-> pair(nth(k))]]
           best == BestOf(row, targets, target, opts)
           K == opts.maxCandidates
           good == {j \in targets : pair(j).ok /\ Reviewed(pair(j).score, opts)}
           kept == {best[i].target : i \in DOMAIN best}
<1>1. /\ n \in Nat
      /\ \A k \in 1..n : nth(k) \in targets
      /\ \A i, j \in 1..n : i # j => nth(i) # nth(j)
      /\ \A x \in targets : \E k \in 1..n : nth(k) = x
  BY InOrderFacts
<1>2. best = Offered(cands, opts)
  BY DEF BestOf, Offered
<1>3. \A j \in targets : pair(j).ok => pair(j).score \in Score
  OBVIOUS
<1> HIDE DEF n, pair, nth, best
<1>4. /\ cands \in Seq({cands[k] : k \in 1..n}) /\ Len(cands) = n
      /\ \A k \in 1..n : cands[k].target = nth(k) /\ cands[k].pair = pair(nth(k))
  BY <1>1
<1>5. Comparisons(cands, targets)
  BY <1>1, <1>3, <1>4 DEF Comparisons
<1>6. best \in Seq(Candidate(targets)) /\ Best(best, n, cands, opts)
  <2> HIDE DEF cands
  <2>1. /\ Offered(cands, opts) \in Seq(Candidate(targets))
        /\ Best(Offered(cands, opts), Len(cands), cands, opts)
    BY <1>4, <1>5, OfferedBest
  <2> QED BY <1>2, <1>4, <2>1
<1> HIDE DEF cands
<1> DEFINE L == Len(best)
<1>7. /\ L \in Nat /\ DOMAIN best = 1..L /\ L <= K
      /\ \A i, j \in 1..L : i < j => ~Less(best[i].score, best[j].score)
      /\ \A i, j \in 1..L : i # j => best[i].target # best[j].target
      /\ \A i \in 1..L : \E k \in 1..n : Fits(cands[k], opts) /\ best[i] = EntryOf(cands[k], opts)
      /\ NoneBetter(best, n, cands, opts)
  BY <1>6 DEF Best, Descending, Apart, FromGood
<1>8. ASSUME NEW i \in 1..L
      PROVE  /\ best[i].target \in good
             /\ best[i].score = pair(best[i].target).score
             /\ best[i].status = Status(best[i].score, opts)
             /\ best[i].score \in Score
  <2>1. PICK k \in 1..n : Fits(cands[k], opts) /\ best[i] = EntryOf(cands[k], opts)
    BY <1>7
  <2>2. /\ best[i].target = nth(k) /\ best[i].score = pair(nth(k)).score
        /\ best[i].status = Status(best[i].score, opts)
    BY <1>4, <2>1 DEF EntryOf
  <2>3. nth(k) \in good
    BY <1>1, <1>4, <2>1 DEF Fits
  <2> QED BY <1>3, <2>2, <2>3
<1>9. ASSUME NEW j \in good
      PROVE  j \in kept \/ (L = K /\ \A i \in 1..L : ~Less(best[i].score, pair(j).score))
  <2>1. PICK k \in 1..n : nth(k) = j
    BY <1>1
  <2>2. Fits(cands[k], opts)
    BY <1>4, <2>1 DEF Fits
  <2>3. CASE \E i \in 1..L : best[i] = EntryOf(cands[k], opts)
    <3>1. PICK i \in 1..L : best[i] = EntryOf(cands[k], opts)
      BY <2>3
    <3>2. best[i].target = j
      BY <1>4, <2>1, <3>1 DEF EntryOf
    <3> QED BY <1>7, <3>2
  <2>4. CASE L = K /\ \A i \in 1..L : ~Less(best[i].score, cands[k].pair.score)
    BY <1>4, <2>1, <2>4
  <2> QED BY <1>7, <2>2, <2>3, <2>4 DEF NoneBetter
<1>10. kept \in SUBSET good
  BY <1>7, <1>8
<1>11. Cardinality(kept) = L
  <2> DEFINE f == [i \in 1..L |-> best[i].target]
  <2>1. f \in Injection(1..L, kept) /\ f \in Surjection(1..L, kept)
    <3>1. f \in [1..L -> kept]
      BY <1>7
    <3>2. \A i, j \in 1..L : f[i] = f[j] => i = j
      BY <1>7
    <3>3. \A x \in kept : \E i \in 1..L : f[i] = x
      BY <1>7
    <3> HIDE DEF f, L, kept
    <3> QED BY <3>1, <3>2, <3>3 DEF Injection, IsInjective, Surjection
  <2>2. IsFiniteSet(1..L) /\ Cardinality(1..L) = L
    <3> HIDE DEF L
    <3>1. 1 \in Int /\ L \in Int
      BY <1>7
    <3> QED BY <1>7, <3>1, FS_Interval
  <2> HIDE DEF f, kept, L
  <2>3. ExistsBijection(1..L, kept)
    BY <2>1 DEF Bijection, ExistsBijection
  <2> QED BY <2>2, <2>3, FS_Bijection
<1>12. L = Min({Cardinality(good), K})
  <2>1. IsFiniteSet(good) /\ Cardinality(good) \in Nat /\ IsFiniteSet(kept)
    <3>1. good \in SUBSET targets
      OBVIOUS
    <3> HIDE DEF good, kept
    <3> QED BY <1>10, <3>1, FS_Subset, FS_CardinalityType
  <2>2. L <= Cardinality(good)
    <3> HIDE DEF good, kept
    <3> QED BY <1>10, <1>11, <2>1, FS_Subset
  <2>3. L = K \/ L = Cardinality(good)
    <3>1. CASE kept = good
      BY <1>11, <3>1
    <3>2. CASE kept # good
      BY <1>9, <1>10, <3>2
    <3> QED BY <3>1, <3>2
  <2>4. Min({Cardinality(good), K}) = Lesser(Cardinality(good), K)
    BY <2>1, MinOfTwo
  <2> HIDE DEF good, L
  <2> QED BY <1>7, <2>1, <2>2, <2>3, <2>4 DEF Lesser
<1>13. ASSUME NEW i \in 1..L, best[i].status = "auto" PROVE ~Less(best[i].score, opts.auto)
  <2> DEFINE s == best[i].score
  <2>1. s \in Score /\ Status(s, opts) = "auto"
    BY <1>8, <1>13
  <2> HIDE DEF s
  <2>2. ~Less(s, IF Less(opts.auto, opts.review) THEN opts.review ELSE opts.auto)
    BY <2>1 DEF Status
  <2>3. CASE Less(opts.auto, opts.review)
    BY <2>1, <2>2, <2>3, LessFacts DEF s
  <2>4. CASE ~Less(opts.auto, opts.review)
    BY <2>2, <2>4 DEF s
  <2> QED BY <2>3, <2>4
<1>14. ASSUME NEW i \in 1..L, NEW j \in good \ kept PROVE ~Less(best[i].score, pair(j).score)
  BY <1>9
<1>15. ASSUME NEW score, score = [j \in targets |-> pair(j)]
       PROVE  LET fine == {j \in targets : score[j].ok /\ Reviewed(score[j].score, opts)}
              IN  /\ kept \subseteq fine /\ Cardinality(kept) = Len(best)
                  /\ Len(best) = Min({Cardinality(fine), opts.maxCandidates})
                  /\ \A i \in DOMAIN best : best[i].status = "auto" => ~Less(best[i].score, opts.auto)
                  /\ \A i, j \in DOMAIN best : i < j => ~Less(best[i].score, best[j].score)
                  /\ \A i \in DOMAIN best, j \in fine \ kept : ~Less(best[i].score, score[j].score)
  <2>1. {j \in targets : score[j].ok /\ Reviewed(score[j].score, opts)} = good
    BY <1>15
  <2>2. \A j \in good : score[j] = pair(j)
    BY <1>15
  <2> HIDE DEF good, kept
  <2> QED BY <1>7, <1>10, <1>11, <1>12, <1>13, <1>14, <2>1, <2>2
<1>16. KeepsBest(best, row, targets, target, opts)
  BY <1>15 DEF KeepsBest, pair
<1>17. \A i \in 1..L : ~Less(best[i].score, opts.review)
  BY <1>8 DEF Reviewed
<1> QED BY <1>6, <1>16, <1>17 DEF best

\* Rows with a name in common, of a word that is not short, are compared.
LEMMA NamesakesMeet ==
    ASSUME NEW source, NEW target, NEW opts
    PROVE  MissesNoNamesake(BuildCandidateIndex(source, target, opts).sets, source, target, opts.fields)
<1> DEFINE fields == opts.fields
           sets == BuildCandidateIndex(source, target, opts).sets
           shared(a, b) == BlockKeys(a, fields) \cap BlockKeys(b, fields) # {}
<1>1. ASSUME NEW i \in DOMAIN source, NEW j \in DOMAIN target, shared(source[i], target[j])
      PROVE  j \in sets[i]
  BY <1>1 DEF BuildCandidateIndex
<1>2. ASSUME NEW row, NEW f \in DOMAIN fields, fields[f].method \in Blockable,
             NEW w \in ToSet(CanonicalizeName(row[f])) \ Short
      PROVE  <<f, w>> \in BlockKeys(row, fields)
  <2> DEFINE keys(g) == {<<g, v>> : v \in ToSet(CanonicalizeName(row[g])) \ Short}
             looked == {g \in DOMAIN fields : fields[g].method \in Blockable}
  <2>1. <<f, w>> \in keys(f) /\ f \in looked
    BY <1>2
  <2>2. BlockKeys(row, fields) = UNION {keys(g) : g \in looked}
    BY DEF BlockKeys
  <2> HIDE DEF keys, looked
  <2> QED BY <2>1, <2>2
<1> HIDE DEF sets
<1> SUFFICES ASSUME NEW i \in DOMAIN source, NEW j \in DOMAIN target, NEW f \in DOMAIN fields,
                    fields[f].method \in Blockable,
                    CanonicalizeName(source[i][f]) = CanonicalizeName(target[j][f]),
                    ToSet(CanonicalizeName(source[i][f])) \ Short # {}
             PROVE  j \in sets[i]
  BY DEF MissesNoNamesake, sets
<1>3. PICK w \in ToSet(CanonicalizeName(source[i][f])) \ Short : TRUE
  OBVIOUS
<1>4. <<f, w>> \in BlockKeys(source[i], fields) /\ <<f, w>> \in BlockKeys(target[j], fields)
  BY <1>2, <1>3
<1> QED BY <1>1, <1>4

PlaceStep(S, best) == [p \in S \X (1..Len(best)) |-> Place(p[1], best[p[2]])]

\* Placing candidates one after the other is a fold.
LEMMA PlaceFold ==
    ASSUME NEW T, NEW best \in Seq(T), NEW list, NEW S, list \in S,
           \A st \in S, c \in T : Place(st, c) \in S
    PROVE  \E iter : /\ IsFold(iter, S, list, Len(best), PlaceStep(S, best))
                     /\ PlaceAll(list, best) = iter[1..Len(best)]
<1> DEFINE n == Len(best)
           F == PlaceStep(S, best)
           Iterates(g) == g = [s \in SUBSET DOMAIN best |->
                        IF s = {} THEN list ELSE Place(g[s \ {Max(s)}], best[Max(s)])]
           iter == CHOOSE g : Iterates(g)
<1>1. n \in Nat /\ DOMAIN best = 1..n /\ \A k \in 1..n : best[k] \in T
  OBVIOUS
<1>2. F \in [S \X (1..n) -> S]
  BY <1>1 DEF PlaceStep
<1>3. PICK g : IsFold(g, S, list, n, F)
  <2> HIDE DEF n, F
  <2> QED BY <1>1, <1>2, FoldExists
<1>4. ASSUME NEW s \in SUBSET (1..n), s # {}, NEW v \in S
      PROVE  /\ F[<<v, Max(s)>>] = Place(v, best[Max(s)])
             /\ Place(v, best[Max(s)]) \in S
  <2>1. Max(s) \in 1..n
    <3> HIDE DEF n
    <3> QED BY <1>1, <1>4, MaxIn
  <2> QED BY <1>1, <2>1 DEF PlaceStep
<1>5. Iterates(g)
  <2> HIDE DEF F
  <2> QED BY <1>1, <1>3, <1>4 DEF IsFold
<1>6. Iterates(iter)
  <2> HIDE DEF Iterates
  <2> QED BY <1>5
<1>7. IsFold(iter, S, list, n, F)
  <2> HIDE DEF iter, F, n
  <2>1. iter[{}] = list
    BY <1>1, <1>6
  <2>2. \A s \in SUBSET (1..n) : s # {} => iter[s] = Place(iter[s \ {Max(s)}], best[Max(s)])
    BY <1>1, <1>6
  <2> HIDE DEF Iterates
  <2>3. \A s \in SUBSET (1..n) : s # {} /\ iter[s \ {Max(s)}] \in S => iter[s] \in S
    BY <1>4, <2>2
  <2>4. \A s \in SUBSET (1..n) : iter[s] \in S
    <3>1. iter[{}] \in S
      BY <1>1, <2>1
    <3>2. n \in Nat
      BY <1>1
    <3> QED BY ONLY <2>3, <3>1, <3>2, FoldStays
  <2>5. iter \in [SUBSET (1..n) -> S]
    BY <1>1, <1>6, <2>4 DEF Iterates
  <2>6. ASSUME NEW s \in SUBSET (1..n), s # {} PROVE iter[s] = F[<<iter[s \ {Max(s)}], Max(s)>>]
    <3>1. iter[s \ {Max(s)}] \in S
      BY <2>4
    <3> QED BY <1>4, <2>2, <2>6, <3>1
  <2> QED BY <2>1, <2>5, <2>6 DEF IsFold
<1>8. PlaceAll(list, best) = iter[1..n]
  BY <1>1 DEF PlaceAll, FoldLeft, MapThenFoldSet
<1> HIDE DEF iter
<1> QED BY <1>7, <1>8

ReportStep(S, kept) == [p \in S \X (1..Len(kept)) |-> PlaceAll(p[1], kept[p[2]])]

Report(kept) == FoldLeft(PlaceAll, <<>>, kept)

\* Placing the candidates of all rows is a fold.
LEMMA ReportFold ==
    ASSUME NEW T, NEW kept \in Seq(T), NEW S, <<>> \in S,
           \A st \in S, c \in T : PlaceAll(st, c) \in S
    PROVE  \E iter : /\ IsFold(iter, S, <<>>, Len(kept), ReportStep(S, kept))
                     /\ Report(kept) = iter[1..Len(kept)]
<1> DEFINE n == Len(kept)
           F == ReportStep(S, kept)
           Iterates(g) == g = [s \in SUBSET DOMAIN kept |->
                        IF s = {} THEN <<>> ELSE PlaceAll(g[s \ {Max(s)}], kept[Max(s)])]
           iter == CHOOSE g : Iterates(g)
<1>1. n \in Nat /\ DOMAIN kept = 1..n /\ \A k \in 1..n : kept[k] \in T
  OBVIOUS
<1>2. F \in [S \X (1..n) -> S]
  BY <1>1 DEF ReportStep
<1>3. PICK g : IsFold(g, S, <<>>, n, F)
  <2> HIDE DEF n, F
  <2> QED BY <1>1, <1>2, FoldExists
<1>4. ASSUME NEW s \in SUBSET (1..n), s # {}, NEW v \in S
      PROVE  /\ F[<<v, Max(s)>>] = PlaceAll(v, kept[Max(s)])
             /\ PlaceAll(v, kept[Max(s)]) \in S
  <2>1. Max(s) \in 1..n
    <3> HIDE DEF n
    <3> QED BY <1>1, <1>4, MaxIn
  <2> QED BY <1>1, <2>1 DEF ReportStep
<1>5. Iterates(g)
  <2> HIDE DEF F
  <2> QED BY <1>1, <1>3, <1>4 DEF IsFold
<1>6. Iterates(iter)
  <2> HIDE DEF Iterates
  <2> QED BY <1>5
<1>7. IsFold(iter, S, <<>>, n, F)
  <2> HIDE DEF iter, F, n
  <2>1. iter[{}] = <<>>
    BY <1>1, <1>6
  <2>2. \A s \in SUBSET (1..n) : s # {} => iter[s] = PlaceAll(iter[s \ {Max(s)}], kept[Max(s)])
    BY <1>1, <1>6
  <2> HIDE DEF Iterates
  <2>3. \A s \in SUBSET (1..n) : s # {} /\ iter[s \ {Max(s)}] \in S => iter[s] \in S
    BY <1>4, <2>2
  <2>4. \A s \in SUBSET (1..n) : iter[s] \in S
    <3>1. iter[{}] \in S
      BY <1>1, <2>1
    <3>2. n \in Nat
      BY <1>1
    <3> QED BY ONLY <2>3, <3>1, <3>2, FoldStays
  <2>5. iter \in [SUBSET (1..n) -> S]
    BY <1>1, <1>6, <2>4 DEF Iterates
  <2>6. ASSUME NEW s \in SUBSET (1..n), s # {} PROVE iter[s] = F[<<iter[s \ {Max(s)}], Max(s)>>]
    <3>1. iter[s \ {Max(s)}] \in S
      BY <2>4
    <3> QED BY <1>4, <2>2, <2>6, <3>1
  <2> QED BY <2>1, <2>5, <2>6 DEF IsFold
<1>8. Report(kept) = iter[1..n]
  BY <1>1 DEF Report, FoldLeft, MapThenFoldSet
<1> HIDE DEF iter
<1> QED BY <1>7, <1>8

CountStep(S, kept) == [p \in S \X (1..Len(kept)) |-> p[1] + Len(kept[p[2]])]

Counted(kept) == FoldLeft(LAMBDA n, best : n + Len(best), 0, kept)

\* Counting the candidates of all rows is a fold.
LEMMA CountFold ==
    ASSUME NEW T, NEW kept \in Seq(T), NEW S, 0 \in S,
           \A st \in S, c \in T : st + Len(c) \in S
    PROVE  \E iter : /\ IsFold(iter, S, 0, Len(kept), CountStep(S, kept))
                     /\ Counted(kept) = iter[1..Len(kept)]
<1> DEFINE n == Len(kept)
           F == CountStep(S, kept)
           Iterates(g) == g = [s \in SUBSET DOMAIN kept |->
                        IF s = {} THEN 0 ELSE g[s \ {Max(s)}] + Len(kept[Max(s)])]
           iter == CHOOSE g : Iterates(g)
<1>1. n \in Nat /\ DOMAIN kept = 1..n /\ \A k \in 1..n : kept[k] \in T
  OBVIOUS
<1>2. F \in [S \X (1..n) -> S]
  BY <1>1 DEF CountStep
<1>3. PICK g : IsFold(g, S, 0, n, F)
  <2> HIDE DEF n, F
  <2> QED BY <1>1, <1>2, FoldExists
<1>4. ASSUME NEW s \in SUBSET (1..n), s # {}, NEW v \in S
      PROVE  /\ F[<<v, Max(s)>>] = v + Len(kept[Max(s)])
             /\ v + Len(kept[Max(s)]) \in S
  <2>1. Max(s) \in 1..n
    <3> HIDE DEF n
    <3> QED BY <1>1, <1>4, MaxIn
  <2> QED BY <1>1, <2>1 DEF CountStep
<1>5. Iterates(g)
  <2> HIDE DEF F
  <2> QED BY <1>1, <1>3, <1>4 DEF IsFold
<1>6. Iterates(iter)
  <2> HIDE DEF Iterates
  <2> QED BY <1>5
<1>7. IsFold(iter, S, 0, n, F)
  <2> HIDE DEF iter, F, n
  <2>1. iter[{}] = 0
    BY <1>1, <1>6
  <2>2. \A s \in SUBSET (1..n) : s # {} => iter[s] = iter[s \ {Max(s)}] + Len(kept[Max(s)])
    BY <1>1, <1>6
  <2> HIDE DEF Iterates
  <2>3. \A s \in SUBSET (1..n) : s # {} /\ iter[s \ {Max(s)}] \in S => iter[s] \in S
    BY <1>4, <2>2
  <2>4. \A s \in SUBSET (1..n) : iter[s] \in S
    <3>1. iter[{}] \in S
      BY <1>1, <2>1
    <3>2. n \in Nat
      BY <1>1
    <3> QED BY ONLY <2>3, <3>1, <3>2, FoldStays
  <2>5. iter \in [SUBSET (1..n) -> S]
    BY <1>1, <1>6, <2>4 DEF Iterates
  <2>6. ASSUME NEW s \in SUBSET (1..n), s # {} PROVE iter[s] = F[<<iter[s \ {Max(s)}], Max(s)>>]
    <3>1. iter[s \ {Max(s)}] \in S
      BY <2>4
    <3> QED BY <1>4, <2>2, <2>6, <3>1
  <2> QED BY <2>1, <2>5, <2>6 DEF IsFold
<1>8. Counted(kept) = iter[1..n]
  BY <1>1 DEF Counted, FoldLeft, MapThenFoldSet
<1> HIDE DEF iter
<1> QED BY <1>7, <1>8

\* Candidates that are good enough, and reports of them in order.
Listed(N, review) == {b \in Seq(Candidate(N)) : \A i \in 1..Len(b) : ~Less(b[i].score, review)}

Reports(N, review) == {b \in Listed(N, review) : Descending(b)}

\* A candidate is placed among those of a report.
LEMMA PlaceFacts ==
    ASSUME NEW N, NEW review, NEW list \in Reports(N, review), NEW c \in Candidate(N),
           ~Less(c.score, review)
    PROVE  /\ Place(list, c) \in Reports(N, review)
           /\ Len(Place(list, c)) = Len(list) + 1
           /\ ToSet(list) \subseteq ToSet(Place(list, c)) /\ c \in ToSet(Place(list, c))
<1> DEFINE new == Place(list, c)
           k == Len(list) + 1
<1>1. /\ list \in Seq(Candidate(N)) /\ Descending(list) /\ k \in Nat /\ Len(list) <= k
      /\ \A i \in 1..Len(list) : ~Less(list[i].score, review)
  BY DEF Reports, Listed
<1>2. new \in Seq(Candidate(N)) /\ \E p \in 1..(Len(list) + 1) : Inserted(new, list, c, p, k)
  BY <1>1, InsertFacts DEF Place
<1>3. PICK p \in 1..(Len(list) + 1) : Inserted(new, list, c, p, k)
  BY <1>2
<1> HIDE DEF new
<1>4. Descending(new)
  BY <1>1, <1>2, <1>3, InsertDescends
<1>5. /\ \A x \in 1..Len(new) : (x = p /\ new[x] = c) \/ \E y \in 1..Len(list) : new[x] = list[y]
      /\ \A y \in 1..Len(list) :
            \/ \E x \in 1..Len(new) : new[x] = list[y]
            \/ Len(new) = k /\ y = Len(list) /\ Len(new) = Len(list) /\ p <= y
      /\ \/ \E x \in 1..Len(new) : new[x] = c
         \/ Len(new) = k /\ p = Len(list) + 1 /\ Len(new) = Len(list)
  BY <1>1, <1>2, <1>3, InsertKeeps
<1>6. Len(new) = Len(list) + 1
  <2>1. Len(new) = Lesser(Len(list) + 1, k)
    BY <1>3 DEF Inserted
  <2> QED BY <2>1 DEF Lesser
<1>7. Len(list) # Len(list) + 1
  <2>1. Len(list) \in Nat
    BY <1>1
  <2> QED BY <2>1
<1>8. \A x \in 1..Len(new) : ~Less(new[x].score, review)
  BY <1>1, <1>5
<1>9. DOMAIN new = 1..Len(new) /\ DOMAIN list = 1..Len(list)
  BY <1>1, <1>2
<1>10. \A y \in 1..Len(list) : \E x \in 1..Len(new) : new[x] = list[y]
  BY <1>5, <1>6, <1>7
<1>11. \E x \in 1..Len(new) : new[x] = c
  BY <1>5, <1>6, <1>7
<1> HIDE DEF k
<1>12. ToSet(list) \subseteq ToSet(new) /\ c \in ToSet(new)
  BY <1>9, <1>10, <1>11 DEF ToSet
<1>13. new \in Reports(N, review)
  BY <1>2, <1>4, <1>8 DEF Reports, Listed
<1> QED BY <1>6, <1>12, <1>13 DEF new

\* What is left of placing the candidates of a row.
PlacedUpTo(v, k, list, best) ==
    /\ Len(v) = Len(list) + k
    /\ ToSet(list) \subseteq ToSet(v)
    /\ \A i \in 1..k : best[i] \in ToSet(v)

\* The candidates of a row are placed among those of a report.
LEMMA PlaceAllFacts ==
    ASSUME NEW N, NEW review, NEW list \in Reports(N, review), NEW best \in Listed(N, review)
    PROVE  /\ PlaceAll(list, best) \in Reports(N, review)
           /\ Len(PlaceAll(list, best)) = Len(list) + Len(best)
           /\ ToSet(list) \subseteq ToSet(PlaceAll(list, best))
           /\ ToSet(best) \subseteq ToSet(PlaceAll(list, best))
<1> DEFINE n == Len(best)
           S == Reports(N, review)
           D == {c \in Candidate(N) : ~Less(c.score, review)}
           F == PlaceStep(S, best)
           P == {w \in (0..n) \X S : PlacedUpTo(w[2], w[1], list, best)}
<1>1. n \in Nat /\ DOMAIN best = 1..n /\ \A k \in 1..n : best[k] \in D
  BY DEF Listed
<1>2. best \in Seq(D)
  <2>1. best \in Seq(Candidate(N))
    BY DEF Listed
  <2> HIDE DEF D
  <2> QED BY <1>1, <2>1
<1>3. Len(list) \in Nat
  BY DEF Reports, Listed
<1>4. ASSUME NEW v \in S, NEW c \in D
      PROVE  /\ Place(v, c) \in S
             /\ Len(Place(v, c)) = Len(v) + 1
             /\ ToSet(v) \subseteq ToSet(Place(v, c)) /\ c \in ToSet(Place(v, c))
  BY PlaceFacts
<1> HIDE DEF S, D
<1>5. list \in S
  BY DEF S
<1>6. PICK iter : IsFold(iter, S, list, n, F) /\ PlaceAll(list, best) = iter[1..n]
  <2> HIDE DEF n, F
  <2>1. \A st \in S, c \in D : Place(st, c) \in S
    BY <1>4
  <2> QED BY <1>2, <1>5, <2>1, PlaceFold DEF n, F
<1>7. F \in [S \X (1..n) -> S]
  BY <1>1, <1>4 DEF PlaceStep
<1>8. Keeps(F, n, S, P)
  <2> SUFFICES ASSUME NEW k \in 0..(n - 1), NEW v \in S, <<k, v>> \in P
               PROVE <<k + 1, F[<<v, k + 1>>]>> \in P
    <3> HIDE DEF F, n, P
    <3> QED BY DEF Keeps
  <2>1. k + 1 \in 1..n /\ k \in Nat /\ k + 1 \in 0..n
    BY <1>1
  <2>2. F[<<v, k + 1>>] = Place(v, best[k + 1])
    <3> HIDE DEF n
    <3> QED BY <2>1 DEF PlaceStep, n
  <2> DEFINE w == Place(v, best[k + 1])
  <2>3. PlacedUpTo(v, k, list, best)
    <3> HIDE DEF n
    <3> QED BY <2>1
  <2>4. /\ w \in S /\ Len(w) = Len(v) + 1
        /\ ToSet(v) \subseteq ToSet(w) /\ best[k + 1] \in ToSet(w)
    BY <1>1, <1>4, <2>1
  <2> HIDE DEF w
  <2>5. PlacedUpTo(w, k + 1, list, best)
    <3>1. Len(w) = Len(list) + (k + 1)
      BY <1>3, <2>1, <2>3, <2>4 DEF PlacedUpTo
    <3>2. ToSet(list) \subseteq ToSet(w)
      BY <2>3, <2>4 DEF PlacedUpTo
    <3>3. \A i \in 1..(k + 1) : i = k + 1 \/ i \in 1..k
      BY <2>1
    <3>4. \A i \in 1..(k + 1) : best[i] \in ToSet(w)
      BY <2>3, <2>4, <3>3 DEF PlacedUpTo
    <3> QED BY <3>1, <3>2, <3>4 DEF PlacedUpTo
  <2> HIDE DEF F, n
  <2> QED BY <2>1, <2>2, <2>4, <2>5 DEF w
<1>9. <<0, list>> \in P
  <2>1. 0 \in 0..n /\ (\A i \in 1..0 : FALSE) /\ Len(list) = Len(list) + 0
    BY <1>1, <1>3
  <2>2. PlacedUpTo(list, 0, list, best)
    BY <2>1 DEF PlacedUpTo
  <2> HIDE DEF n
  <2> QED BY <1>5, <2>1, <2>2
<1>10. iter[1..n] \in S /\ <<n, iter[1..n]>> \in P
  <2> HIDE DEF n, F, P
  <2> QED BY <1>1, <1>5, <1>6, <1>7, <1>8, <1>9, FoldKeeps
<1>11. PlacedUpTo(iter[1..n], n, list, best)
  <2> HIDE DEF n
  <2> QED BY <1>10
<1>12. ToSet(best) \subseteq ToSet(iter[1..n])
  BY <1>1, <1>11 DEF PlacedUpTo, ToSet
<1> QED BY <1>6, <1>10, <1>11, <1>12 DEF PlacedUpTo, S

\* What there is of a report after the first k rows.
ReportedUpTo(v, k, kept, total) ==
    /\ Len(v) = total
    /\ \A i \in 1..k : ToSet(kept[i]) \subseteq ToSet(v)

\* A report has the candidates of all rows, as many as there are, in order.
LEMMA ReportFacts ==
    ASSUME NEW N, NEW review, NEW kept \in Seq(Listed(N, review))
    PROVE  /\ Report(kept) \in Reports(N, review)
           /\ Len(Report(kept)) = Counted(kept)
           /\ \A i \in 1..Len(kept) : ToSet(kept[i]) \subseteq ToSet(Report(kept))
<1> DEFINE n == Len(kept)
           S == Reports(N, review)
           D == Listed(N, review)
           F == ReportStep(S, kept)
           G == CountStep(Nat, kept)
<1>1. n \in Nat /\ \A k \in 1..n : kept[k] \in D
  OBVIOUS
<1>2. ASSUME NEW v \in S, NEW b \in D
      PROVE  /\ PlaceAll(v, b) \in S
             /\ Len(PlaceAll(v, b)) = Len(v) + Len(b)
             /\ ToSet(v) \subseteq ToSet(PlaceAll(v, b)) /\ ToSet(b) \subseteq ToSet(PlaceAll(v, b))
  BY PlaceAllFacts
<1>3. ASSUME NEW st \in Nat, NEW b \in D PROVE st + Len(b) \in Nat
  <2>1. Len(b) \in Nat
    BY DEF Listed
  <2> QED BY <2>1
<1>4. <<>> \in S
  BY DEF Reports, Listed, Descending
<1> HIDE DEF S, D
<1>5. kept \in Seq(D)
  BY DEF D
<1>6. PICK iter : IsFold(iter, S, <<>>, n, F) /\ Report(kept) = iter[1..n]
  <2> HIDE DEF n, F
  <2>1. \A st \in S, c \in D : PlaceAll(st, c) \in S
    BY <1>2
  <2> QED BY <1>4, <1>5, <2>1, ReportFold DEF n, F
<1>7. PICK count : IsFold(count, Nat, 0, n, G) /\ Counted(kept) = count[1..n]
  <2> HIDE DEF n, G
  <2>1. \A st \in Nat, c \in D : st + Len(c) \in Nat
    BY <1>3
  <2> QED BY <1>5, <2>1, CountFold DEF n, G
<1> DEFINE P == {w \in (0..n) \X S : ReportedUpTo(w[2], w[1], kept, count[1..w[1]])}
<1>8. F \in [S \X (1..n) -> S] /\ Grows(count, Nat, 0, n, G)
  <2>1. F \in [S \X (1..n) -> S]
    BY <1>1, <1>2 DEF ReportStep
  <2>2. Grows(count, Nat, 0, n, G)
    <3> HIDE DEF n, G
    <3> QED BY <1>1, <1>7, FoldNext
  <2> QED BY <2>1, <2>2
<1>9. Keeps(F, n, S, P)
  <2> SUFFICES ASSUME NEW k \in 0..(n - 1), NEW v \in S, <<k, v>> \in P
               PROVE <<k + 1, F[<<v, k + 1>>]>> \in P
    <3> HIDE DEF F, n, P
    <3> QED BY DEF Keeps
  <2>1. k + 1 \in 1..n /\ k \in 0..n /\ k + 1 \in 0..n
    BY <1>1
  <2>2. F[<<v, k + 1>>] = PlaceAll(v, kept[k + 1])
    <3> HIDE DEF n
    <3> QED BY <2>1 DEF ReportStep, n
  <2> DEFINE w == PlaceAll(v, kept[k + 1])
  <2>3. ReportedUpTo(v, k, kept, count[1..k])
    <3> HIDE DEF n
    <3> QED BY <2>1
  <2>4. /\ w \in S /\ Len(w) = Len(v) + Len(kept[k + 1])
        /\ ToSet(v) \subseteq ToSet(w) /\ ToSet(kept[k + 1]) \subseteq ToSet(w)
    BY <1>1, <1>2, <2>1
  <2>5. count[1..(k + 1)] = count[1..k] + Len(kept[k + 1])
    <3>1. count[1..k] \in Nat /\ count[1..(k + 1)] = G[<<count[1..k], k + 1>>]
      <4> HIDE DEF n, G
      <4> QED BY <1>8, <2>1 DEF Grows
    <3> QED BY <2>1, <3>1 DEF CountStep
  <2> HIDE DEF w
  <2>6. ReportedUpTo(w, k + 1, kept, count[1..(k + 1)])
    <3>1. \A i \in 1..(k + 1) : i = k + 1 \/ i \in 1..k
      BY <2>1
    <3>2. \A i \in 1..(k + 1) : ToSet(kept[i]) \subseteq ToSet(w)
      BY <2>3, <2>4, <3>1 DEF ReportedUpTo
    <3>3. Len(w) = count[1..(k + 1)]
      BY <2>3, <2>4, <2>5 DEF ReportedUpTo
    <3> QED BY <3>2, <3>3 DEF ReportedUpTo
  <2> HIDE DEF F, n
  <2> QED BY <2>1, <2>2, <2>4, <2>6 DEF w
<1>10. <<0, <<>>>> \in P
  <2>1. 0 \in 0..n /\ (\A i \in 1..0 : FALSE) /\ Len(<<>>) = 0 /\ count[1..0] = 0
    <3>1. count[1..0] = 0
      <4> HIDE DEF n, G
      <4> QED BY <1>8 DEF Grows
    <3> QED BY <1>1, <3>1
  <2>2. ReportedUpTo(<<>>, 0, kept, count[1..0])
    BY <2>1 DEF ReportedUpTo
  <2> HIDE DEF n
  <2> QED BY <1>4, <2>1, <2>2
<1>11. iter[1..n] \in S /\ <<n, iter[1..n]>> \in P
  <2> HIDE DEF n, F, P
  <2> QED BY <1>1, <1>4, <1>6, <1>8, <1>9, <1>10, FoldKeeps
<1>12. ReportedUpTo(iter[1..n], n, kept, count[1..n])
  <2> HIDE DEF n
  <2> QED BY <1>11
<1> QED BY <1>6, <1>7, <1>11, <1>12 DEF ReportedUpTo, S

\* The options of a match, with fields of any kind.
Options(T) ==
    [fields : T, noBlocking : BOOLEAN, auto : Score, review : Score,
     maxCandidates : Nat, maxComparisons : Nat]

\* Tables have rows; thresholds and the scores of pairs are finite.
Matchable(source, target, opts) ==
    /\ \E T : source \in Seq(T) /\ target \in Seq(T)
    /\ \E T : opts \in Options(T)
    /\ \A i \in DOMAIN source, j \in DOMAIN target :
          LET pair == ScorePair(source[i], target[j], opts.fields)
          IN  pair.ok => pair.score \in Score

\* The rows to compare a row with are rows of the target, and the best of them are kept.
LEMMA RowFacts ==
    ASSUME NEW source, NEW target, NEW opts, Matchable(source, target, opts), NEW i \in DOMAIN source
    PROVE  LET sets == BuildCandidateIndex(source, target, opts).sets
               best == Match(source, target, opts).best
           IN  /\ KeepsBest(best[i], source[i], sets[i], target, opts)
               /\ best[i] \in Listed(DOMAIN target, opts.review)
<1> DEFINE targets == BuildCandidateIndex(source, target, opts).sets[i]
           best == Match(source, target, opts).best
<1>1. PICK T : source \in Seq(T) /\ target \in Seq(T)
  BY DEF Matchable
<1>2. /\ opts.maxCandidates \in Nat /\ opts.auto \in Score /\ opts.review \in Score
      /\ \A j \in DOMAIN target :
            ScorePair(source[i], target[j], opts.fields).ok
              => ScorePair(source[i], target[j], opts.fields).score \in Score
  BY DEF Matchable, Options
<1>3. best[i] = BestOf(source[i], targets, target, opts)
  BY DEF Match
<1>4. targets \in SUBSET DOMAIN target
  BY DEF BuildCandidateIndex
<1>5. IsFiniteSet(DOMAIN target) /\ DOMAIN target \in SUBSET Nat
  <2>1. DOMAIN target = 1..Len(target) /\ Len(target) \in Nat /\ 1 \in Int /\ Len(target) \in Int
    BY <1>1
  <2>2. IsFiniteSet(1..Len(target))
    BY <2>1, FS_Interval
  <2> QED BY <2>1, <2>2
<1> HIDE DEF targets, best
<1>6. targets \in SUBSET Nat /\ IsFiniteSet(targets)
  BY <1>4, <1>5, FS_Subset
<1>7. /\ KeepsBest(best[i], source[i], targets, target, opts)
      /\ best[i] \in Seq(Candidate(targets))
      /\ \A k \in 1..Len(best[i]) : ~Less(best[i][k].score, opts.review)
  BY <1>2, <1>3, <1>4, <1>6, KeptAreBest
<1>8. best[i] \in Seq(Candidate(DOMAIN target))
  <2>1. \A c \in Candidate(targets) : c \in Candidate(DOMAIN target)
    BY <1>4 DEF Candidate
  <2> QED BY <1>7, <2>1
<1> QED BY <1>7, <1>8 DEF Listed, targets, best

\* A match keeps the best candidates of each row.
LEMMA MatchFacts ==
    ASSUME NEW source, NEW target, NEW opts, Matchable(source, target, opts)
    PROVE  KeepsCandidates(source, target, opts)
<1> DEFINE index == BuildCandidateIndex(source, target, opts)
           match == Match(source, target, opts)
<1>1. match.ok => match.comparisons <= opts.maxComparisons
  BY DEF Match, BuildCandidateIndex
<1>2. MissesNoNamesake(index.sets, source, target, opts.fields)
  BY NamesakesMeet
<1>3. ASSUME NEW i \in DOMAIN source
      PROVE  KeepsBest(match.best[i], source[i], index.sets[i], target, opts)
  BY RowFacts
<1> HIDE DEF index, match
<1>4. \A indices \in {index}, matches \in {match} : matches.ok =>
        /\ matches.comparisons <= opts.maxComparisons
        /\ MissesNoNamesake(indices.sets, source, target, opts.fields)
        /\ \A i \in DOMAIN source :
              KeepsBest(matches.best[i], source[i], indices.sets[i], target, opts)
  BY <1>1, <1>2, <1>3
<1> QED BY <1>4 DEF KeepsCandidates, index, match

\* Default thresholds are thresholds, and nothing else changes.
LEMMA DefaultFacts ==
    ASSUME NEW T, NEW opts \in Options(T)
    PROVE  WithDefaults(opts) \in Options(T) /\ WithDefaults(opts).fields = opts.fields
<1>1. Frac(9, 10) \in Score /\ Frac(6, 10) \in Score
  BY DEF Frac, Score
<1> QED BY <1>1 DEF WithDefaults, Options

\* A run reports the candidates of all rows, the best first.
LEMMA RunFacts ==
    ASSUME NEW source, NEW target, NEW opts, Matchable(source, target, opts),
           NEW columns, NEW maxRows
    PROVE  RunRight(source, target, columns, opts, maxRows)
<1> DEFINE usual == WithDefaults(opts)
           run == RunMatch(source, target, columns, opts, maxRows)
           kept == Match(source, target, usual).best
<1>1. PICK T : opts \in Options(T)
  BY DEF Matchable
<1>2. usual \in Options(T) /\ usual.fields = opts.fields
  BY <1>1, DefaultFacts
<1> HIDE DEF usual
<1>3. Matchable(source, target, usual)
  BY <1>2 DEF Matchable
<1>4. \A i \in DOMAIN source : kept[i] \in Listed(DOMAIN target, usual.review)
  BY <1>3, RowFacts
<1>5. DOMAIN kept = DOMAIN source /\ kept = [i \in DOMAIN source |-> kept[i]]
  BY DEF Match
<1>6. PICK U : source \in Seq(U)
  BY DEF Matchable
<1>7. run.results = Report(kept)
  BY DEF RunMatch, Report, usual
<1>8. run.ok => \A i \in DOMAIN opts.fields : CanonicalColumn(columns, opts.fields[i].column) # Noise
  BY DEF RunMatch
<1> HIDE DEF kept, run
<1>9. kept \in Seq(Listed(DOMAIN target, usual.review))
  <2>1. DOMAIN source = 1..Len(source) /\ Len(source) \in Nat
    BY <1>6
  <2> QED BY <1>4, <1>5, <2>1
<1>10. /\ Report(kept) \in Reports(DOMAIN target, usual.review)
       /\ Len(Report(kept)) = Counted(kept)
       /\ \A i \in 1..Len(kept) : ToSet(kept[i]) \subseteq ToSet(Report(kept))
  BY <1>9, ReportFacts
<1>11. /\ DOMAIN Report(kept) = 1..Len(Report(kept))
       /\ \A i \in 1..Len(Report(kept)) : ~Less(Report(kept)[i].score, usual.review)
       /\ \A i, j \in 1..Len(Report(kept)) :
             i < j => ~Less(Report(kept)[i].score, Report(kept)[j].score)
  BY <1>10 DEF Reports, Listed, Descending
<1>12. ASSUME run.ok, NEW f \in ToSet(opts.fields)
       PROVE  \E c \in ToSet(columns) : Lowered[c] = Lowered[f.column]
  <2>1. PICK i \in DOMAIN opts.fields : opts.fields[i] = f
    BY DEF ToSet
  <2>2. CanonicalColumn(columns, f.column) # Noise
    BY <1>8, <1>12, <2>1
  <2>3. PICK k \in DOMAIN columns : Lowered[columns[k]] = Lowered[f.column]
    BY <2>2 DEF CanonicalColumn
  <2> QED BY <2>3 DEF ToSet
<1>13. DOMAIN kept = 1..Len(kept)
  BY <1>9
<1>14. \A ran \in {run}, best \in {kept} : ran.ok =>
         /\ \A f \in ToSet(opts.fields) : \E c \in ToSet(columns) : Lowered[c] = Lowered[f.column]
         /\ \A i, j \in DOMAIN ran.results : i < j => ~Less(ran.results[i].score, ran.results[j].score)
         /\ \A i \in DOMAIN ran.results : ~Less(ran.results[i].score, usual.review)
         /\ \A i \in DOMAIN best : ToSet(best[i]) \subseteq ToSet(ran.results)
         /\ Len(ran.results) = Counted(best)
  BY <1>7, <1>10, <1>11, <1>12, <1>13
<1> QED BY <1>14 DEF RunRight, Counted, run, kept, usual

----------------------------------------------------------------------------
(* Every question *)

\* What is asked about rows are rows of any kind, in a table or in none, and numbers.
RowsAsked ==
    /\ About("windows") => (\E T : given \in Seq(T)) /\ Question \in Int \X Int
    /\ About("pages") => (\E T : given \in Seq(T)) /\ Question \in STRING \X Int \X Int
    /\ About("migration") => (\E T : given \in Table(T) \X Table(T)) /\ Question \in BOOLEAN \X Nat

\* What is asked about statements is a text or tokens, in two parts.
StatementsAsked ==
    About("text") \/ About("tokens") => \E T : given \in Seq(T) /\ Question \in Seq(T)

GatesAsked == About("gates") => Question \in Situation

\* Either table may be the source.
MatchAsked ==
    About("match") =>
        \A tables \in {<<Question.source, Question.target>>, <<Question.target, Question.source>>} :
            Matchable(tables[1], tables[2], Question.opts)

\* The questions that are asked, one after the other.
Asked == RowsAsked /\ StatementsAsked /\ GatesAsked /\ MatchAsked

Asking == Asked /\ [][Asked']_asking

\* Whatever is asked is a question.
LEMMA AlwaysAsked == Asking => []Asked
<1>1. Asked /\ UNCHANGED asking => Asked'
  BY DEF Asked, RowsAsked, StatementsAsked, GatesAsked, MatchAsked, asking, About, Question
<1> QED BY <1>1, PTL DEF Asking

\* Limits and sizes of pages are numbers.
Sizes ==
    /\ DefaultLimit \in Nat \ {0} /\ MaxLimit \in Nat \ {0}
    /\ PageSize \in Nat \ {0} /\ MaxPageSize \in Nat \ {0}

\* Whatever is asked about rows, the answer is right: windows of any rows, pages of any
\* table and copies of any tables (the readers of db.go, handlers.go and migration.go).
THEOREM RowsAnswered ==
    ASSUME Sizes
    PROVE  Asking => []RowsRight
<1>1. ASSUME RowsAsked PROVE RowsRight
  <2>1. CASE About("windows")
    <3>1. PICK T : given \in Seq(T)
      BY <1>1, <2>1 DEF RowsAsked
    <3>2. Question[1] \in Int /\ Question[2] \in Int
      BY <1>1, <2>1 DEF RowsAsked
    <3>3. WindowsRight(given, Question[1], Question[2])
      BY <3>1, <3>2, WindowsAgree DEF Sizes
    <3> QED BY <2>1, <3>3 DEF RowsRight, About
  <2>2. CASE About("pages")
    <3>1. PICK T : given \in Seq(T)
      BY <1>1, <2>2 DEF RowsAsked
    <3>2. Question[1] \in STRING /\ Question[2] \in Int /\ Question[3] \in Int
      BY <1>1, <2>2 DEF RowsAsked
    <3>3. PagesRight(given, Question[1], Question[2], Question[3])
      BY <3>1, <3>2, PagesShowAll DEF Sizes
    <3> QED BY <2>2, <3>3 DEF RowsRight, About
  <2>3. CASE About("migration")
    <3>1. PICK T : given \in Table(T) \X Table(T)
      BY <1>1, <2>3 DEF RowsAsked
    <3>2. Question[1] \in BOOLEAN /\ Question[2] \in Nat
      BY <1>1, <2>3 DEF RowsAsked
    <3>3. given[1] \in Table(T) /\ given[2] \in Table(T)
      BY <3>1
    <3>4. MigrationRight(given[1], given[2], Question[1], Question[2])
      BY <3>2, <3>3, RowsArrive
    <3> QED BY <2>3, <3>4 DEF RowsRight, About
  <2> QED BY <2>1, <2>2, <2>3 DEF RowsRight
<1>2. Asked => RowsRight
  BY <1>1 DEF Asked
<1> QED BY <1>2, AlwaysAsked, PTL

\* Both promises of the classifier hold of every text and of the tokens of every statement:
\* the scanners agree on what is code, and what is classified as a read executes nothing that
\* writes (sqlutil.go).
THEOREM StatementsAnswered == Asking => []StatementsRight
<1>1. ASSUME StatementsAsked PROVE StatementsRight
  <2>1. ASSUME About("text") \/ About("tokens")
        PROVE  ScannersAgree(given \o Question) /\ ReadsOnlyRead(given \o Question)
    <3>1. PICK T : given \in Seq(T) /\ Question \in Seq(T)
      BY <1>1, <2>1 DEF StatementsAsked
    <3>2. given \o Question \in Seq(T)
      BY <3>1
    <3> QED BY <3>2, TextsRight, ReadsRight
  <2> QED BY <2>1 DEF StatementsRight
<1>2. Asked => StatementsRight
  BY <1>1 DEF Asked
<1> QED BY <1>2, AlwaysAsked, PTL

\* All ways to write apply one rule in every situation (the gates of session.go, handlers.go
\* and the routes).
THEOREM GatesAnswered == Asking => []GatesRight
<1>1. Asked => GatesRight
  BY OneRuleForWrites DEF Asked, GatesAsked, GatesRight
<1> QED BY <1>1, AlwaysAsked, PTL

\* Whatever tables are matched, under any options: no pair outside the limit is compared, rows
\* with the same name are compared, the candidates kept for a row are the best ones of those
\* that were compared, in order, none automatic below its threshold (match.go), and a report has
\* the candidates of all rows, the best first (matching.go).
THEOREM CandidatesAnswered == Asking => []CandidatesRight
<1>1. ASSUME MatchAsked PROVE CandidatesRight
  <2> SUFFICES ASSUME About("match"),
                      NEW tables \in {<<Question.source, Question.target>>, <<Question.target, Question.source>>}
               PROVE  /\ KeepsCandidates(tables[1], tables[2], Question.opts)
                      /\ RunRight(tables[1], tables[2], Question.columns, Question.opts, Question.maxRows)
    BY DEF CandidatesRight
  <2>1. Matchable(tables[1], tables[2], Question.opts)
    BY <1>1 DEF MatchAsked
  <2> QED BY <2>1, MatchFacts, RunFacts
<1>2. Asked => CandidatesRight
  BY <1>1 DEF Asked
<1> QED BY <1>2, AlwaysAsked, PTL
=============================================================================
