-------------------------------- MODULE Matcher --------------------------------
(***************************************************************************)
(* The record matcher: which pairs of a source and a target row are        *)
(* compared, how a pair is scored, and which candidates are kept.          *)
(*                                                                         *)
(* A value is a sequence of words (of one number or one code in numeric    *)
(* and ean fields), blank when empty.  Scores are fractions [n, d], exact  *)
(* where the code has floats; d = 0 is NaN, which no comparison accepts.   *)
(*                                                                         *)
(* Definitions whose name says what they leave out are mutations of the    *)
(* definition that follows them; the model does not use them.              *)
(***************************************************************************)
EXTENDS Integers, SequencesExt, FiniteSetsExt

CONSTANTS
    Fold,       \* the word that letter case, umlauts and digraphs fold a word to, or Noise
    Noise,      \* what punctuation is folded to
    Lowered,    \* the word that letter case alone folds a word to
    LegalForm,  \* folded words that are legal forms (GmbH, AG, Inc, ...)
    Short,      \* folded words of fewer than three letters
    Street,     \* Street[w]: the word a street abbreviation at the end of w expands to
    HouseNumber,\* words that are house numbers
    Letters,    \* Letters[w]: the letters of a folded word
    Infinity,   \* the number that parses as an infinity
    Undefined,  \* the number that parses as NaN
    NotANumber, \* numbers that do not parse
    ValidCode   \* codes with a right check digit

----------------------------------------------------------------------------
(* Fractions *)

Frac(n, d) == [n |-> n, d |-> d]
Zero == Frac(0, 1)
One == Frac(1, 1)
Nan == Frac(0, 0)
Less(x, y) == x.d # 0 /\ y.d # 0 /\ x.n * y.d < y.n * x.d
Same(x, y) == x.d # 0 /\ y.d # 0 /\ x.n * y.d = y.n * x.d
Plus(x, y) == IF x.d = y.d THEN Frac(x.n + y.n, x.d) ELSE Frac(x.n * y.d + y.n * x.d, x.d * y.d)
Times(x, y) == Frac(x.n * y.n, x.d * y.d)
Bit(b) == IF b THEN One ELSE Zero

Absolute(n) == IF n < 0 THEN -n ELSE n

----------------------------------------------------------------------------
(* Methods *)

\* CanonicalizeName: legal forms are dropped unless nothing else is there.
CanonicalizeName(v) ==
    LET folded == SelectSeq([i \in DOMAIN v |-> Fold[v[i]]], LAMBDA w : w # Noise)
        kept == SelectSeq(folded, LAMBDA w : w \notin LegalForm)
    IN  IF kept = <<>> THEN folded ELSE kept

Jaccard(a, b) ==
    LET both == ToSet(a) \cap ToSet(b)
        either == ToSet(a) \cup ToSet(b)
    IN  IF either = {} THEN Zero ELSE Frac(Cardinality(both), Cardinality(either))

\* The letters of a that a window of b matches, first come first served: a function from
\* positions of a to positions of b.
Matched(a, b) ==
    LET reach == Max({0, Len(a) \div 2 - 1, Len(b) \div 2 - 1})
        Take(m, i) ==
            LET free == {j \in DOMAIN b : /\ Absolute(i - j) <= reach
                                          /\ a[i] = b[j]
                                          /\ \A k \in DOMAIN m : m[k] # j}
            IN  IF free = {} THEN m ELSE (i :> Min(free)) @@ m
    IN  FoldLeft(Take, <<>>, [i \in DOMAIN a |-> i])

InOrder(S) ==
    [k \in 1..Cardinality(S) |-> CHOOSE x \in S : Cardinality({y \in S : y < x}) = k - 1]

JaroWinkler(a, b) ==
    LET m == Matched(a, b)
        count == Cardinality(DOMAIN m)
        ofA == InOrder(DOMAIN m)
        ofB == InOrder({m[i] : i \in DOMAIN m})
        swaps == Cardinality({k \in 1..count : a[ofA[k]] # b[ofB[k]]}) \div 2
        jaro == Frac(count * count * (Len(a) + Len(b)) + (count - swaps) * Len(a) * Len(b),
                     3 * Len(a) * Len(b) * count)
        prefix == Cardinality({k \in 1..4 : /\ k <= Len(a) /\ k <= Len(b)
                                            /\ SubSeq(a, 1, k) = SubSeq(b, 1, k)})
    IN  CASE a = b      -> One
          [] count = 0  -> Zero
          [] OTHER      -> Frac((10 - prefix) * jaro.n + prefix * jaro.d, 10 * jaro.d)

SpelledOut(v) == FoldLeft(LAMBDA t, w : (IF t = <<>> THEN t ELSE Append(t, " ")) \o Letters[w], <<>>, v)

\* The words of a street are expanded after its umlauts are folded.
NormalizeStreet(v) == CanonicalizeName([i \in DOMAIN v |-> Street[Fold[v[i]]]])

AddressScore(a, b) ==
    LET Numbered(v) == v # <<>> /\ v[Len(v)] \in HouseNumber
        StreetOf(v) == NormalizeStreet(IF Numbered(v) THEN SubSeq(v, 1, Len(v) - 1) ELSE v)
        NumberOf(v) == IF Numbered(v) THEN <<v[Len(v)]>> ELSE <<>>
        street == Jaccard(StreetOf(a), StreetOf(b))
    IN  IF ~Numbered(a) /\ ~Numbered(b) THEN street
        ELSE Plus(Times(Frac(7, 10), street), Times(Frac(3, 10), Bit(NumberOf(a) = NumberOf(b))))

\* tolerance is a fraction.
NumericScore(a, b, tolerance) ==
    LET finite == {a, b} \cap {Infinity, Undefined} = {}
        score == Plus(One, Frac(-Absolute(a - b) * tolerance.d,
                                Max({Absolute(a), Absolute(b)}) * tolerance.n))
    IN  CASE a = b /\ a # Undefined -> One
          [] OTHER -> IF tolerance = Zero THEN Zero
                      ELSE IF ~finite THEN Nan
                      ELSE IF Less(score, Zero) THEN Zero ELSE score

\* An EAN-8 or EAN-13 code whose last digit is right; the two start with opposite weights.
ValidateEAN(code) ==
    LET last == Len(code)
        weight(i) == IF (last = 8) = (i % 2 = 1) THEN 3 ELSE 1
        sum == FoldLeft(LAMBDA n, i : n + weight(i) * code[i], 0, [i \in 1..last - 1 |-> i])
    IN  /\ last \in {8, 13}
        /\ ToSet(code) \subseteq 0..9
        /\ code[last] = (10 - (sum % 10)) % 10

Comparable(a, b, f) ==
    CASE f.method = "token_set" -> CanonicalizeName(a) # <<>> /\ CanonicalizeName(b) # <<>>
      [] f.method = "numeric"   -> a[1] \notin NotANumber /\ b[1] \notin NotANumber
      [] f.method = "ean"       -> a[1] \in ValidCode /\ b[1] \in ValidCode
      [] OTHER                  -> TRUE

CompareField(a, b, f) ==
    CASE f.method = "exact"      -> Bit(a = b)
      [] f.method = "exact_ci"   -> Bit([i \in DOMAIN a |-> Lowered[a[i]]] = [i \in DOMAIN b |-> Lowered[b[i]]])
      [] f.method = "normalized" -> Bit(CanonicalizeName(a) = CanonicalizeName(b))
      [] f.method = "similarity" -> JaroWinkler(SpelledOut(CanonicalizeName(a)),
                                                SpelledOut(CanonicalizeName(b)))
      [] f.method = "token_set"  -> Jaccard(CanonicalizeName(a), CanonicalizeName(b))
      [] f.method = "address"    -> AddressScore(a, b)
      [] f.method = "numeric"    -> NumericScore(a[1], b[1], f.tolerance)
      [] f.method = "ean"        -> Bit(a = b)

----------------------------------------------------------------------------
(* Scoring a pair of rows *)

Ungrouped == "none"

\* The scores of the fields that count: blank values and incomparable ones do not.
Scored(a, b, fields) ==
    [i \in {i \in DOMAIN fields : a[i] # <<>> /\ b[i] # <<>> /\ Comparable(a[i], b[i], fields[i])} |->
        CompareField(a[i], b[i], fields[i])]

\* The loop over the fields: one on its own adds its weighted score, a grouped one
\* changes its group's score with join and adds to its weight; the groups are added last.
Combined(scores, fields, join(_, _)) ==
    LET none == [score |-> Zero, weight |-> 0]
        add(x, y) == [score |-> Plus(x.score, Times(Frac(y.weight, 1), y.score)),
                      weight |-> x.weight + y.weight]
        field(i) == [score |-> scores[i], weight |-> fields[i].weight]
        own == {i \in DOMAIN scores : fields[i].group = Ungrouped}
        members(g) == SelectSeq([i \in DOMAIN fields |-> i],
                                LAMBDA i : i \in DOMAIN scores /\ fields[i].group = g)
        group(g) ==
            FoldLeft(LAMBDA x, i : [score |-> IF x.weight = 0 THEN scores[i]
                                              ELSE join(x.score, scores[i]),
                                    weight |-> x.weight + fields[i].weight], none, members(g))
        sum == FoldSet(LAMBDA g, x : add(x, group(g)),
                       FoldSet(LAMBDA i, x : add(x, field(i)), none, own),
                       {fields[i].group : i \in DOMAIN fields} \ {Ungrouped})
    IN  [ok |-> sum.weight # 0,
         score |-> IF sum.weight = 0 THEN Zero ELSE Times(sum.score, Frac(1, sum.weight))]

ScorePairByBest(a, b, fields) ==
    Combined(Scored(a, b, fields), fields, LAMBDA x, y : IF Less(x, y) THEN y ELSE x)

\* A composite key is as good as its weakest member.
ScorePair(a, b, fields) ==
    Combined(Scored(a, b, fields), fields, LAMBDA x, y : IF Less(y, x) THEN y ELSE x)

----------------------------------------------------------------------------
(* Candidates *)

Blockable == {"normalized", "similarity", "token_set", "address"}

BlockKeys(row, fields) ==
    UNION {{<<i, w>> : w \in ToSet(CanonicalizeName(row[i])) \ Short} :
              i \in {i \in DOMAIN fields : fields[i].method \in Blockable}}

\* The targets to score for each source row, or a refusal: without a field to block on,
\* and on request, every row against every row.
BuildCandidateIndex(source, target, opts) ==
    LET blocking == ~opts.noBlocking /\ \E i \in DOMAIN opts.fields : opts.fields[i].method \in Blockable
        shared(a, b) == BlockKeys(a, opts.fields) \cap BlockKeys(b, opts.fields) # {}
        sets == [i \in DOMAIN source |->
                    {j \in DOMAIN target : blocking => shared(source[i], target[j])}]
        total == FoldLeft(LAMBDA n, S : n + Cardinality(S), 0, sets)
    IN  [ok |-> total <= opts.maxComparisons, sets |-> sets, comparisons |-> total]

InsertTopKWithoutOrder(list, c, k) == IF Len(list) < k THEN Append(list, c) ELSE list

\* A stable insertion by descending score, cut at k: c passes the lower ones at the end.  (Above
\* twelve elements sort.Slice may order equal scores otherwise; no property depends on it.)
InsertTopK(list, c, k) ==
    LET passed == Cardinality({i \in DOMAIN list : \A j \in i..Len(list) : Less(list[j].score, c.score)})
        longer == InsertAt(list, Len(list) + 1 - passed, c)
    IN  SubSeq(longer, 1, Min({Len(longer), k}))

Reviewed(score, opts) == ~Less(score, opts.review)

\* The automatic threshold is never below the one for review.
Status(score, opts) ==
    IF ~Less(score, IF Less(opts.auto, opts.review) THEN opts.review ELSE opts.auto) /\ score.d # 0
    THEN "auto" ELSE "review"

\* A candidate that is good enough is offered to the list.
Offer(list, c, opts) ==
    IF c.pair.ok /\ Reviewed(c.pair.score, opts)
    THEN InsertTopK(list, [target |-> c.target, score |-> c.pair.score,
                           status |-> Status(c.pair.score, opts)], opts.maxCandidates)
    ELSE list

BestOf(row, targets, target, opts) ==
    LET scored(j) == [target |-> j, pair |-> ScorePair(row, target[j], opts.fields)]
    IN  FoldLeft(LAMBDA list, c : Offer(list, c, opts), <<>>,
                 [k \in 1..Cardinality(targets) |-> scored(InOrder(targets)[k])])

Match(source, target, opts) ==
    LET index == BuildCandidateIndex(source, target, opts)
    IN  [ok |-> opts.fields # <<>> /\ index.ok,
         comparisons |-> index.comparisons,
         best |-> [si \in DOMAIN source |-> BestOf(source[si], index.sets[si], target, opts)]]

\* The first column whose name is the given one up to letter case.
CanonicalColumn(columns, name) ==
    LET named == {i \in DOMAIN columns : Lowered[columns[i]] = Lowered[name]}
    IN  IF named = {} THEN Noise ELSE columns[Min(named)]

\* Thresholds that are not given have a default.
WithDefaults(opts) ==
    [opts EXCEPT !.auto = IF Less(Zero, @) THEN @ ELSE Frac(9, 10),
                 !.review = IF Less(Zero, @) THEN @ ELSE Frac(6, 10)]

Place(list, c) == InsertTopK(list, c, Len(list) + 1)

PlaceAll(list, best) == FoldLeft(Place, list, best)

\* runMatch: refuses an unknown column and a table over the limit, and puts the best results first.
RunMatch(source, target, columns, opts, maxRows) ==
    LET match == Match(source, target, WithDefaults(opts))
    IN  [ok |-> /\ match.ok
                /\ \A i \in DOMAIN opts.fields : CanonicalColumn(columns, opts.fields[i].column) # Noise
                /\ Len(source) <= maxRows /\ Len(target) <= maxRows,
         results |-> FoldLeft(PlaceAll, <<>>, match.best)]

----------------------------------------------------------------------------
(* What makes it correct *)

\* The score of a pair without a loop: the weighted mean, over the fields that count, of
\* the weakest score of each field's group.
MeanOfWeakest(a, b, fields) ==
    LET score == Scored(a, b, fields)
        scored == DOMAIN score
        group(i) == IF fields[i].group = Ungrouped THEN {i}
                    ELSE {j \in scored : fields[j].group = fields[i].group}
        weakest(i) == score[CHOOSE j \in group(i) : \A k \in group(i) : ~Less(score[k], score[j])]
    IN  Times(FoldSet(LAMBDA i, x : Plus(x, Times(Frac(fields[i].weight, 1), weakest(i))), Zero, scored),
              Frac(1, FoldSet(LAMBDA i, n : n + fields[i].weight, 0, scored)))

\* The candidates kept for a row are its best ones, in order: none that was compared and
\* is good enough is left out for a worse one.
KeepsBest(best, row, targets, target, opts) ==
    \A score \in {[j \in targets |-> ScorePair(row, target[j], opts.fields)]} :
    LET good == {j \in targets : score[j].ok /\ Reviewed(score[j].score, opts)}
        kept == {best[i].target : i \in DOMAIN best}
    IN  /\ kept \subseteq good /\ Cardinality(kept) = Len(best)
        /\ Len(best) = Min({Cardinality(good), opts.maxCandidates})
        /\ \A i \in DOMAIN best : best[i].status = "auto" => ~Less(best[i].score, opts.auto)
        /\ \A i, j \in DOMAIN best : i < j => ~Less(best[i].score, best[j].score)
        /\ \A i \in DOMAIN best, j \in good \ kept : ~Less(best[i].score, score[j].score)

\* Blocking may drop a pair only if no field that it looks at has a word of three letters
\* in common: rows with the same name are always compared.
MissesNoNamesake(sets, source, target, fields) ==
    \A i \in DOMAIN source, j \in DOMAIN target :
        (\E f \in DOMAIN fields :
            /\ fields[f].method \in Blockable
            /\ CanonicalizeName(source[i][f]) = CanonicalizeName(target[j][f])
            /\ ToSet(CanonicalizeName(source[i][f])) \ Short # {})
        => j \in sets[i]

\* A similarity is between 0 and 1, is 1 for equal words only, and is the same both ways
\* (JaroWinkler, normalize.go 113-118).
SimilarityRight(a, b) ==
    LET s == JaroWinkler(a, b)
    IN  /\ ~Less(s, Zero) /\ ~Less(One, s)
        /\ Same(s, One) <=> a = b
        /\ Same(s, JaroWinkler(b, a))

\* A code is valid if its digits, weighted 1 and 3 in turn from the right, add up to a
\* multiple of ten, and then no wrong digit goes unnoticed (validateEAN, normalize.go 267-272).
EANRight(code) ==
    LET last == Len(code)
        sum == FoldLeft(LAMBDA n, i : n + code[i] * (1 + 2 * ((last - i) % 2)), 0,
                        [i \in 1..last |-> i])
    IN  /\ ValidateEAN(code) <=> (last \in {8, 13} /\ sum % 10 = 0)
        /\ ValidateEAN(code) =>
             \A i \in 1..last : \A d \in 0..9 \ {code[i]} : ~ValidateEAN([code EXCEPT ![i] = d])

\* No pair outside the limit is compared, no namesake is missed, and the best candidates
\* of each row are kept (match.go 127-129).
KeepsCandidates(source, target, opts) ==
    \A index \in {BuildCandidateIndex(source, target, opts)}, match \in {Match(source, target, opts)} :
        match.ok =>
          /\ match.comparisons <= opts.maxComparisons
          /\ MissesNoNamesake(index.sets, source, target, opts.fields)
          /\ \A i \in DOMAIN source :
                KeepsBest(match.best[i], source[i], index.sets[i], target, opts)

\* On finite numbers, a composite key is scored by its weakest member (match.go 68-76), and
\* swapping the tables swaps the pairs.
PairsRight(source, target, opts) ==
    Match(source, target, opts).ok =>
        \A i \in DOMAIN source, j \in DOMAIN target :
            \A pair \in {ScorePair(source[i], target[j], opts.fields)} :
                pair.ok =>
                    /\ Same(pair.score, MeanOfWeakest(source[i], target[j], opts.fields))
                    /\ Same(pair.score, ScorePair(target[j], source[i], opts.fields).score)

\* The report of a run has the candidates of all rows and no others, the best first, with the
\* default thresholds where none are given, and there is none without both columns of every
\* field (runMatch).
RunRight(source, target, columns, opts, maxRows) ==
    \A run \in {RunMatch(source, target, columns, opts, maxRows)},
       kept \in {Match(source, target, WithDefaults(opts)).best} :
    run.ok =>
        /\ \A f \in ToSet(opts.fields) : \E c \in ToSet(columns) : Lowered[c] = Lowered[f.column]
        /\ \A i, j \in DOMAIN run.results : i < j => ~Less(run.results[i].score, run.results[j].score)
        /\ \A i \in DOMAIN run.results : ~Less(run.results[i].score, WithDefaults(opts).review)
        /\ \A i \in DOMAIN kept : ToSet(kept[i]) \subseteq ToSet(run.results)
        /\ Len(run.results) = FoldLeft(LAMBDA n, best : n + Len(best), 0, kept)
=============================================================================
