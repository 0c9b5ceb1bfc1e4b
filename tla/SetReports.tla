----------------------------- MODULE SetReports -----------------------------
(***************************************************************************)
(* What is computed from finished runs of sets and from lists of sets: the *)
(* comparison of a run's items, the diff of two runs, and the tag filter   *)
(* of "set list" and "session list".  Nothing here changes a file.         *)
(*                                                                         *)
(* A run is given as its stages, each a sequence of item results           *)
(* [name, status, summary].  Rates are kept as fractions: every comparison *)
(* of two is one of products.                                              *)
(***************************************************************************)
EXTENDS Integers, Sequences

CONSTANTS Names, Tags

Summary == [total : Nat, errors : Nat, seconds : Nat, p50 : Nat, p95 : Nat, p99 : Nat]
ItemResult == [name : Names, status : {"completed", "failed", "cancelled"}, summary : Summary]
Run == Seq(Seq(ItemResult))

---------------------------------------------------------------------------
\* A fraction [n, d] with d > 0; errRate and rps are 0 when nothing was counted.
Fraction(n, d) == IF d = 0 THEN [n |-> 0, d |-> 1] ELSE [n |-> n, d |-> d]
ErrRate(s) == Fraction(s.errors, s.total)
RPS(s) == Fraction(s.total, s.seconds)
Less(x, y) == x.n * y.d < y.n * x.d
Whole(n) == [n |-> n, d |-> 1]

CompareMetrics == {"p50", "p95", "p99", "error_rate", "total_errors", "rps"}
Value(m, s) ==
    CASE m = "p50" -> Whole(s.p50)
      [] m = "p95" -> Whole(s.p95)
      [] m = "p99" -> Whole(s.p99)
      [] m = "error_rate" -> ErrRate(s)
      [] m = "total_errors" -> Whole(s.errors)
      [] m = "rps" -> RPS(s)

Better(m, s, t) ==
    IF m = "rps" THEN Less(Value(m, t), Value(m, s)) ELSE Less(Value(m, s), Value(m, t))

Eligible(items) == {i \in DOMAIN items : items[i].status = "completed"}

\* Compare's winner of metric m: of the completed items the first that no
\* other one beats.
IsWinner(items, m, i) ==
    /\ i \in Eligible(items)
    /\ \A j \in Eligible(items) :
          /\ ~Better(m, items[j].summary, items[i].summary)
          /\ j < i => Better(m, items[i].summary, items[j].summary)

---------------------------------------------------------------------------
\* flattenItems: by name, and of several of one name the last.
Places(run) == {x \in (DOMAIN run) \X Nat : x[2] \in DOMAIN run[x[1]]}
At(run, x) == run[x[1]][x[2]]
NamesOf(run) == {At(run, x).name : x \in Places(run)}
Last(run, name) ==
    CHOOSE x \in Places(run) :
        /\ At(run, x).name = name
        /\ \A y \in Places(run) : At(run, y).name = name =>
              y[1] < x[1] \/ (y[1] = x[1] /\ y[2] <= x[2])
Flat(run, name) == At(run, Last(run, name)).summary

\* More than 5 % of the first p95, which counts as no change when it is 0.
SlowerBy5(a, b) == a.p95 # 0 /\ 100 * (b.p95 - a.p95) > 5 * a.p95
FasterBy5(a, b) == a.p95 # 0 /\ 100 * (a.p95 - b.p95) > 5 * a.p95

\* More than half a percent of the requests.
MoreErrors(a, b) ==
    LET x == ErrRate(a) y == ErrRate(b)
    IN 1000 * (y.n * x.d - x.n * y.d) > 5 * (x.d * y.d)

Regression(a, b) == SlowerBy5(a, b) \/ MoreErrors(a, b)
Improvement(a, b) == FasterBy5(a, b) \/ MoreErrors(b, a)

\* Diff's verdict, from the items that both runs have, failed ones as well.
Common(a, b) == NamesOf(a) \cap NamesOf(b)
Diff(a, b) ==
    LET worse  == \E n \in Common(a, b) : Regression(Flat(a, n), Flat(b, n))
        better == \E n \in Common(a, b) : Improvement(Flat(a, n), Flat(b, n))
    IN IF worse /\ better THEN "mixed"
       ELSE IF worse THEN "regressed"
       ELSE IF better THEN "improved"
       ELSE "unchanged"

---------------------------------------------------------------------------
\* tagfilter: an expression is a conjunction of disjunctions of tags.
Matches(groups, tags) == \A ors \in groups : ors \cap tags # {}
MatchAll(matchers, tags) == \A m \in matchers : Matches(m, tags)

\* setList: the sets with an item whose session has the tags; a session that
\* cannot be read has none.
SetMatches(matchers, sessions, tagsOf) ==
    matchers = {} \/ \E s \in sessions : MatchAll(matchers, tagsOf[s])

\* resolveRunID: the run's directory name in exactly one set.
Resolve(runs, id) ==
    LET found == {x \in runs : x.dir = id}
    IN IF \E x \in found : found = {x} THEN [ok |-> TRUE, run |-> CHOOSE x \in found : TRUE]
       ELSE [ok |-> FALSE]

\* setDiff compares two runs of one set.
Diffable(runs, id1, id2) ==
    LET r1 == Resolve(runs, id1) r2 == Resolve(runs, id2)
    IN r1.ok /\ r2.ok /\ r1.run.set = r2.run.set
=============================================================================
