---------------------- MODULE SequenceStitcher_proofs ----------------------
(***************************************************************************)
(* Theorems about SequenceStitcher, for every corpus: any records, groups, *)
(* time stamps and shards, any gap, margin and bucket.                     *)
(*                                                                         *)
(* The argument: the records of a group that are in closed sequences come  *)
(* before all others, read or not, by more than the gap (Apart), so that   *)
(* cutting them on their own gives the runs the whole group would give     *)
(* (SplitRuns).  At the end, the code's loop is shown to cut where the     *)
(* definition does, by induction over the records in its order.            *)
(***************************************************************************)
EXTENDS SequenceStitcher, FiniteSetTheorems, SequenceTheorems, WellFoundedInduction, TLAPS

(***************************************************************************)
(* Arithmetic.                                                             *)
(***************************************************************************)
LEMMA DivApart ==
  ASSUME NEW a \in Int, NEW b \in Int, NEW B \in Nat \ {0}, b - a >= B
  PROVE  a \div B # b \div B
OBVIOUS

LEMMA TimesMonotone ==
  ASSUME NEW a \in Int, NEW b \in Int, NEW B \in Nat, a <= b
  PROVE  a * B <= b * B
OBVIOUS

Less == {p \in Nat \X Nat : p[1] < p[2]}

LEMMA LessIsWellFounded == IsWellFoundedOn(Less, Nat)
BY NatLessThanWellFounded DEF OpToRel, Less

LEMMA NotLess ==
  ASSUME NEW x \in Nat, NEW y \in Nat, ~(<<y, x>> \in Less)
  PROVE  x <= y
BY DEF Less

LEMMA LeastNatural ==
  ASSUME NEW T \in SUBSET Nat, T # {}
  PROVE  \E x \in T : \A y \in T : x <= y
<1>1. PICK x \in T : \A y \in T : ~(<<y, x>> \in Less)
  BY LessIsWellFounded, WFMin
<1>2. ASSUME NEW y \in T PROVE x <= y
  <2>1. x \in Nat /\ y \in Nat
    OBVIOUS
  <2>2. ~(<<y, x>> \in Less)
    BY <1>1
  <2> QED
    BY <2>1, <2>2, NotLess
<1> QED
  BY <1>2

LEMMA FeedType ==
  ASSUME feed \in Feeds, NEW r \in Records
  PROVE  /\ feed[r] \in Cells
         /\ At(r) \in Stamps /\ At(r) \in Int
         /\ feed[r].shard \in Shards /\ feed[r].shard \in Int
         /\ At(r) >= feed[r].shard * ShardLen - Margin
<1>1. feed[r] \in Cells
  BY DEF Feeds
<1> QED
  BY <1>1, StitcherAssumption DEF Cells, At, Stamps, Shards

(***************************************************************************)
(* A set of records has a first and a last.                                *)
(***************************************************************************)
LEMMA HasFirst ==
  ASSUME feed \in Feeds, NEW M \in SUBSET Records, M # {}
  PROVE  \E r \in M : \A s \in M : At(r) <= At(s)
<1> DEFINE T == {At(r) + Margin : r \in M}
<1>0. \A r \in M : At(r) + Margin \in Nat
  BY FeedType, StitcherAssumption DEF Stamps
<1>1. T \in SUBSET Nat /\ T # {}
  BY <1>0
<1>2. PICK n \in T : \A m \in T : n <= m
  <2> HIDE DEF T
  <2> QED
    BY <1>1, LeastNatural
<1>3. PICK r \in M : n = At(r) + Margin
  OBVIOUS
<1>4. \A s \in M : At(s) \in Int
  BY FeedType
<1>5. ASSUME NEW s \in M PROVE At(r) <= At(s)
  <2>1. At(s) + Margin \in T
    OBVIOUS
  <2>2. n <= At(s) + Margin
    BY <1>2, <2>1
  <2> HIDE DEF T
  <2> QED
    BY <1>3, <1>4, <2>2, StitcherAssumption
<1> QED
  BY <1>5

LEMMA HasLast ==
  ASSUME feed \in Feeds, NEW M \in SUBSET Records, M # {}
  PROVE  \E r \in M : \A s \in M : At(s) <= At(r)
<1> DEFINE T == {LatestTs - At(r) : r \in M}
<1>0. \A r \in M : LatestTs - At(r) \in Nat
  BY FeedType, StitcherAssumption DEF Stamps
<1>1. T \in SUBSET Nat /\ T # {}
  BY <1>0
<1>2. PICK n \in T : \A m \in T : n <= m
  <2> HIDE DEF T
  <2> QED
    BY <1>1, LeastNatural
<1>3. PICK r \in M : n = LatestTs - At(r)
  OBVIOUS
<1>4. \A s \in M : At(s) \in Int
  BY FeedType
<1>5. ASSUME NEW s \in M PROVE At(s) <= At(r)
  <2>1. LatestTs - At(s) \in T
    OBVIOUS
  <2>2. n <= LatestTs - At(s)
    BY <1>2, <2>1
  <2> HIDE DEF T
  <2> QED
    BY <1>3, <1>4, <2>2, StitcherAssumption
<1> QED
  BY <1>5

LEMMA FirstIs ==
  ASSUME feed \in Feeds, NEW M \in SUBSET Records, M # {}
  PROVE  /\ First(M) \in Stamps
         /\ \E r \in M : First(M) = At(r) /\ \A s \in M : At(r) <= At(s)
<1> DEFINE T == {At(r) : r \in M}
<1>1. \E t \in T : \A u \in T : t <= u
  BY HasFirst
<1>2. First(M) \in T /\ \A u \in T : First(M) <= u
  <2>1. First(M) = CHOOSE t \in T : \A u \in T : t <= u
    BY DEF First, Min
  <2> HIDE DEF T
  <2> QED
    BY <1>1, <2>1
<1> QED
  BY <1>2, FeedType

(***************************************************************************)
(* Runs.                                                                   *)
(***************************************************************************)
LEMMA RunsAreClasses ==
  ASSUME NEW M \in SUBSET Records, NEW x \in M, NEW y \in M,
         NEW R \in Runs(M), x \in R
  PROVE  /\ R \subseteq M
         /\ R = {w \in M : SameRun(M, x, w)}
         /\ y \in R <=> SameRun(M, x, y)
<1>1. PICK v \in M : R = {w \in M : SameRun(M, v, w)}
  BY DEF Runs
<1>2. SameRun(M, v, x)
  BY <1>1
<1>3. \A w \in M : SameRun(M, v, w) <=> SameRun(M, x, w)
  BY <1>2 DEF SameRun
<1> QED
  BY <1>1, <1>3

LEMMA RunsCover ==
  ASSUME NEW M \in SUBSET Records
  PROVE  /\ UNION Runs(M) = M
         /\ \A R \in Runs(M) : R # {} /\ R \subseteq M
         /\ \A x \in M : \E R \in Runs(M) : x \in R
<1>1. \A x \in M : SameRun(M, x, x)
  BY DEF SameRun
<1>2. \A R \in Runs(M) : R # {} /\ R \subseteq M
  BY <1>1 DEF Runs
<1>3. ASSUME NEW x \in M PROVE \E R \in Runs(M) : x \in R
  <2>1. {y \in M : SameRun(M, x, y)} \in Runs(M)
    BY DEF Runs
  <2>2. x \in {y \in M : SameRun(M, x, y)}
    BY <1>1
  <2> QED
    BY <2>1, <2>2
<1> QED
  BY <1>2, <1>3

LEMMA OneRunEach ==
  ASSUME NEW M \in SUBSET Records, NEW R \in Runs(M), NEW S \in Runs(M),
         NEW x \in R, x \in S
  PROVE  R = S
<1>1. x \in M
  BY RunsCover
<1> QED
  BY <1>1, RunsAreClasses

\* When the records of S all come before those of T, by more than the gap, the
\* runs of both are those of each.
LEMMA SplitEnds ==
  ASSUME feed \in Feeds, NEW S \in SUBSET Records, NEW T \in SUBSET Records,
         \A s \in S, t \in T : At(t) > At(s) + Gap
  PROVE  Ends(S \cup T) = Ends(S) \cup Ends(T)
<1> USE StitcherAssumption
<1>1. \A r \in S \cup T : At(r) \in Int
  BY FeedType
<1>2. ASSUME NEW z \in T PROVE z \in Ends(S \cup T) <=> z \in Ends(T)
  BY <1>1, <1>2 DEF Ends
<1>3. ASSUME NEW z \in S PROVE z \in Ends(S \cup T) <=> z \in Ends(S)
  BY <1>1, <1>3 DEF Ends
<1>4. /\ Ends(S \cup T) \subseteq S \cup T
      /\ Ends(S) \subseteq S /\ Ends(T) \subseteq T
      /\ S \cap T = {}
  BY <1>1 DEF Ends
<1> QED
  BY <1>2, <1>3, <1>4

LEMMA LastIsAnEnd ==
  ASSUME feed \in Feeds, NEW M \in SUBSET Records, NEW x \in M
  PROVE  \E z \in Ends(M) : At(x) <= At(z)
<1>1. PICK z \in M : \A s \in M : At(s) <= At(z)
  BY HasLast
<1>2. z \in Ends(M)
  BY <1>1, FeedType DEF Ends
<1> QED
  BY <1>1, <1>2

LEMMA SplitRuns ==
  ASSUME feed \in Feeds, NEW S \in SUBSET Records, NEW T \in SUBSET Records,
         \A s \in S, t \in T : At(t) > At(s) + Gap
  PROVE  Runs(S \cup T) = Runs(S) \cup Runs(T)
<1> USE StitcherAssumption
<1> DEFINE M == S \cup T
<1>1. \A r \in M : At(r) \in Int
  BY FeedType
<1>2. Ends(M) = Ends(S) \cup Ends(T)
  BY SplitEnds
<1>3. Ends(S) \subseteq S /\ Ends(T) \subseteq T
  BY DEF Ends
<1>4. ASSUME NEW x \in S, NEW y \in S PROVE SameRun(M, x, y) <=> SameRun(S, x, y)
  <2>1. \A z \in Ends(T) : At(x) <= At(z) /\ At(y) <= At(z)
    BY <1>1, <1>3
  <2> QED
    BY <1>2, <2>1 DEF SameRun
<1>5. ASSUME NEW x \in T, NEW y \in T PROVE SameRun(M, x, y) <=> SameRun(T, x, y)
  <2>1. \A z \in Ends(S) : ~(At(x) <= At(z)) /\ ~(At(y) <= At(z))
    BY <1>1, <1>3
  <2> QED
    BY <1>2, <2>1 DEF SameRun
<1>6. ASSUME NEW x \in S, NEW y \in T PROVE ~SameRun(M, x, y) /\ ~SameRun(M, y, x)
  <2>1. PICK z \in Ends(S) : At(x) <= At(z)
    BY LastIsAnEnd
  <2>2. ~(At(y) <= At(z))
    BY <1>1, <1>3
  <2> QED
    BY <1>2, <2>1, <2>2 DEF SameRun
<1>7. \A x \in S : {y \in M : SameRun(M, x, y)} = {y \in S : SameRun(S, x, y)}
  BY <1>4, <1>6
<1>8. \A x \in T : {y \in M : SameRun(M, x, y)} = {y \in T : SameRun(T, x, y)}
  BY <1>5, <1>6
<1> QED
  BY <1>7, <1>8 DEF Runs

(***************************************************************************)
(* What closing some runs of a group leaves.                               *)
(***************************************************************************)
UpTo(M, R) == {m \in M : \E r \in R : At(m) <= At(r)}
Quieted(M, quiet) == {R \in Runs(M) : UpTo(M, R) \subseteq quiet}

LEMMA DifferentRunsApart ==
  ASSUME feed \in Feeds, NEW M \in SUBSET Records, NEW R \in Runs(M), NEW S \in Runs(M),
         R # S, NEW r \in R, NEW s \in S
  PROVE  \E z \in Ends(M) : \/ At(r) <= At(z) /\ At(z) < At(s) /\ At(s) - At(r) > Gap
                            \/ At(s) <= At(z) /\ At(z) < At(r) /\ At(r) - At(s) > Gap
<1> USE StitcherAssumption
<1>1. r \in M /\ s \in M
  BY RunsCover
<1>2. \A x \in M : At(x) \in Int
  BY FeedType
<1>3. ~SameRun(M, r, s)
  <2>1. SUFFICES ASSUME SameRun(M, r, s) PROVE FALSE
    OBVIOUS
  <2>2. s \in R
    BY <1>1, <2>1, RunsAreClasses
  <2> QED
    BY <2>2, OneRunEach
<1>4. PICK z \in Ends(M) : ~(At(r) <= At(z) <=> At(s) <= At(z))
  BY <1>3 DEF SameRun
<1>5. /\ z \in M
      /\ \A y \in M : At(y) > At(z) => At(y) - At(z) > Gap
  BY DEF Ends
<1> QED
  BY <1>1, <1>2, <1>4, <1>5

LEMMA CloseSome ==
  ASSUME feed \in Feeds, NEW M \in SUBSET Records, NEW quiet
  PROVE  LET C == UNION Quieted(M, quiet)
         IN /\ C \subseteq M /\ C \subseteq quiet
            /\ \A c \in C, m \in M \ C : At(m) > At(c) + Gap
            /\ Runs(C) = Quieted(M, quiet)
            /\ Runs(M \ C) \subseteq Runs(M) \ Quieted(M, quiet)
<1> USE StitcherAssumption
<1> DEFINE Q == Quieted(M, quiet)
           C == UNION Q
<1>1. Q \subseteq Runs(M)
  BY DEF Quieted
<1>2. C \subseteq M
  BY <1>1, RunsCover
<1>3. C \subseteq quiet
  <2>1. ASSUME NEW R \in Q, NEW r \in R PROVE r \in quiet
    <3>1. R \in Runs(M) /\ UpTo(M, R) \subseteq quiet
      BY DEF Quieted
    <3>2. r \in M
      BY <3>1, RunsCover
    <3>3. r \in UpTo(M, R)
      BY <3>2, FeedType DEF UpTo
    <3> QED
      BY <3>1, <3>3
  <2> QED
    BY <2>1
<1>4. ASSUME NEW c \in C, NEW m \in M \ C PROVE At(m) > At(c) + Gap
  <2>1. PICK R \in Q : c \in R
    OBVIOUS
  <2>2. PICK S \in Runs(M) : m \in S
    BY RunsCover
  <2>3. S \notin Q
    BY <2>2
  <2>4. PICK z \in Ends(M) : \/ At(c) <= At(z) /\ At(z) < At(m) /\ At(m) - At(c) > Gap
                             \/ At(m) <= At(z) /\ At(z) < At(c) /\ At(c) - At(m) > Gap
    BY <1>1, <2>1, <2>2, <2>3, DifferentRunsApart
  <2>5. At(c) \in Int /\ At(m) \in Int /\ c \in M
    BY <1>2, FeedType
  <2>6. CASE At(m) <= At(z) /\ At(z) < At(c)
    <3>1. ASSUME NEW w \in UpTo(M, S) PROVE w \in UpTo(M, R)
      <4>1. PICK s \in S : At(w) <= At(s)
        BY DEF UpTo
      <4>2. s \in M /\ SameRun(M, m, s)
        BY <2>2, RunsCover, RunsAreClasses
      <4>3. At(s) <= At(z)
        BY <2>6, <4>2 DEF SameRun
      <4>4. /\ w \in M /\ At(w) \in Int /\ At(s) \in Int /\ At(z) \in Int
        BY <4>2, FeedType DEF UpTo, Ends
      <4>5. At(w) <= At(c)
        BY <2>5, <2>6, <4>1, <4>3, <4>4
      <4> QED
        BY <2>1, <4>4, <4>5 DEF UpTo
    <3>2. UpTo(M, R) \subseteq quiet
      BY <2>1 DEF Quieted
    <3>3. S \in Q
      BY <2>2, <3>1, <3>2 DEF Quieted
    <3> QED
      BY <2>3, <3>3
  <2> QED
    BY <2>4, <2>5, <2>6
<1>5. Runs(M) = Runs(C) \cup Runs(M \ C)
  <2>1. C \cup (M \ C) = M
    BY <1>2
  <2>2. Runs(C \cup (M \ C)) = Runs(C) \cup Runs(M \ C)
    <3> HIDE DEF C
    <3> QED
      BY <1>2, <1>4, SplitRuns
  <2> QED
    BY <2>1, <2>2
<1>6. Runs(C) \subseteq Q
  <2>1. SUFFICES ASSUME NEW R \in Runs(C) PROVE R \in Q
    OBVIOUS
  <2>2. R # {} /\ R \subseteq C
    BY <1>2, RunsCover
  <2>3. PICK x \in R : x \in C
    BY <2>2
  <2>4. PICK S \in Q : x \in S
    BY <2>3
  <2>5. R = S
    BY <1>1, <1>5, <2>4, OneRunEach
  <2> QED
    BY <2>4, <2>5
<1>7. ASSUME NEW R \in Runs(M \ C) PROVE R \notin Q
  <2>1. R # {} /\ R \subseteq M \ C
    BY RunsCover
  <2> QED
    BY <2>1
<1>8. Q \subseteq Runs(C)
  BY <1>1, <1>5, <1>7
<1> QED
  BY <1>2, <1>3, <1>4, <1>5, <1>6, <1>7, <1>8

\* One group, one step: what was closed (O), what is at hand (M), and records
\* still to be read, which come too late for what is quiet.
LEMMA CloseMore ==
  ASSUME feed \in Feeds, NEW G \in SUBSET Records, NEW O \in SUBSET G, NEW M \in SUBSET G,
         NEW quiet,
         \A c \in O, m \in G \ O : At(m) > At(c) + Gap,
         \A c \in M \cap quiet, m \in G \ (O \cup M) : At(m) > At(c) + Gap,
         O \cap M = {}
  PROVE  LET C == UNION Quieted(M, quiet)
         IN /\ Runs(O \cup C) = Runs(O) \cup Quieted(M, quiet)
            /\ \A c \in O \cup C, m \in G \ (O \cup C) : At(m) > At(c) + Gap
<1> DEFINE C == UNION Quieted(M, quiet)
<1>1. /\ C \subseteq M /\ C \subseteq quiet
      /\ \A c \in C, m \in M \ C : At(m) > At(c) + Gap
      /\ Runs(C) = Quieted(M, quiet)
  BY CloseSome
<1>2. \A c \in O, m \in C : At(m) > At(c) + Gap
  BY <1>1
<1> HIDE DEF C
<1>3. Runs(O \cup C) = Runs(O) \cup Runs(C)
  BY <1>1, <1>2, SplitRuns
<1>4. \A c \in O \cup C, m \in G \ (O \cup C) : At(m) > At(c) + Gap
  BY <1>1
<1> QED
  BY <1>1, <1>3, <1>4 DEF C

(***************************************************************************)
(* The inductive invariant.                                                *)
(***************************************************************************)
\* The records of group g in closed sequences, and the runs they form.
Seen(g) == {r \in Of(g) : feed[r].shard \in read}
Out(g) == Seen(g) \ open[g]
RunsOut(g) == IF g \in SessionGroups THEN {Out(g)} \ {{}} ELSE Runs(Out(g))

FeedInv ==
  /\ feed \in Feeds
  /\ present \subseteq Shards /\ read \subseteq present
  /\ \A r \in Records : feed[r].shard \in present
OrderInv == \A j \in read, k \in present \ read : j < k
OpenInv ==
  /\ open \in [Groups -> SUBSET Records]
  /\ \A g \in Groups : open[g] \subseteq Seen(g)
  /\ \A g \in SessionGroups : open[g] = {}
ApartInv ==
  \A g \in Groups \ SessionGroups : \A c \in Out(g), m \in Of(g) \ Out(g) : At(m) > At(c) + Gap
ClosedInv == closed = UNION {{Sequence(g, R) : R \in RunsOut(g)} : g \in Groups}
DoneInv == done => read = present /\ \A g \in Groups : Out(g) = Of(g)

StitchInv == FeedInv /\ OrderInv /\ OpenInv /\ ApartInv /\ ClosedInv /\ DoneInv /\ done \in BOOLEAN

LEMMA StitchInit == Init => StitchInv
<1> SUFFICES ASSUME Init PROVE StitchInv
  OBVIOUS
<1>1. FeedInv /\ OrderInv
  BY DEF Init, FeedInv, OrderInv
<1>2. \A g \in Groups : Seen(g) = {} /\ open[g] = {} /\ Out(g) = {}
  BY DEF Init, Seen, Out
<1>3. OpenInv
  BY <1>2, StitcherAssumption DEF Init, OpenInv
<1>4. ApartInv
  BY <1>2 DEF ApartInv
<1>5. \A g \in Groups : RunsOut(g) = {}
  BY <1>2 DEF RunsOut, Runs
<1>6. ClosedInv
  <2>1. UNION {{Sequence(g, R) : R \in RunsOut(g)} : g \in Groups} = {}
    BY <1>5
  <2> QED
    BY <2>1 DEF Init, ClosedInv
<1>7. DoneInv /\ done \in BOOLEAN
  BY DEF Init, DoneInv
<1> QED
  BY <1>1, <1>3, <1>4, <1>6, <1>7 DEF StitchInv

\* What one call of the stitcher does to a group: the records at hand, the
\* runs it closes, and what is then in closed sequences.
AtHand(g, fresh) == open[g] \cup (Of(g) \cap fresh)
Shut(g, fresh, quiet) == Closing(g, AtHand(g, fresh), quiet)
OutThen(g, fresh, quiet) == Out(g) \cup UNION Shut(g, fresh, quiet)

Stitchable(g, fresh, quiet) ==
  /\ fresh \cap Seen(g) = {}
  /\ g \in SessionGroups => Of(g) \cap fresh = {} \/ (Of(g) \subseteq fresh /\ Seen(g) = {})
  /\ \A c \in quiet \cap AtHand(g, fresh), m \in Of(g) \ (Seen(g) \cup fresh) :
       At(m) > At(c) + Gap

LEMMA StitchOne ==
  ASSUME StitchInv, NEW g \in Groups, NEW fresh \in SUBSET Records, NEW quiet,
         Stitchable(g, fresh, quiet)
  PROVE  LET M == AtHand(g, fresh)
             C == Shut(g, fresh, quiet)
             O == OutThen(g, fresh, quiet)
         IN /\ M \subseteq Of(g) /\ UNION C \subseteq M
            /\ O = (Seen(g) \cup (Of(g) \cap fresh)) \ (M \ UNION C)
            /\ (IF g \in SessionGroups THEN {O} \ {{}} ELSE Runs(O)) = RunsOut(g) \cup C
            /\ g \notin SessionGroups =>
                 \A c \in O, m \in Of(g) \ O : At(m) > At(c) + Gap
            /\ g \in SessionGroups => M \ UNION C = {}
<1> DEFINE M == AtHand(g, fresh)
           C == Shut(g, fresh, quiet)
           O == OutThen(g, fresh, quiet)
<1>1. feed \in Feeds /\ open[g] \subseteq Seen(g) /\ Seen(g) \subseteq Of(g) /\ Of(g) \subseteq Records
  BY DEF StitchInv, FeedInv, OpenInv, Seen, Of
<1>2. M \in SUBSET Of(g) /\ M \in SUBSET Records
  BY <1>1 DEF AtHand
<1>a. O = Out(g) \cup UNION C
  BY DEF OutThen
<1>3. CASE g \in SessionGroups
  <2>1. C = {M} \ {{}} /\ UNION C = M /\ open[g] = {}
    BY <1>3 DEF Closing, Shut, StitchInv, OpenInv
  <2>2. Out(g) = Seen(g)
    BY <2>1 DEF Out
  <2>3. Of(g) \cap fresh = {} \/ (Of(g) \cap fresh = Of(g) /\ Seen(g) = {})
    BY <1>3 DEF Stitchable
  <2>4. ({O} \ {{}}) = (({Out(g)} \ {{}}) \cup C)
    <3>1. CASE M = {}
      BY <1>a, <2>1, <3>1
    <3>2. CASE M # {}
      <4>1. Out(g) = {}
        BY <2>1, <2>2, <2>3, <3>2 DEF AtHand
      <4> QED
        BY <1>a, <2>1, <4>1
    <3> QED
      BY <3>1, <3>2
  <2>5. O = (Seen(g) \cup (Of(g) \cap fresh)) \ (M \ UNION C)
    BY <1>a, <2>1, <2>2 DEF AtHand
  <2> QED
    BY <1>2, <1>3, <2>1, <2>4, <2>5 DEF RunsOut
<1>4. CASE g \notin SessionGroups
  <2>1. C = Quieted(M, quiet)
    BY <1>4 DEF Shut, Closing, Quieted, UpTo
  <2>2. UNION C \subseteq M
    BY <1>1, <1>2, <2>1, CloseSome
  <2>3. O = (Seen(g) \cup (Of(g) \cap fresh)) \ (M \ UNION C)
    BY <1>a, <1>1, <2>2 DEF Out, AtHand, Stitchable
  <2>4. \A c \in Out(g), m \in Of(g) \ Out(g) : At(m) > At(c) + Gap
    BY <1>4 DEF StitchInv, ApartInv
  <2>5. \A c \in M \cap quiet, m \in Of(g) \ (Out(g) \cup M) : At(m) > At(c) + Gap
    BY <1>1 DEF Out, Stitchable, AtHand
  <2>6. Out(g) \in SUBSET Of(g) /\ Out(g) \cap M = {}
    BY <1>1 DEF Out, Stitchable, AtHand
  <2> DEFINE G == Of(g)
             Q == Out(g)
  <2> HIDE DEF M, G, Q
  <2>7. /\ Runs(Out(g) \cup UNION Quieted(M, quiet)) = Runs(Out(g)) \cup Quieted(M, quiet)
        /\ \A c \in Out(g) \cup UNION Quieted(M, quiet),
              m \in Of(g) \ (Out(g) \cup UNION Quieted(M, quiet)) : At(m) > At(c) + Gap
    <3>1. G \in SUBSET Records /\ M \in SUBSET G /\ Q \in SUBSET G /\ Q \cap M = {}
      BY <1>1, <1>2, <2>6 DEF G, Q
    <3>2. \A c \in Q, m \in G \ Q : At(m) > At(c) + Gap
      BY <2>4 DEF G, Q
    <3>3. \A c \in M \cap quiet, m \in G \ (Q \cup M) : At(m) > At(c) + Gap
      BY <2>5 DEF G, Q
    <3>4. /\ Runs(Q \cup UNION Quieted(M, quiet)) = Runs(Q) \cup Quieted(M, quiet)
          /\ \A c \in Q \cup UNION Quieted(M, quiet),
                m \in G \ (Q \cup UNION Quieted(M, quiet)) : At(m) > At(c) + Gap
      BY <1>1, <3>1, <3>2, <3>3, CloseMore
    <3> QED
      BY <3>4 DEF G, Q
  <2>8. Runs(O) = Runs(Out(g)) \cup C /\ \A c \in O, m \in Of(g) \ O : At(m) > At(c) + Gap
    BY <1>a, <2>1, <2>7
  <2>9. RunsOut(g) = Runs(Out(g))
    BY <1>4 DEF RunsOut
  <2> QED
    BY <1>2, <1>4, <2>2, <2>3, <2>8, <2>9 DEF M
<1> QED
  BY <1>3, <1>4

\* From one group to all.
LEMMA StitchStep ==
  ASSUME StitchInv, NEW fresh \in SUBSET Records, NEW quiet,
         UNCHANGED <<feed, present>>, Stitch(fresh, quiet),
         read' \subseteq present,
         \A g \in Groups : Seen(g)' = Seen(g) \cup (Of(g) \cap fresh),
         \A g \in Groups : Stitchable(g, fresh, quiet)
  PROVE  FeedInv' /\ OpenInv' /\ ApartInv' /\ ClosedInv'
<1> DEFINE M(g) == AtHand(g, fresh)
           C(g) == Shut(g, fresh, quiet)
           O(g) == OutThen(g, fresh, quiet)
<1>1. \A g \in Groups :
        /\ M(g) \subseteq Of(g) /\ UNION C(g) \subseteq M(g)
        /\ O(g) = (Seen(g) \cup (Of(g) \cap fresh)) \ (M(g) \ UNION C(g))
        /\ (IF g \in SessionGroups THEN {O(g)} \ {{}} ELSE Runs(O(g))) = RunsOut(g) \cup C(g)
        /\ g \notin SessionGroups =>
             \A c \in O(g), m \in Of(g) \ O(g) : At(m) > At(c) + Gap
        /\ g \in SessionGroups => M(g) \ UNION C(g) = {}
  BY StitchOne
<1>2. /\ closed' = closed \cup UNION {{Sequence(g, R) : R \in C(g)} : g \in Groups}
      /\ open' = [g \in Groups |-> M(g) \ UNION C(g)]
  BY DEF Stitch, AtHand, Shut
<1>3. \A r \in Records : At(r)' = At(r)
  BY DEF At
<1>4. \A g \in Groups : Of(g)' = Of(g) /\ Of(g) \subseteq Records
  BY DEF Of
<1>5. \A g \in Groups : Out(g)' = O(g)
  BY <1>1, <1>2 DEF Out
<1>6. FeedInv'
  BY DEF StitchInv, FeedInv
<1> HIDE DEF M, C, O
<1>b. \A g \in Groups : Seen(g) \subseteq Of(g)
  BY DEF Seen
<1>7. OpenInv'
  <2>1. \A g \in Groups : open'[g] = M(g) \ UNION C(g)
    BY <1>2
  <2>2. \A g \in Groups : M(g) \subseteq Seen(g)'
    BY DEF M, AtHand, StitchInv, OpenInv
  <2>3. open' \in [Groups -> SUBSET Records]
    BY <1>1, <1>2, <1>4
  <2>4. \A g \in SessionGroups : open'[g] = {}
    BY <1>1, <2>1, StitcherAssumption
  <2> QED
    BY <2>1, <2>2, <2>3, <2>4 DEF OpenInv
<1>8. ApartInv'
  <2>1. \A g \in Groups \ SessionGroups :
          \A c \in O(g), m \in Of(g) \ O(g) : At(m)' > At(c)' + Gap
    <3>1. \A g \in Groups : O(g) \subseteq Records
      BY <1>1, <1>4, <1>b
    <3> QED
      BY <1>1, <1>3, <1>4, <3>1
  <2> QED
    BY <1>4, <1>5, <2>1 DEF ApartInv
<1>9. ClosedInv'
  <2>1. \A X \in SUBSET Records : Runs(X)' = Runs(X)
    BY <1>3 DEF Runs, SameRun, Ends
  <2>2. \A g \in Groups : RunsOut(g)' = RunsOut(g) \cup C(g)
    <3>1. \A g \in Groups : O(g) \in SUBSET Records
      BY <1>1, <1>4, <1>b
    <3>2. \A g \in Groups : Runs(Out(g)') = Runs(O(g))
      BY <1>5
    <3>3. \A g \in Groups : Runs(Out(g))' = Runs(O(g))
      BY <1>3, <1>5, <3>1 DEF Runs, SameRun, Ends
    <3> QED
      BY <1>1, <1>5, <3>3 DEF RunsOut
  <2>3. \A g \in Groups, R \in SUBSET Records : Sequence(g, R)' = Sequence(g, R)
    BY <1>3 DEF Sequence, Id, First
  <2>4. \A g \in Groups : RunsOut(g) \cup C(g) \subseteq SUBSET Records
    <3>1. \A g \in Groups : Out(g) \in SUBSET Records
      BY <1>4 DEF Out, Seen
    <3>2. \A g \in Groups : RunsOut(g) \subseteq SUBSET Records
      BY <3>1, RunsCover DEF RunsOut
    <3> QED
      BY <1>1, <1>4, <3>2
  <2>5. closed = UNION {{Sequence(g, R) : R \in RunsOut(g)} : g \in Groups}
    BY DEF StitchInv, ClosedInv
  <2>6. closed' = UNION {{Sequence(g, R) : R \in RunsOut(g) \cup C(g)} : g \in Groups}
    BY <1>2, <2>5
  <2>7. closed' = UNION {{Sequence(g, R)' : R \in RunsOut(g)'} : g \in Groups}
    BY <2>2, <2>3, <2>4, <2>6
  <2> QED
    BY <2>7 DEF ClosedInv
<1> QED
  BY <1>6, <1>7, <1>8, <1>9

(***************************************************************************)
(* The actions.                                                            *)
(***************************************************************************)
LEMMA AddShardStitchable ==
  ASSUME StitchInv, NEW k \in present \ read, \A j \in present \ read : k <= j,
         NEW g \in Groups
  PROVE  Stitchable(g, In(k), Quiet(k))
<1> USE StitcherAssumption
<1>0. FeedInv /\ k \in Int
  BY DEF StitchInv, FeedInv, Shards
<1>1. In(k) \cap Seen(g) = {}
  BY DEF In, Seen
<1>2. g \in SessionGroups => Of(g) \cap In(k) = {} \/ (Of(g) \subseteq In(k) /\ Seen(g) = {})
  <2>1. \A r, s \in Of(g) : g \in SessionGroups => feed[r].shard = feed[s].shard
    BY <1>0 DEF FeedInv, Feeds, Of
  <2> QED
    BY <2>1 DEF In, Seen, Of
<1>3. ASSUME NEW c \in Quiet(k), NEW m \in Of(g) \ (Seen(g) \cup In(k))
      PROVE  At(m) > At(c) + Gap
  <2> DEFINE j == feed[m].shard
  <2>1. m \in Records /\ c \in Records
    BY DEF Of, Quiet
  <2>2. j \in present \ read /\ j # k
    BY <1>0, <2>1 DEF FeedInv, Seen, In
  <2>3. At(c) \in Int /\ At(m) \in Int /\ j \in Int /\ At(m) >= j * ShardLen - Margin
    BY <1>0, <2>1, FeedType DEF FeedInv
  <2> HIDE DEF j
  <2>4. k + 1 <= j
    BY <1>0, <2>2, <2>3
  <2>5. (k + 1) * ShardLen <= j * ShardLen
    BY <1>0, <2>3, <2>4, TimesMonotone
  <2>6. At(c) + Gap < (k + 1) * ShardLen - Margin
    BY DEF Quiet
  <2>7. (k + 1) * ShardLen \in Int /\ j * ShardLen \in Int
    BY <1>0, <2>3
  <2> QED
    BY <2>3, <2>5, <2>6, <2>7
<1> QED
  BY <1>1, <1>2, <1>3 DEF Stitchable

LEMMA AddShardKeeps ==
  ASSUME StitchInv, NEW k \in Shards, AddShard(k)
  PROVE  StitchInv'
<1>1. /\ k \in present \ read /\ \A j \in present \ read : k <= j
      /\ read' = read \cup {k} /\ Stitch(In(k), Quiet(k))
      /\ UNCHANGED <<feed, present>> /\ done' = done
  BY DEF AddShard
<1>2. \A g \in Groups : Stitchable(g, In(k), Quiet(k))
  BY <1>1, AddShardStitchable
<1>3. \A g \in Groups : Seen(g)' = Seen(g) \cup (Of(g) \cap In(k))
  BY <1>1 DEF Seen, Of, In
<1>4. In(k) \in SUBSET Records /\ read' \subseteq present
  BY <1>1 DEF In, StitchInv, FeedInv
<1>5. FeedInv' /\ OpenInv' /\ ApartInv' /\ ClosedInv'
  BY <1>1, <1>2, <1>3, <1>4, StitchStep
<1>6. OrderInv'
  <2>1. present \subseteq Int
    BY DEF StitchInv, FeedInv, Shards
  <2> QED
    BY <1>1, <2>1 DEF StitchInv, OrderInv
<1>7. DoneInv' /\ done' \in BOOLEAN
  BY <1>1 DEF StitchInv, DoneInv
<1> QED
  BY <1>5, <1>6, <1>7 DEF StitchInv

LEMMA ClosingAll ==
  ASSUME NEW g, NEW M \in SUBSET Records
  PROVE  /\ Closing(g, M, Records) = IF g \in SessionGroups THEN {M} \ {{}} ELSE Runs(M)
         /\ UNION Closing(g, M, Records) = M
<1>1. g \notin SessionGroups => Closing(g, M, Records) = Runs(M)
  BY DEF Closing
<1>2. g \in SessionGroups => Closing(g, M, Records) = {M} \ {{}}
  BY DEF Closing
<1> QED
  BY <1>1, <1>2, RunsCover

LEMMA CloseAllKeeps ==
  ASSUME StitchInv, CloseAll
  PROVE  StitchInv'
<1>1. /\ read = present /\ done' = TRUE /\ Stitch({}, Records)
      /\ UNCHANGED <<feed, present>> /\ read' = read
  BY DEF CloseAll
<1>2. \A g \in Groups : Seen(g) = Of(g)
  BY <1>1 DEF Seen, Of, StitchInv, FeedInv
<1>3. \A g \in Groups : Seen(g)' = Of(g) /\ Of(g)' = Of(g)
  BY <1>1, <1>2 DEF Seen, Of
<1>4. \A g \in Groups : Stitchable(g, {}, Records)
  BY <1>2 DEF Stitchable
<1>5. \A g \in Groups : Seen(g)' = Seen(g) \cup (Of(g) \cap {})
  BY <1>2, <1>3
<1>6. read' \subseteq present
  BY <1>1
<1>7. FeedInv' /\ OpenInv' /\ ApartInv' /\ ClosedInv'
  BY <1>1, <1>4, <1>5, <1>6, StitchStep
<1>8. OrderInv'
  BY <1>1 DEF OrderInv
<1>9. ASSUME NEW g \in Groups PROVE open'[g] = {}
  <2> DEFINE M == AtHand(g, {})
  <2>1. open'[g] = M \ UNION Closing(g, M, Records)
    BY <1>1 DEF Stitch, AtHand
  <2>2. M \in SUBSET Records
    BY DEF AtHand, StitchInv, OpenInv
  <2> HIDE DEF M
  <2> QED
    BY <2>1, <2>2, ClosingAll
<1>10. DoneInv' /\ done' \in BOOLEAN
  BY <1>1, <1>3, <1>9 DEF DoneInv, Out
<1> QED
  BY <1>7, <1>8, <1>10 DEF StitchInv

\* The invariant holds in every reachable state.
THEOREM StitchInvariant == Spec => []StitchInv
<1>1. ASSUME StitchInv, UNCHANGED vars PROVE StitchInv'
  <2>1. feed' = feed /\ present' = present /\ read' = read /\ open' = open
        /\ closed' = closed /\ done' = done
    BY <1>1 DEF vars
  <2> QED
    BY <1>1, <2>1 DEF StitchInv, FeedInv, OrderInv, OpenInv, ApartInv, ClosedInv, DoneInv,
         Out, Seen, RunsOut, Of, At, Runs, SameRun, Ends, Sequence, Id, First
<1>2. StitchInv /\ [Next]_vars => StitchInv'
  BY <1>1, AddShardKeeps, CloseAllKeeps DEF Next
<1> QED
  BY <1>2, StitchInit, PTL DEF Spec

(***************************************************************************)
(* The theorems.                                                           *)
(***************************************************************************)
\* However a corpus is sharded, the sequences in the end are those of one shard.
THEOREM ShardingTheorem == Spec => []ShardingIndependent
<1>1. ASSUME StitchInv, done PROVE closed = OneShard
  <2>1. ASSUME NEW g \in Groups PROVE RunsOut(g) = Whole(g)
    <3>1. Out(g) = Of(g) /\ Of(g) \in SUBSET Records
      BY <1>1 DEF StitchInv, DoneInv, Of
    <3> QED
      BY <3>1, ClosingAll DEF RunsOut, Whole
  <2>2. closed = UNION {{Sequence(g, R) : R \in RunsOut(g)} : g \in Groups}
    BY <1>1 DEF StitchInv, ClosedInv
  <2> QED
    BY <2>1, <2>2 DEF OneShard
<1>2. StitchInv => ShardingIndependent
  BY <1>1 DEF ShardingIndependent
<1> QED
  BY <1>2, StitchInvariant, PTL

LEMMA RunsOutAre ==
  ASSUME StitchInv, NEW g \in Groups, NEW R \in RunsOut(g)
  PROVE  R \in (SUBSET Records) \ {{}}
<1>1. Out(g) \in SUBSET Records
  BY DEF Out, Seen, Of
<1>2. CASE g \in SessionGroups
  BY <1>1, <1>2 DEF RunsOut
<1>3. CASE g \notin SessionGroups
  <2>1. R \in Runs(Out(g))
    BY <1>3 DEF RunsOut
  <2> QED
    BY <1>1, <2>1, RunsCover
<1> QED
  BY <1>2, <1>3

\* A stitcher's variables keep their types; no sequence is empty.
THEOREM StitcherTypeCorrect == Spec => []TypeOK
<1>1. ASSUME StitchInv PROVE TypeOK
  <2>1. closed = UNION {{Sequence(g, R) : R \in RunsOut(g)} : g \in Groups}
    BY <1>1 DEF StitchInv, ClosedInv
  <2>2. ASSUME NEW s \in closed
        PROVE  \E g \in Groups, R \in (SUBSET Records) \ {{}} : s = Sequence(g, R)
    <3>1. PICK g \in Groups : \E R \in RunsOut(g) : s = Sequence(g, R)
      BY <2>1
    <3> QED
      BY <1>1, <3>1, RunsOutAre
  <2> QED
    BY <1>1, <2>2 DEF TypeOK, StitchInv, FeedInv, OpenInv
<1> QED
  BY <1>1, StitchInvariant, PTL

\* Sequences with the same id are the same.
THEOREM IdsTheorem == Spec => []DistinctIds
<1> USE StitcherAssumption
<1>1. ASSUME StitchInv, NEW s \in closed, NEW t \in closed, s.id = t.id PROVE s = t
  <2>0. closed = UNION {{Sequence(g, R) : R \in RunsOut(g)} : g \in Groups}
    BY <1>1 DEF StitchInv, ClosedInv
  <2>1. PICK g \in Groups : \E R \in RunsOut(g) : s = Sequence(g, R)
    BY <2>0
  <2>2. PICK R \in RunsOut(g) : s = Sequence(g, R)
    BY <2>1
  <2>3. PICK h \in Groups : \E S \in RunsOut(h) : t = Sequence(h, S)
    BY <2>0
  <2>4. PICK S \in RunsOut(h) : t = Sequence(h, S)
    BY <2>3
  <2>5. Id(g, R) = Id(h, S)
    BY <1>1, <2>2, <2>4 DEF Sequence
  <2>6. g = h
    BY <2>5 DEF Id
  <2>7. CASE g \in SessionGroups
    <3>1. R = S
      BY <2>2, <2>4, <2>6, <2>7 DEF RunsOut
    <3> QED
      BY <2>2, <2>4, <2>6, <3>1
  <2>8. CASE g \notin SessionGroups
    <3> DEFINE M == Out(g)
    <3>1. M \in SUBSET Records /\ feed \in Feeds
      BY <1>1 DEF Out, Seen, Of, StitchInv, FeedInv
    <3>2. R \in Runs(M) /\ S \in Runs(M)
      BY <2>6, <2>8 DEF RunsOut
    <3> HIDE DEF M
    <3>3. R \in SUBSET Records /\ S \in SUBSET Records /\ R # {} /\ S # {}
      BY <3>1, <3>2, RunsCover
    <3>4. PICK r \in R : First(R) = At(r)
      BY <3>1, <3>3, FirstIs
    <3>5. PICK u \in S : First(S) = At(u)
      BY <3>1, <3>3, FirstIs
    <3>6. At(r) \div Bucket = At(u) \div Bucket
      BY <2>5, <2>6, <2>8, <3>4, <3>5 DEF Id
    <3>7. At(r) \in Int /\ At(u) \in Int
      BY <3>1, <3>3, FeedType
    <3>8. ASSUME R # S PROVE FALSE
      <4>1. At(u) - At(r) > Gap \/ At(r) - At(u) > Gap
        BY <3>1, <3>2, <3>8, DifferentRunsApart
      <4>2. CASE At(u) - At(r) >= Bucket
        BY <3>6, <3>7, <4>2, DivApart
      <4>3. CASE At(r) - At(u) >= Bucket
        BY <3>6, <3>7, <4>3, DivApart
      <4> QED
        BY <3>7, <4>1, <4>2, <4>3
    <3> QED
      BY <2>2, <2>4, <2>6, <3>8
  <2> QED
    BY <2>7, <2>8
<1>2. StitchInv => DistinctIds
  BY <1>1 DEF DistinctIds
<1> QED
  BY <1>2, StitchInvariant, PTL

LEMMA NoRunsOfNothing == Runs({}) = {}
BY DEF Runs

\* The runs that one more shard leaves open are still recent.
LEMMA AddShardRecent ==
  ASSUME StitchInv, NEW k \in Shards, AddShard(k)
  PROVE  OpenRunsAreRecent'
<1> USE StitcherAssumption
<1>1. /\ k \in present \ read /\ read' = read \cup {k} /\ Stitch(In(k), Quiet(k))
      /\ feed' = feed
  BY DEF AddShard
<1>2. \A j \in read' : j \in Int /\ j <= k /\ k \in Int
  BY <1>1 DEF StitchInv, FeedInv, OrderInv, Shards
<1>3. \A r \in Records : At(r)' = At(r) /\ At(r) \in Int
  BY <1>1, FeedType DEF At, StitchInv, FeedInv
<1>4. StitchInv'
  BY AddShardKeeps
<1>5. ASSUME NEW g \in Groups \ SessionGroups, NEW R \in Runs(open'[g]), NEW j \in read'
      PROVE  \E r \in R : At(r) + Gap >= (j + 1) * ShardLen - Margin
  <2> DEFINE M == AtHand(g, In(k))
             Q == Quieted(M, Quiet(k))
  <2>1. M \in SUBSET Records /\ feed \in Feeds
    BY DEF AtHand, Of, StitchInv, OpenInv, FeedInv
  <2>2. open'[g] = M \ UNION Closing(g, M, Quiet(k))
    BY <1>1 DEF Stitch, AtHand
  <2>3. Closing(g, M, Quiet(k)) = Q
    BY DEF Closing, Quieted, UpTo
  <2> HIDE DEF M
  <2>4. Runs(M \ UNION Q) \subseteq Runs(M) \ Q
    BY <2>1, CloseSome
  <2>5. R \in Runs(M) \ Q
    BY <2>2, <2>3, <2>4
  <2>6. PICK w \in UpTo(M, R) : w \notin Quiet(k)
    BY <2>5 DEF Quieted
  <2>7. PICK r \in R : At(w) <= At(r)
    BY <2>6 DEF UpTo
  <2>8. w \in Records /\ r \in Records
    BY <2>1, <2>5, <2>6, <2>7, RunsCover DEF UpTo
  <2>9. At(w) + Gap >= (k + 1) * ShardLen - Margin
    BY <1>2, <1>3, <2>6, <2>8 DEF Quiet
  <2>10. (j + 1) * ShardLen <= (k + 1) * ShardLen
    BY <1>2, TimesMonotone
  <2>11. (j + 1) * ShardLen \in Int /\ (k + 1) * ShardLen \in Int
    BY <1>2
  <2>12. At(r) + Gap >= (j + 1) * ShardLen - Margin
    BY <1>3, <2>7, <2>8, <2>9, <2>10, <2>11
  <2> QED
    BY <2>12
<1>6. \A X \in SUBSET Records : Runs(X)' = Runs(X)
  BY <1>3 DEF Runs, SameRun, Ends
<1>7. open' \in [Groups -> SUBSET Records] /\ \A g \in SessionGroups : open'[g] = {}
  BY <1>4 DEF StitchInv, OpenInv
<1>8. ASSUME NEW g \in Groups, NEW R \in Runs(open[g])'
      PROVE  /\ g \notin SessionGroups
             /\ \A j \in read' : \E r \in R : At(r)' + Gap >= (j + 1) * ShardLen - Margin
  <2>1. R \in Runs(open'[g])
    BY <1>3, <1>7 DEF Runs, SameRun, Ends
  <2>2. g \notin SessionGroups
    BY <1>7, <2>1, NoRunsOfNothing
  <2>3. R \subseteq Records
    BY <1>7, <2>1, RunsCover
  <2> QED
    BY <1>3, <1>5, <2>1, <2>2, <2>3
<1> QED
  BY <1>8 DEF OpenRunsAreRecent

\* A run stays open only while a record that may join it may still come.
THEOREM RecentTheorem == Spec => []OpenRunsAreRecent
<1>1. Init => OpenRunsAreRecent
  BY NoRunsOfNothing DEF Init, OpenRunsAreRecent
<1>2. ASSUME StitchInv, CloseAll PROVE OpenRunsAreRecent'
  <2>1. Stitch({}, Records)
    BY <1>2 DEF CloseAll
  <2>2. ASSUME NEW g \in Groups PROVE open'[g] = {}
    <3> DEFINE M == AtHand(g, {})
    <3>1. open'[g] = M \ UNION Closing(g, M, Records)
      BY <2>1 DEF Stitch, AtHand
    <3>2. M \in SUBSET Records
      BY <1>2 DEF AtHand, StitchInv, OpenInv
    <3> HIDE DEF M
    <3> QED
      BY <3>1, <3>2, ClosingAll
  <2>3. \A g \in Groups : Runs(open[g])' = {}
    BY <2>2 DEF Runs
  <2> QED
    BY <2>3 DEF OpenRunsAreRecent
<1>3. ASSUME OpenRunsAreRecent, UNCHANGED vars PROVE OpenRunsAreRecent'
  <2>1. feed' = feed /\ read' = read /\ open' = open
    BY <1>3 DEF vars
  <2> QED
    BY <1>3, <2>1 DEF OpenRunsAreRecent, Runs, SameRun, Ends, At
<1>4. StitchInv /\ OpenRunsAreRecent /\ [Next]_vars => OpenRunsAreRecent'
  BY <1>2, <1>3, AddShardRecent DEF Next
<1> QED
  BY <1>1, <1>4, StitchInvariant, PTL DEF Spec

(***************************************************************************)
(* The code's loop gives the runs.                                         *)
(***************************************************************************)
LEMMA InductionOnNat ==
  ASSUME NEW S \in SUBSET Nat, 0 \in S, \A n \in S : n + 1 \in S
  PROVE  S = Nat
<1> SUFFICES ASSUME Nat \ S # {} PROVE FALSE
  OBVIOUS
<1>1. PICK x \in Nat \ S : \A y \in Nat \ S : x <= y
  BY LeastNatural
<1>2. x # 0 /\ x - 1 \in Nat /\ ~(x <= x - 1)
  BY <1>1
<1>3. x - 1 \in S
  BY <1>1, <1>2
<1>4. x - 1 + 1 = x
  BY <1>1
<1> QED
  BY <1>1, <1>3, <1>4

\* A set of subsets of a finite set that has the empty one, and a set whenever it has
\* that set less any one element, has them all.
LEMMA SubsetInduction ==
  ASSUME NEW S, IsFiniteSet(S), NEW Q \in SUBSET SUBSET S, {} \in Q,
         \A s \in SUBSET S : s # {} /\ (\A x \in s : s \ {x} \in Q) => s \in Q
  PROVE  Q = SUBSET S
<1> DEFINE N == {n \in Nat : \A s \in SUBSET S : Cardinality(s) = n => s \in Q}
<1>1. \A s \in SUBSET S : IsFiniteSet(s) /\ Cardinality(s) \in Nat
  BY FS_Subset, FS_CardinalityType
<1>2. 0 \in N
  BY <1>1, FS_EmptySet
<1>3. ASSUME NEW n \in N PROVE n + 1 \in N
  <2> SUFFICES ASSUME NEW s \in SUBSET S, Cardinality(s) = n + 1 PROVE s \in Q
    OBVIOUS
  <2>1. s # {}
    BY FS_EmptySet
  <2>2. ASSUME NEW x \in s PROVE s \ {x} \in Q
    <3>1. Cardinality(s \ {x}) = n + 1 - 1
      BY <1>1, FS_RemoveElement
    <3>2. n + 1 - 1 = n
      OBVIOUS
    <3> QED
      BY <3>1, <3>2
  <2> QED
    BY <2>1, <2>2
<1>4. N = Nat
  <2>1. N \in SUBSET Nat
    OBVIOUS
  <2> HIDE DEF N
  <2> QED
    BY <1>2, <1>3, <2>1, InductionOnNat
<1> QED
  BY <1>1, <1>4

\* The loop's order is total: a set of records has a latest.
Identified(id) == id \in [Records -> Int] /\ \A r, s \in Records : r # s => id[r] # id[s]

LEMMA OrderIsTotal ==
  ASSUME feed \in Feeds, NEW id, Identified(id),
         NEW a \in Records, NEW b \in Records, NEW c \in Records
  PROVE  /\ a # b => Before(a, b, id) \/ Before(b, a, id)
         /\ Before(a, b, id) => ~Before(b, a, id) /\ At(a) <= At(b)
         /\ Before(a, b, id) /\ Before(b, c, id) => Before(a, c, id)
<1>1. At(a) \in Int /\ At(b) \in Int /\ At(c) \in Int
  BY FeedType
<1>2. id[a] \in Int /\ id[b] \in Int /\ id[c] \in Int /\ (a # b => id[a] # id[b])
  BY DEF Identified
<1> QED
  BY <1>1, <1>2 DEF Before

LEMMA LatestIs ==
  ASSUME feed \in Feeds, NEW id, Identified(id), NEW M \in SUBSET Records, M # {}
  PROVE  /\ Latest(M, id) \in M
         /\ \A a \in M \ {Latest(M, id)} : Before(a, Latest(M, id), id)
<1> DEFINE Q == {S \in SUBSET Records : S = {} \/ \E m \in S : \A a \in S \ {m} : Before(a, m, id)}
<1>1. {} \in Q
  OBVIOUS
<1>2. ASSUME NEW S \in SUBSET Records, S # {}, \A x \in S : S \ {x} \in Q
      PROVE  S \in Q
  <2>1. PICK x \in S : TRUE
    BY <1>2
  <2>2. CASE S \ {x} = {}
    BY <2>2
  <2>3. CASE S \ {x} # {}
    <3>1. PICK m \in S \ {x} : \A a \in (S \ {x}) \ {m} : Before(a, m, id)
      BY <1>2, <2>3
    <3>2. CASE Before(x, m, id)
      BY <3>1, <3>2
    <3>3. CASE Before(m, x, id)
      <4>1. ASSUME NEW a \in S \ {x} PROVE Before(a, x, id)
        <5>1. a \in Records /\ m \in Records /\ x \in Records
          OBVIOUS
        <5> QED
          BY <3>1, <3>3, <5>1, OrderIsTotal
      <4> QED
        BY <4>1
    <3> QED
      BY <3>2, <3>3, OrderIsTotal
  <2> QED
    BY <2>2, <2>3
<1>3. Q = SUBSET Records
  <2>1. Q \in SUBSET SUBSET Records
    OBVIOUS
  <2> HIDE DEF Q
  <2> QED
    BY <1>1, <1>2, <2>1, SubsetInduction, StitcherAssumption
<1>4. \E m \in M : \A a \in M \ {m} : Before(a, m, id)
  BY <1>3
<1> QED
  BY <1>4 DEF Latest

(***************************************************************************)
(* The loop has a result: each step works on the records before it.        *)
(***************************************************************************)
IsLoop(f, M, id) ==
  f = [S \in SUBSET M |->
         IF S = {} THEN <<>> ELSE Join(Latest(S, id), f[S \ {Latest(S, id)}])]

LEMMA LoopExists ==
  ASSUME feed \in Feeds, NEW id, Identified(id), NEW M \in SUBSET Records
  PROVE  \E f : IsLoop(f, M, id) /\ Loop(M, id) = f[M]
<1> DEFINE Q == {S \in SUBSET Records : \E f : IsLoop(f, S, id)}
<1>1. {} \in Q
  <2>1. IsLoop([S \in SUBSET {} |-> <<>>], {}, id)
    BY DEF IsLoop
  <2> QED
    BY <2>1
<1>2. ASSUME NEW S \in SUBSET Records, S # {}, \A x \in S : S \ {x} \in Q
      PROVE  S \in Q
  <2> DEFINE m == Latest(S, id)
  <2>1. m \in S /\ \A a \in S \ {m} : Before(a, m, id)
    BY <1>2, LatestIs
  <2> HIDE DEF m
  <2>2. PICK f : IsLoop(f, S \ {m}, id)
    BY <1>2, <2>1
  <2>3. ASSUME NEW T \in SUBSET S, m \in T PROVE Latest(T, id) = m
    <3>1. T \in SUBSET Records /\ T # {}
      BY <2>3
    <3>2. Latest(T, id) \in T /\ \A a \in T \ {Latest(T, id)} : Before(a, Latest(T, id), id)
      BY <3>1, LatestIs
    <3>3. Latest(T, id) \in Records /\ m \in Records
      BY <3>1, <3>2, <2>3
    <3> QED
      BY <2>1, <2>3, <3>2, <3>3, OrderIsTotal
  <2> DEFINE g == [T \in SUBSET S |-> IF m \in T THEN Join(m, f[T \ {m}]) ELSE f[T]]
  <2>4. \A T \in SUBSET (S \ {m}) : g[T] = f[T]
    OBVIOUS
  <2>5. \A T \in SUBSET (S \ {m}) :
          f[T] = IF T = {} THEN <<>> ELSE Join(Latest(T, id), f[T \ {Latest(T, id)}])
    BY <2>2 DEF IsLoop
  <2>6. \A T \in SUBSET S : m \in T => g[T] = Join(m, g[T \ {m}])
    BY <2>4
  <2>7. g = [T \in SUBSET S |-> g[T]]
    OBVIOUS
  <2> HIDE DEF g
  <2>8. ASSUME NEW T \in SUBSET S
        PROVE  g[T] = IF T = {} THEN <<>> ELSE Join(Latest(T, id), g[T \ {Latest(T, id)}])
    <3>1. CASE m \in T
      BY <2>3, <2>6, <3>1
    <3>2. CASE m \notin T
      <4>1. T \in SUBSET (S \ {m}) /\ T \ {Latest(T, id)} \in SUBSET (S \ {m})
        BY <3>2
      <4> QED
        BY <2>4, <2>5, <4>1
    <3> QED
      BY <3>1, <3>2
  <2>9. IsLoop(g, S, id)
    BY <2>7, <2>8 DEF IsLoop
  <2> QED
    BY <2>9
<1>3. Q = SUBSET Records
  <2>1. Q \in SUBSET SUBSET Records
    OBVIOUS
  <2> HIDE DEF Q
  <2> QED
    BY <1>1, <1>2, <2>1, SubsetInduction, StitcherAssumption
<1>4. \E f : IsLoop(f, M, id)
  BY <1>3
<1> DEFINE f == CHOOSE f : IsLoop(f, M, id)
<1>5. IsLoop(f, M, id)
  BY <1>4
<1>6. Loop(M, id) = f[M]
  BY DEF IsLoop, Loop, MapThenFoldSet
<1> QED
  BY <1>5, <1>6

(***************************************************************************)
(* Runs with one more record, the latest.                                  *)
(***************************************************************************)
RunOf(M, x) == {y \in M : SameRun(M, x, y)}

\* No record of T is after z, which is in T; m is not before z.
Follows(T, z, m) ==
  /\ T \in SUBSET Records /\ m \in Records \ T /\ z \in T
  /\ At(z) <= At(m) /\ \A y \in T : At(y) <= At(z)

Within(z, m) == At(m) - At(z) <= Gap

LEMMA FollowingTypes ==
  ASSUME feed \in Feeds, NEW T, NEW z, NEW m, Follows(T, z, m)
  PROVE  /\ \A y \in T \cup {m} : At(y) \in Int
         /\ Gap \in Int
BY FeedType, StitcherAssumption DEF Follows

\* After a silence it is a run of its own.
LEMMA SilenceBeginsRun ==
  ASSUME feed \in Feeds, NEW T, NEW z, NEW m, Follows(T, z, m), ~Within(z, m)
  PROVE  Runs(T \cup {m}) = Runs(T) \cup {{m}} /\ RunOf(T \cup {m}, m) = {m}
<1>1. \A s \in T, t \in {m} : At(t) > At(s) + Gap
  BY FollowingTypes DEF Follows, Within
<1>2. Runs(T \cup {m}) = Runs(T) \cup Runs({m})
  BY <1>1, SplitRuns DEF Follows
<1>3. Runs({m}) = {{m}}
  BY DEF Runs, SameRun
<1>4. PICK R \in Runs(T \cup {m}) : R = RunOf(T \cup {m}, m)
  BY DEF Runs, RunOf
<1>5. m \in R
  BY <1>4 DEF RunOf, SameRun
<1>6. {m} \in Runs(T \cup {m})
  BY <1>2, <1>3
<1>7. R = {m}
  BY <1>4, <1>5, <1>6, OneRunEach DEF Follows
<1> QED
  BY <1>2, <1>3, <1>4, <1>7

\* Within the gap it joins the run of the record before it.
LEMMA NextJoinsRun ==
  ASSUME feed \in Feeds, NEW T, NEW z, NEW m, Follows(T, z, m), Within(z, m)
  PROVE  /\ RunOf(T \cup {m}, m) = RunOf(T, z) \cup {m}
         /\ Runs(T \cup {m}) = (Runs(T) \ {RunOf(T, z)}) \cup {RunOf(T, z) \cup {m}}
<1> DEFINE S == T \cup {m}
<1>0. /\ \A y \in S : At(y) \in Int
      /\ Gap \in Int /\ z \in T /\ m \notin T /\ At(z) <= At(m) /\ \A y \in T : At(y) <= At(z)
  BY FollowingTypes DEF Follows
<1>00. At(m) - At(z) <= Gap
  BY DEF Within
<1>1. ASSUME NEW w \in S, At(w) < At(z) PROVE w \in Ends(S) <=> w \in Ends(T)
  <2>1. w \in T
    BY <1>0, <1>1
  <2>2. w \in Ends(S) => w \in Ends(T)
    BY <2>1 DEF Ends
  <2>3. w \in Ends(T) => w \in Ends(S)
    <3> SUFFICES ASSUME w \in Ends(T) PROVE At(m) - At(w) > Gap
      BY <2>1 DEF Ends
    <3>1. At(z) - At(w) > Gap
      BY <1>0, <1>1 DEF Ends
    <3> QED
      BY <1>0, <3>1
  <2> QED
    BY <2>2, <2>3
<1>2. \A w \in Ends(S) : w \in S
  BY DEF Ends
<1>3. \A w \in Ends(T) : w \in T
  BY DEF Ends
<1>4. ASSUME NEW x \in T, NEW y \in T PROVE SameRun(S, x, y) <=> SameRun(T, x, y)
  <2>1. \A w \in S : At(w) >= At(z) => At(x) <= At(w) /\ At(y) <= At(w)
    BY <1>0
  <2>2. SameRun(S, x, y) <=>
        \A w \in S : w \in Ends(S) /\ At(w) < At(z) => (At(x) <= At(w) <=> At(y) <= At(w))
    BY <1>0, <1>2, <2>1 DEF SameRun
  <2>3. SameRun(T, x, y) <=>
        \A w \in S : w \in Ends(T) /\ At(w) < At(z) => (At(x) <= At(w) <=> At(y) <= At(w))
    BY <1>0, <1>3, <2>1 DEF SameRun
  <2> QED
    BY <1>1, <2>2, <2>3
<1>5. ASSUME NEW w \in Ends(S) PROVE At(z) <= At(w) <=> At(m) <= At(w)
  <2>1. w \in S /\ At(w) \in Int /\ (At(m) > At(w) => At(m) - At(w) > Gap)
    BY <1>0, <1>2 DEF Ends
  <2> QED
    BY <1>0, <1>00, <2>1
<1>6. \A x \in S : SameRun(S, m, x) <=> SameRun(S, z, x)
  BY <1>5 DEF SameRun
<1>7. RunOf(S, m) = RunOf(T, z) \cup {m}
  <2>1. SameRun(S, m, m)
    BY DEF SameRun
  <2> QED
    BY <1>0, <1>4, <1>6, <2>1 DEF RunOf
<1>8. \A x \in T : SameRun(S, x, m) <=> SameRun(T, z, x)
  <2>1. \A x \in T : SameRun(S, x, m) <=> SameRun(S, m, x)
    BY DEF SameRun
  <2> QED
    BY <1>0, <1>4, <1>6, <2>1
<1>9. ASSUME NEW x \in T
      PROVE  RunOf(S, x) = IF SameRun(T, z, x) THEN RunOf(T, z) \cup {m} ELSE RunOf(T, x)
  <2>1. CASE SameRun(T, z, x)
    <3>1. \A y \in T : SameRun(T, x, y) <=> SameRun(T, z, y)
      BY <2>1 DEF SameRun
    <3> QED
      BY <1>4, <1>8, <2>1, <3>1 DEF RunOf
  <2>2. CASE ~SameRun(T, z, x)
    BY <1>4, <1>8, <2>2 DEF RunOf
  <2> QED
    BY <2>1, <2>2
<1>10. \A x \in T : RunOf(T, x) = RunOf(T, z) <=> SameRun(T, z, x)
  <2>1. \A x \in T : SameRun(T, x, x)
    BY DEF SameRun
  <2>2. ASSUME NEW x \in T, SameRun(T, z, x)
        PROVE  \A y \in T : SameRun(T, z, y) <=> SameRun(T, x, y)
    BY <2>2 DEF SameRun
  <2> QED
    BY <2>1, <2>2 DEF RunOf
<1>11. Runs(S) = {RunOf(S, x) : x \in S} /\ Runs(T) = {RunOf(T, x) : x \in T}
  BY DEF Runs, RunOf
<1>12. \A x \in S : RunOf(S, x) \in (Runs(T) \ {RunOf(T, z)}) \cup {RunOf(T, z) \cup {m}}
  BY <1>7, <1>9, <1>10, <1>11
<1>13. RunOf(T, z) \cup {m} \in Runs(S)
  BY <1>7, <1>11
<1>14. ASSUME NEW R \in Runs(T), R # RunOf(T, z) PROVE R \in Runs(S)
  <2>1. PICK x \in T : R = RunOf(T, x)
    BY <1>11
  <2>2. RunOf(S, x) = R
    BY <1>9, <1>10, <1>14, <2>1
  <2> QED
    BY <1>11, <2>2
<1>15. Runs(S) = (Runs(T) \ {RunOf(T, z)}) \cup {RunOf(T, z) \cup {m}}
  <2>1. Runs(S) \subseteq (Runs(T) \ {RunOf(T, z)}) \cup {RunOf(T, z) \cup {m}}
    BY <1>11, <1>12
  <2> QED
    BY <2>1, <1>13, <1>14
<1> QED
  BY <1>7, <1>15

(***************************************************************************)
(* What the loop has after the records of S: their runs, that of the       *)
(* latest at the end, and the latest at its end.                           *)
(***************************************************************************)
IsRuns(q) == q \in Seq(Seq(Records)) /\ \A i \in DOMAIN q : q[i] # <<>>

Cut(q, S, z) ==
  /\ IsRuns(q) /\ q # <<>> /\ Last(Last(q)) = z
  /\ Elements(Last(q)) = RunOf(S, z)
  /\ {Elements(q[i]) : i \in 1 .. Len(q) - 1} = Runs(S) \ {RunOf(S, z)}

LEMMA Appended ==
  ASSUME NEW q \in Seq(Records), NEW m \in Records
  PROVE  /\ Append(q, m) \in Seq(Records) /\ Append(q, m) # <<>> /\ Last(Append(q, m)) = m
         /\ Elements(Append(q, m)) = Elements(q) \cup {m}
<1>1. DOMAIN q = 1 .. Len(q) /\ DOMAIN Append(q, m) = 1 .. Len(q) + 1 /\ Len(q) \in Nat
  OBVIOUS
<1>2. /\ \A i \in 1 .. Len(q) : Append(q, m)[i] = q[i]
      /\ Append(q, m)[Len(q) + 1] = m
      /\ Len(Append(q, m)) = Len(q) + 1 /\ Append(q, m) \in Seq(Records)
  OBVIOUS
<1>3. 1 .. Len(q) + 1 = (1 .. Len(q)) \cup {Len(q) + 1}
  BY <1>1
<1>4. Elements(Append(q, m)) = Elements(q) \cup {m}
  BY <1>1, <1>2, <1>3 DEF Elements
<1>5. Last(Append(q, m)) = m
  BY <1>2 DEF Last
<1>6. Append(q, m) # <<>>
  BY <1>1, <1>2
<1> QED
  BY <1>2, <1>4, <1>5, <1>6

LEMMA LastReplaced ==
  ASSUME NEW X, NEW q \in Seq(X), q # <<>>, NEW j \in X
  PROVE  /\ Front(q) \o <<j>> \in Seq(X) /\ Len(Front(q) \o <<j>>) = Len(q)
         /\ (Front(q) \o <<j>>)[Len(q)] = j
         /\ \A i \in 1 .. Len(q) - 1 : (Front(q) \o <<j>>)[i] = q[i]
<1> DEFINE f == Front(q)
           n == Len(q)
<1>1. n \in Nat /\ n # 0
  OBVIOUS
<1>2. f \in Seq(X) /\ Len(f) = n - 1 /\ \A i \in 1 .. n - 1 : f[i] = q[i]
  <2>1. \A i \in 1 .. n - 1 : q[i] \in X
    OBVIOUS
  <2>2. 1 \in Int /\ n - 1 \in Int
    BY <1>1
  <2>3. f = SubSeq(q, 1, n - 1)
    BY DEF Front
  <2> HIDE DEF f, n
  <2>4. /\ f \in Seq(X) /\ Len(f) = IF 1 <= n - 1 THEN n - 1 - 1 + 1 ELSE 0
        /\ \A i \in 1 .. n - 1 - 1 + 1 : f[i] = q[1 + i - 1]
    BY <2>1, <2>2, <2>3, SubSeqProperties
  <2>5. n - 1 - 1 + 1 = n - 1 /\ \A i \in 1 .. n - 1 : 1 + i - 1 = i
    BY <1>1
  <2> QED
    BY <1>1, <2>4, <2>5
<1> HIDE DEF f, n
<1>3. <<j>> \in Seq(X) /\ Len(<<j>>) = 1 /\ <<j>>[1] = j
  OBVIOUS
<1>4. f \o <<j>> \in Seq(X)
  BY <1>2, <1>3
<1>5. Len(f \o <<j>>) = n
  BY <1>1, <1>2
<1>6. (f \o <<j>>)[n] = j
  BY <1>1, <1>2
<1>7. \A i \in 1 .. n - 1 : (f \o <<j>>)[i] = f[i]
  BY <1>1, <1>2
<1> QED
  BY <1>2, <1>4, <1>5, <1>6, <1>7 DEF f, n

LEMMA FirstCut ==
  ASSUME NEW m \in Records
  PROVE  Cut(Join(m, <<>>), {m}, m)
<1>1. Join(m, <<>>) = <<<<m>>>>
  BY DEF Join
<1>2. <<m>> \in Seq(Records) /\ <<<<m>>>> \in Seq(Seq(Records))
  OBVIOUS
<1>3. Last(<<<<m>>>>) = <<m>> /\ Last(<<m>>) = m /\ Elements(<<m>>) = {m} /\ Len(<<<<m>>>>) = 1
  BY DEF Last, Elements
<1>4. RunOf({m}, m) = {m} /\ Runs({m}) = {{m}}
  BY DEF RunOf, Runs, SameRun
<1> DEFINE q == <<<<m>>>>
<1>5. DOMAIN q = {1} /\ q[1] = <<m>> /\ <<m>> # <<>> /\ q # <<>>
  OBVIOUS
<1>6. q \in Seq(Seq(Records)) /\ Last(q) = <<m>> /\ Len(q) = 1
  BY <1>2, <1>3
<1>7. {Elements(q[i]) : i \in 1 .. Len(q) - 1} = {}
  BY <1>6
<1> HIDE DEF q
<1>8. IsRuns(q)
  BY <1>5, <1>6 DEF IsRuns
<1>9. Cut(q, {m}, m)
  BY <1>3, <1>4, <1>5, <1>6, <1>7, <1>8 DEF Cut
<1> QED
  BY <1>1, <1>9 DEF q

LEMMA NextCut ==
  ASSUME feed \in Feeds, NEW T, NEW z, NEW m, Follows(T, z, m), NEW q, Cut(q, T, z)
  PROVE  Cut(Join(m, q), T \cup {m}, m)
<1> DEFINE S == T \cup {m}
           n == Len(q)
           last == q[n]
<1>1. /\ n \in Nat \ {0} /\ DOMAIN q = 1 .. n /\ q \in Seq(Seq(Records))
      /\ \A i \in 1 .. n : q[i] \in Seq(Records) /\ q[i] # <<>>
      /\ Last(q) = last /\ last \in Seq(Records) /\ Last(last) = z
      /\ m \in Records /\ m \notin T
  BY DEF Cut, IsRuns, Last, Follows
<1>2. /\ {Elements(q[i]) : i \in 1 .. n - 1} = Runs(T) \ {RunOf(T, z)}
      /\ Elements(last) = RunOf(T, z)
  BY <1>1 DEF Cut
<1>3. RunOf(T, z) \in Runs(T) /\ \A R \in Runs(T) : m \notin R
  <2>1. RunOf(T, z) \in Runs(T)
    BY DEF Runs, RunOf, Follows
  <2> QED
    BY <1>1, <2>1, RunsCover DEF Follows
<1>4. CASE Within(z, m)
  <2>0. RunOf(S, m) = RunOf(T, z) \cup {m}
        /\ Runs(S) = (Runs(T) \ {RunOf(T, z)}) \cup {RunOf(T, z) \cup {m}}
    BY <1>4, NextJoinsRun
  <2> DEFINE j == Append(last, m)
             p == Join(m, q)
  <2>1. p = Front(q) \o <<j>>
    BY <1>1, <1>4 DEF Join, Cut, Within
  <2>2. j \in Seq(Records) /\ j # <<>> /\ Last(j) = m /\ Elements(j) = Elements(last) \cup {m}
    <3> HIDE DEF last
    <3> QED
      BY <1>1, Appended
  <2> HIDE DEF j, last
  <2>3. Elements(j) = RunOf(S, m)
    BY <1>2, <2>0, <2>2
  <2>4. /\ p \in Seq(Seq(Records)) /\ Len(p) = n /\ p[n] = j
        /\ \A i \in 1 .. n - 1 : p[i] = q[i]
    <3>1. q # <<>>
      BY DEF Cut
    <3>2. q \in Seq(Seq(Records)) /\ j \in Seq(Records)
      BY <1>1, <2>2
    <3>3. /\ Front(q) \o <<j>> \in Seq(Seq(Records)) /\ Len(Front(q) \o <<j>>) = Len(q)
          /\ (Front(q) \o <<j>>)[Len(q)] = j
          /\ \A i \in 1 .. Len(q) - 1 : (Front(q) \o <<j>>)[i] = q[i]
      <4> DEFINE X == Seq(Records)
      <4> HIDE DEF X
      <4>1. q \in Seq(X) /\ j \in X
        BY <3>2 DEF X
      <4> QED
        BY <3>1, <4>1, LastReplaced DEF X
    <3> HIDE DEF p
    <3> QED
      BY <2>1, <3>3
  <2> HIDE DEF p, n
  <2>5. Last(p) = j /\ p # <<>> /\ DOMAIN p = 1 .. n
    BY <1>1, <2>4 DEF Last
  <2>6. IsRuns(p)
    <3>1. ASSUME NEW i \in 1 .. n PROVE p[i] # <<>>
      <4>1. i = n \/ i \in 1 .. n - 1
        BY <1>1
      <4> QED
        BY <1>1, <2>2, <2>4, <4>1
    <3> QED
      BY <2>4, <2>5, <3>1 DEF IsRuns
  <2>7. {Elements(p[i]) : i \in 1 .. n - 1} = {Elements(q[i]) : i \in 1 .. n - 1}
    BY <2>4
  <2>8. Runs(S) \ {RunOf(S, m)} = Runs(T) \ {RunOf(T, z)}
    <3>1. RunOf(T, z) \cup {m} \notin Runs(T)
      BY <1>3
    <3> QED
      BY <2>0, <3>1
  <2>9. {Elements(p[i]) : i \in 1 .. Len(p) - 1} = Runs(S) \ {RunOf(S, m)}
    BY <1>2, <2>4, <2>7, <2>8
  <2> QED
    BY <2>2, <2>3, <2>5, <2>6, <2>9 DEF Cut, p
<1>5. CASE ~Within(z, m)
  <2> DEFINE p == Join(m, q)
  <2>0. ~(At(m) - At(z) <= Gap)
    BY <1>5 DEF Within
  <2>1. p = Append(q, <<m>>)
    BY <1>1, <2>0 DEF Join
  <2>2. /\ p \in Seq(Seq(Records)) /\ Len(p) = n + 1 /\ p[n + 1] = <<m>>
        /\ \A i \in 1 .. n : p[i] = q[i]
    BY <1>1, <2>1
  <2>3. Last(<<m>>) = m /\ Elements(<<m>>) = {m} /\ <<m>> # <<>>
    BY DEF Last, Elements
  <2> HIDE DEF p, n, last
  <2>4. Last(p) = <<m>> /\ p # <<>> /\ DOMAIN p = 1 .. n + 1
    BY <1>1, <2>2 DEF Last
  <2>5. IsRuns(p)
    <3>1. ASSUME NEW i \in 1 .. n + 1 PROVE p[i] # <<>>
      <4>1. i = n + 1 \/ i \in 1 .. n
        BY <1>1
      <4> QED
        BY <1>1, <2>2, <2>3, <4>1
    <3> QED
      BY <2>2, <2>4, <3>1 DEF IsRuns
  <2>6. {Elements(p[i]) : i \in 1 .. Len(p) - 1} = {Elements(q[i]) : i \in 1 .. n}
    <3>1. Len(p) - 1 = n
      BY <1>1, <2>2
    <3> QED
      BY <2>2, <3>1
  <2>7. {Elements(q[i]) : i \in 1 .. n} = Runs(T)
    <3>1. 1 .. n = (1 .. n - 1) \cup {n}
      BY <1>1
    <3>2. Elements(q[n]) = RunOf(T, z)
      BY <1>2 DEF last
    <3> QED
      BY <1>2, <1>3, <3>1, <3>2
  <2>8. Runs(S) \ {RunOf(S, m)} = Runs(T)
    <3>1. Runs(S) = Runs(T) \cup {{m}} /\ RunOf(S, m) = {m}
      BY <1>5, SilenceBeginsRun
    <3> QED
      BY <1>3, <3>1
  <2>9. RunOf(S, m) = {m}
    BY <1>5, SilenceBeginsRun
  <2> QED
    BY <2>3, <2>4, <2>5, <2>6, <2>7, <2>8, <2>9 DEF Cut, p
<1> QED
  BY <1>4, <1>5

LEMMA LoopCuts ==
  ASSUME feed \in Feeds, NEW id, Identified(id), NEW M \in SUBSET Records, NEW f, IsLoop(f, M, id),
         M # {}
  PROVE  Cut(f[M], M, Latest(M, id))
<1> DEFINE Q == {S \in SUBSET M : S = {} \/ Cut(f[S], S, Latest(S, id))}
<1>1. {} \in Q
  OBVIOUS
<1>2. ASSUME NEW S \in SUBSET M, S # {}, \A x \in S : S \ {x} \in Q
      PROVE  S \in Q
  <2> DEFINE m == Latest(S, id)
             T == S \ {m}
             z == Latest(T, id)
  <2>1. m \in S /\ \A a \in T : Before(a, m, id)
    <3>1. S \in SUBSET Records
      OBVIOUS
    <3> QED
      BY <1>2, <3>1, LatestIs
  <2>2. f[S] = Join(m, f[T])
    BY <1>2 DEF IsLoop
  <2>3. T \in Q /\ S = T \cup {m} /\ m \notin T /\ m \in Records /\ T \in SUBSET Records
    BY <1>2, <2>1
  <2>4. CASE T = {}
    <3>1. f[{}] = <<>>
      BY DEF IsLoop
    <3>2. S = {m}
      BY <2>3, <2>4
    <3>3. Cut(f[S], S, m)
      BY <2>2, <2>3, <2>4, <3>1, <3>2, FirstCut
    <3> QED
      BY <3>3
  <2>5. CASE T # {}
    <3>1. z \in T /\ \A a \in T \ {z} : Before(a, z, id)
      BY <2>3, <2>5, LatestIs
    <3>2. Cut(f[T], T, z)
      BY <2>3, <2>5
    <3> HIDE DEF m, T, z
    <3>3. Follows(T, z, m)
      <4>1. At(z) <= At(m)
        BY <2>1, <2>3, <3>1, OrderIsTotal
      <4>2. ASSUME NEW y \in T PROVE At(y) <= At(z)
        <5>1. y \in Records /\ z \in Records /\ At(z) \in Int
          BY <2>3, <3>1, FeedType
        <5>2. CASE y = z
          BY <5>1, <5>2
        <5>3. CASE y # z
          BY <3>1, <5>1, <5>3, OrderIsTotal
        <5> QED
          BY <5>2, <5>3
      <4> QED
        BY <2>3, <3>1, <4>1, <4>2 DEF Follows
    <3>4. Cut(Join(m, f[T]), T \cup {m}, m)
      BY <3>2, <3>3, NextCut
    <3>5. Cut(f[S], S, m)
      BY <2>2, <2>3, <3>4
    <3> QED
      BY <3>5 DEF m
  <2> QED
    BY <2>4, <2>5
<1>3. Q = SUBSET M
  <2>1. Q \in SUBSET SUBSET M
    OBVIOUS
  <2>2. IsFiniteSet(M)
    BY FS_Subset, StitcherAssumption
  <2> HIDE DEF Q
  <2> QED
    BY <1>1, <1>2, <2>1, <2>2, SubsetInduction
<1> QED
  BY <1>3

\* The runs the loop gives a set of records, in any order of their ids.
LEMMA LoopIsRuns ==
  ASSUME feed \in Feeds, NEW id, Identified(id), NEW M \in SUBSET Records
  PROVE  LoopRuns(M, id) = Runs(M)
<1>1. PICK f : IsLoop(f, M, id) /\ Loop(M, id) = f[M]
  BY LoopExists
<1> DEFINE q == Loop(M, id)
<1>2. LoopRuns(M, id) = {Elements(q[i]) : i \in DOMAIN q}
  BY DEF LoopRuns
<1>3. CASE M = {}
  <2>1. q = <<>>
    BY <1>1, <1>3 DEF IsLoop
  <2> QED
    BY <1>2, <1>3, <2>1 DEF Runs
<1>4. CASE M # {}
  <2> DEFINE n == Len(q)
             R == RunOf(M, Latest(M, id))
  <2>1. Cut(q, M, Latest(M, id))
    BY <1>1, <1>4, LoopCuts
  <2> HIDE DEF q
  <2>2. n \in Nat \ {0} /\ DOMAIN q = 1 .. n
    BY <2>1 DEF Cut, IsRuns
  <2>3. Elements(q[n]) = R /\ {Elements(q[i]) : i \in 1 .. n - 1} = Runs(M) \ {R}
    BY <2>1 DEF Cut, Last
  <2>4. R \in Runs(M)
    <3>1. Latest(M, id) \in M
      BY <1>4, LatestIs
    <3> QED
      BY <3>1 DEF Runs, RunOf
  <2> HIDE DEF n, R
  <2>5. 1 .. n = (1 .. n - 1) \cup {n}
    BY <2>2
  <2> QED
    BY <1>2, <2>2, <2>3, <2>4, <2>5
<1> QED
  BY <1>3, <1>4

\* Whatever the span ids, the code's loop over a group's sorted records cuts them
\* where the definition does.
THEOREM LoopTheorem == Spec => []LoopGivesRuns
<1>1. ASSUME StitchInv PROVE LoopGivesRuns
  <2> SUFFICES ASSUME NEW id \in SpanIds, NEW g \in Groups
               PROVE  LoopRuns(Of(g), id) = Runs(Of(g))
    BY DEF LoopGivesRuns
  <2>1. Cardinality(Records) \in Int
    BY FS_CardinalityType, StitcherAssumption
  <2>2. Identified(id)
    BY <2>1 DEF SpanIds, Identified
  <2>3. Of(g) \in SUBSET Records /\ feed \in Feeds
    BY <1>1 DEF Of, StitchInv, FeedInv
  <2> QED
    BY <2>2, <2>3, LoopIsRuns
<1> QED
  BY <1>1, StitchInvariant, PTL
=============================================================================
