----------------------- MODULE PlatformRoutingProofs -----------------------
(***************************************************************************)
(* Theorems about PlatformRouting, for every platform, any devices, modes  *)
(* and sources, any conditions away from rest and any number of changes    *)
(* between two passes.  What the tables themselves must satisfy is the     *)
(* TablesAssumption of PlatformRouting, which TLC evaluates.               *)
(***************************************************************************)
EXTENDS PlatformRouting, FiniteSetTheorems, WellFoundedInduction, TLAPS

-----------------------------------------------------------------------------
(* Numbers.                                                                *)

Less == {p \in Nat \X Nat : p[1] < p[2]}

\* The order of the numbers is well-founded, stated without the operator that
\* the library's theorem passes on.
LEMMA LessWellFounded == IsWellFoundedOn(Less, Nat)
<1>1. OpToRel(<, Nat) = Less
  BY Zenon DEF OpToRel, Less
<1> QED BY <1>1, NatLessThanWellFounded, Zenon

\* A set of numbers that is not empty has a least one.
LEMMA LeastOf ==
    ASSUME NEW S \in SUBSET Nat, S # {}
    PROVE  \E x \in S : \A y \in S : x <= y
<1>1. PICK x \in S : \A y \in S : ~(<<y, x>> \in Less)
  BY LessWellFounded, WFMin
<1>2. \A y \in S : x <= y
  <2> SUFFICES ASSUME NEW y \in S PROVE x <= y
    OBVIOUS
  <2>1. <<y, x>> \in Nat \X Nat /\ <<y, x>>[1] = y /\ <<y, x>>[2] = x
    OBVIOUS
  <2>2. ~(y < x)
    BY <1>1, <2>1 DEF Less
  <2> QED BY <2>2
<1> QED BY <1>2

-----------------------------------------------------------------------------
(* Selections, and what preparing rows reaches.                            *)

Names(R) == {r.name : r \in R}
Pairs(R) == (Streams("in") \cup Streams("out")) \X Names(R)
Selections(R) == [will : [Dirs -> SUBSET Names(R)], carried : [Dirs -> SUBSET Pairs(R)]]

\* One row of a table.
LEMMA SelectedIs ==
    ASSUME NEW R, NEW r \in R, NEW d \in Dirs, NEW sel \in Selections(R)
    PROVE  LET new == Selected(sel, r, d)
           IN  /\ new \in Selections(R)
               /\ \A e \in Dirs \ {d} : new.will[e] = sel.will[e]
                                        /\ new.carried[e] = sel.carried[e]
               /\ \/ /\ new = sel
                     /\ r.kind # "stream" => ~Applicable(sel.will, r, d)
                     /\ r.kind = "stream" => \A s \in Free(sel, d) : ~Takes(sel.will, r, d, s)
                  \/ /\ r.kind # "stream" /\ Applicable(sel.will, r, d)
                     /\ new.will[d] = sel.will[d] \cup {r.name}
                     /\ new.carried[d] = sel.carried[d]
                  \/ /\ r.kind = "stream" /\ new.will[d] = sel.will[d] \cup {r.name}
                     /\ \E s \in Free(sel, d) :
                          /\ Takes(sel.will, r, d, s)
                          /\ new.carried[d] = sel.carried[d] \cup {<<s, r.name>>}
<1> DEFINE new == Selected(sel, r, d)
           will == [sel.will EXCEPT ![d] = @ \cup {r.name}]
<1>1. /\ sel = [will |-> sel.will, carried |-> sel.carried]
      /\ sel.will \in [Dirs -> SUBSET Names(R)] /\ sel.carried \in [Dirs -> SUBSET Pairs(R)]
  BY DEF Selections
<1>2. r.name \in Names(R)
  BY DEF Names
<1>3. /\ will \in [Dirs -> SUBSET Names(R)] /\ will[d] = sel.will[d] \cup {r.name}
      /\ \A e \in Dirs \ {d} : will[e] = sel.will[e]
  BY <1>1, <1>2
<1>4. Use(sel, r, d) = [will |-> will, carried |-> sel.carried]
  BY <1>1 DEF Use
<1> HIDE DEF will
<1>5. CASE r.kind # "stream" /\ Applicable(sel.will, r, d)
  <2>1. new = [will |-> will, carried |-> sel.carried]
    BY <1>4, <1>5 DEF Selected
  <2> HIDE DEF new
  <2>2. /\ new \in Selections(R)
        /\ \A e \in Dirs \ {d} : new.will[e] = sel.will[e] /\ new.carried[e] = sel.carried[e]
        /\ new.will[d] = sel.will[d] \cup {r.name} /\ new.carried[d] = sel.carried[d]
    BY <1>1, <1>3, <2>1 DEF Selections
  <2> QED BY <1>5, <2>2 DEF new
<1>6. CASE r.kind = "stream" /\ \E s \in Free(sel, d) : Takes(sel.will, r, d, s)
  <2> DEFINE s == CHOOSE s \in Free(sel, d) : Takes(sel.will, r, d, s)
             pairs == [sel.carried EXCEPT ![d] = @ \cup {<<s, r.name>>}]
  <2>1. s \in Free(sel, d) /\ Takes(sel.will, r, d, s)
    BY <1>6
  <2>2. new = [Use(sel, r, d) EXCEPT !.carried[d] = @ \cup {<<s, r.name>>}]
    BY <1>6 DEF Selected
  <2> HIDE DEF s, new
  <2>3. new = [[will |-> will, carried |-> sel.carried] EXCEPT !.carried[d] = @ \cup {<<s, r.name>>}]
    BY <1>4, <2>2
  <2>4. new.will = will /\ new.carried = pairs /\ new = [will |-> new.will, carried |-> new.carried]
    BY <2>3
  <2>5. <<s, r.name>> \in Pairs(R)
    BY <1>2, <2>1 DEF Pairs, Free, Dirs
  <2>6. /\ pairs \in [Dirs -> SUBSET Pairs(R)]
        /\ pairs[d] = sel.carried[d] \cup {<<s, r.name>>}
        /\ \A e \in Dirs \ {d} : pairs[e] = sel.carried[e]
    BY <1>1, <2>5
  <2> HIDE DEF pairs
  <2>7. /\ new \in Selections(R)
        /\ \A e \in Dirs \ {d} : new.will[e] = sel.will[e] /\ new.carried[e] = sel.carried[e]
        /\ new.will[d] = sel.will[d] \cup {r.name}
        /\ new.carried[d] = sel.carried[d] \cup {<<s, r.name>>}
    BY <1>3, <2>4, <2>6 DEF Selections
  <2> QED BY <1>6, <2>1, <2>7 DEF new
<1>7. CASE /\ r.kind # "stream" => ~Applicable(sel.will, r, d)
           /\ r.kind = "stream" => ~ \E s \in Free(sel, d) : Takes(sel.will, r, d, s)
  <2>1. new = sel
    BY <1>7 DEF Selected
  <2> QED BY <1>7, <2>1
<1> QED BY <1>5, <1>6, <1>7

\* Preparing rows in whatever order leads from a selection x to a selection y:
\* every set of selections that has x and that no row leaves has y.
Closed(S, R, d) == \A x \in S, r \in R : Selected(x, r, d) \in S
Reaches(R, d, x, y) == \A S : x \in S /\ Closed(S, R, d) => y \in S

LEMMA ReachesOn ==
    ASSUME NEW R, NEW d, NEW x, NEW y, NEW z, Reaches(R, d, x, y), Reaches(R, d, y, z)
    PROVE  Reaches(R, d, x, z)
BY DEF Reaches

LEMMA SelectedReached ==
    ASSUME NEW R, NEW d, NEW x, NEW y, Reaches(R, d, x, y), NEW r \in R
    PROVE  Reaches(R, d, x, Selected(y, r, d))
BY DEF Reaches, Closed

\* The selections along a run are reached from the earlier ones.
LEMMA StepsReach ==
    ASSUME NEW R, NEW d, NEW len \in Nat, NEW sel,
           \A n \in 1..len : Reaches(R, d, sel[n - 1], sel[n])
    PROVE  \A j \in 0..len : \A k \in j..len : Reaches(R, d, sel[j], sel[k])
<1> SUFFICES ASSUME NEW j \in 0..len, NEW k \in j..len, ~Reaches(R, d, sel[j], sel[k]) PROVE FALSE
  OBVIOUS
<1> DEFINE Bad == {n \in j..len : ~Reaches(R, d, sel[j], sel[n])}
<1>1. PICK m \in Bad : \A y \in Bad : m <= y
  <2>1. Bad \in SUBSET Nat /\ Bad # {}
    OBVIOUS
  <2> HIDE DEF Bad
  <2> QED BY <2>1, LeastOf
<1>2. m # j /\ m \in j..len /\ j \in Nat
  BY <1>1 DEF Reaches
<1>3. m - 1 \in j..len /\ m \in 1..len
  BY <1>2
<1>4. m - 1 \notin Bad
  <2> HIDE DEF Bad
  <2> QED BY <1>1, <1>2
<1>5. Reaches(R, d, sel[j], sel[m - 1])
  BY <1>3, <1>4
<1>6. Reaches(R, d, sel[j], sel[m])
  BY <1>3, <1>5, ReachesOn
<1> QED BY <1>1, <1>6

\* The slaves of a row, in the order of the list.  The recursion is over the
\* list: its function exists, and no row is the first that is not reached.
LEMMA SlavesReached ==
    ASSUME NEW rows, rows \in Seq(Range(rows)), NEW r, NEW d, NEW selection
    PROVE  LET R == Range(rows) last == SlavesPrepared(rows, selection, r, d)
           IN  /\ Reaches(R, d, selection, last)
               /\ \A q \in R : q.name \in r.slaves =>
                    \E mid : /\ Reaches(R, d, selection, mid)
                             /\ Reaches(R, d, Selected(mid, q, d), last)
<1> DEFINE R == Range(rows)
           Step(x, n) == IF rows[n].name \in r.slaves THEN Selected(x, rows[n], d) ELSE x
           Runs(f, m) == f = [n \in 0..m |-> IF n = 0 THEN selection ELSE Step(f[n - 1], n)]
           sel == CHOOSE f : Runs(f, Len(rows))
<1>1. Len(rows) \in Nat /\ R = {rows[n] : n \in 1..Len(rows)}
  BY DEF Range
<1>2. ASSUME NEW n \in 1..Len(rows), NEW x PROVE Reaches(R, d, x, Step(x, n))
  BY <1>1 DEF Reaches, Closed
<1>3. SlavesPrepared(rows, selection, r, d) = sel[Len(rows)]
  BY DEF SlavesPrepared
<1>4. \A n : rows[n].name \in r.slaves => \A x : Step(x, n) = Selected(x, rows[n], d)
  OBVIOUS
<1> HIDE DEF Step, R
<1>5. \E f : Runs(f, Len(rows))
  <2> DEFINE Bad == {m \in Nat : ~ \E f : Runs(f, m)}
  <2> SUFFICES ASSUME Bad # {} PROVE FALSE
    BY <1>1
  <2>1. PICK m \in Bad : \A y \in Bad : m <= y
    <3>1. Bad \in SUBSET Nat
      OBVIOUS
    <3> HIDE DEF Bad
    <3> QED BY <3>1, LeastOf
  <2>2. CASE m = 0
    <3>1. Runs([n \in 0..0 |-> selection], 0)
      OBVIOUS
    <3> QED BY <2>2, <3>1
  <2>3. CASE m # 0
    <3>1. m - 1 \in Nat /\ m - 1 \notin Bad
      BY <2>1, <2>3
    <3>2. PICK f : Runs(f, m - 1)
      BY <3>1
    <3> DEFINE h == [n \in 0..m |-> IF n < m THEN f[n] ELSE Step(f[m - 1], m)]
    <3>3. \A n \in 0..m : h[n] = IF n = 0 THEN selection ELSE Step(h[n - 1], n)
      BY <2>3, <3>1, <3>2
    <3>4. h = [n \in 0..m |-> h[n]]
      OBVIOUS
    <3> HIDE DEF h
    <3>5. Runs(h, m)
      BY <3>3, <3>4
    <3> QED BY <2>1, <3>5
  <2> QED BY <2>2, <2>3
<1>6. sel[0] = selection /\ \A n \in 1..Len(rows) : sel[n] = Step(sel[n - 1], n)
  <2>1. Runs(sel, Len(rows))
    BY <1>5
  <2> HIDE DEF sel
  <2> QED BY <1>1, <2>1
<1> HIDE DEF sel
<1>7. ASSUME NEW j \in 0..Len(rows), NEW k \in j..Len(rows) PROVE Reaches(R, d, sel[j], sel[k])
  <2>1. \A n \in 1..Len(rows) : Reaches(R, d, sel[n - 1], sel[n])
    BY <1>2, <1>6
  <2> QED BY <1>1, <2>1, StepsReach
<1>8. Reaches(R, d, selection, sel[Len(rows)])
  <2>1. 0 \in 0..Len(rows) /\ Len(rows) \in 0..Len(rows)
    BY <1>1
  <2> QED BY <1>6, <1>7, <2>1
<1>9. ASSUME NEW q \in R, q.name \in r.slaves
      PROVE  \E mid : /\ Reaches(R, d, selection, mid)
                      /\ Reaches(R, d, Selected(mid, q, d), sel[Len(rows)])
  <2>1. PICK n \in 1..Len(rows) : q = rows[n]
    BY <1>1
  <2>2. n - 1 \in 0..Len(rows) /\ n \in 0..Len(rows) /\ Len(rows) \in n..Len(rows) /\ n - 1 \in 0..Len(rows)
        /\ 0 \in 0..Len(rows)
    BY <1>1, <2>1
  <2>3. sel[n] = Selected(sel[n - 1], q, d)
    BY <1>4, <1>6, <1>9, <2>1
  <2>4. Reaches(R, d, selection, sel[n - 1]) /\ Reaches(R, d, sel[n], sel[Len(rows)])
    BY <1>6, <1>7, <2>2
  <2> QED BY <2>3, <2>4
<1> QED BY <1>3, <1>8, <1>9 DEF R

\* A row with its slaves,
LEMMA PreparedReached ==
    ASSUME NEW rows, rows \in Seq(Range(rows)), NEW r \in Range(rows), NEW d,
           NEW x, NEW y, Reaches(Range(rows), d, x, y)
    PROVE  Reaches(Range(rows), d, x, Prepared(rows, y, r, d))
<1>1. Reaches(Range(rows), d, y, SlavesPrepared(rows, y, r, d))
  BY SlavesReached
<1>2. Reaches(Range(rows), d, x, SlavesPrepared(rows, y, r, d))
  BY <1>1, ReachesOn
<1> QED BY <1>2, SelectedReached DEF Prepared

\* and all rows, one after the other.
LEMMA DirectionReached ==
    ASSUME NEW rows, rows \in Seq(Range(rows)), NEW d, NEW selection
    PROVE  LET R == Range(rows) last == PrepareDirection(rows, selection, d)
           IN  /\ Reaches(R, d, selection, last)
               /\ \A n \in 1..Len(rows) :
                    \E mid : /\ Reaches(R, d, selection, mid)
                             /\ Reaches(R, d, Prepared(rows, mid, rows[n], d), last)
               /\ \A i \in 1..Len(rows), n \in 1..Len(rows) : i < n =>
                    \E x, y : /\ Reaches(R, d, selection, x)
                              /\ Reaches(R, d, Prepared(rows, x, rows[i], d), y)
                              /\ Reaches(R, d, Prepared(rows, y, rows[n], d), last)
<1> DEFINE R == Range(rows)
           Step(x, n) == Prepared(rows, x, rows[n], d)
           Runs(f, m) == f = [n \in 0..m |-> IF n = 0 THEN selection ELSE Step(f[n - 1], n)]
           sel == CHOOSE f : Runs(f, Len(rows))
<1>1. Len(rows) \in Nat /\ \A n \in 1..Len(rows) : rows[n] \in R
  BY DEF Range
<1>2. ASSUME NEW n \in 1..Len(rows), NEW x PROVE Reaches(R, d, x, Step(x, n))
  <2>1. Reaches(R, d, x, x)
    BY DEF Reaches
  <2> QED BY <1>1, <2>1, PreparedReached
<1>3. PrepareDirection(rows, selection, d) = sel[Len(rows)]
  BY DEF PrepareDirection
<1>4. \A n, x : Step(x, n) = Prepared(rows, x, rows[n], d)
  OBVIOUS
<1> HIDE DEF Step, R
<1>5. \E f : Runs(f, Len(rows))
  <2> DEFINE Bad == {m \in Nat : ~ \E f : Runs(f, m)}
  <2> SUFFICES ASSUME Bad # {} PROVE FALSE
    BY <1>1
  <2>1. PICK m \in Bad : \A y \in Bad : m <= y
    <3>1. Bad \in SUBSET Nat
      OBVIOUS
    <3> HIDE DEF Bad
    <3> QED BY <3>1, LeastOf
  <2>2. CASE m = 0
    <3>1. Runs([n \in 0..0 |-> selection], 0)
      OBVIOUS
    <3> QED BY <2>2, <3>1
  <2>3. CASE m # 0
    <3>1. m - 1 \in Nat /\ m - 1 \notin Bad
      BY <2>1, <2>3
    <3>2. PICK f : Runs(f, m - 1)
      BY <3>1
    <3> DEFINE h == [n \in 0..m |-> IF n < m THEN f[n] ELSE Step(f[m - 1], m)]
    <3>3. \A n \in 0..m : h[n] = IF n = 0 THEN selection ELSE Step(h[n - 1], n)
      BY <2>3, <3>1, <3>2
    <3>4. h = [n \in 0..m |-> h[n]]
      OBVIOUS
    <3> HIDE DEF h
    <3>5. Runs(h, m)
      BY <3>3, <3>4
    <3> QED BY <2>1, <3>5
  <2> QED BY <2>2, <2>3
<1>6. sel[0] = selection /\ \A n \in 1..Len(rows) : sel[n] = Step(sel[n - 1], n)
  <2>1. Runs(sel, Len(rows))
    BY <1>5
  <2> HIDE DEF sel
  <2> QED BY <1>1, <2>1
<1> HIDE DEF sel
<1>7. ASSUME NEW j \in 0..Len(rows), NEW k \in j..Len(rows) PROVE Reaches(R, d, sel[j], sel[k])
  <2>1. \A n \in 1..Len(rows) : Reaches(R, d, sel[n - 1], sel[n])
    BY <1>2, <1>6
  <2> QED BY <1>1, <2>1, StepsReach
<1>8. ASSUME NEW n \in 1..Len(rows)
      PROVE  /\ Reaches(R, d, selection, sel[n - 1])
             /\ Reaches(R, d, Prepared(rows, sel[n - 1], rows[n], d), sel[Len(rows)])
  <2>1. 0 \in 0..Len(rows) /\ n - 1 \in 0..Len(rows) /\ n \in 0..Len(rows) /\ Len(rows) \in n..Len(rows)
    BY <1>1
  <2> QED BY <1>4, <1>6, <1>7, <2>1
<1>9. ASSUME NEW i \in 1..Len(rows), NEW n \in 1..Len(rows), i < n
      PROVE  Reaches(R, d, Prepared(rows, sel[i - 1], rows[i], d), sel[n - 1])
  <2>1. i \in 0..Len(rows) /\ n - 1 \in i..Len(rows)
    BY <1>1, <1>9
  <2> QED BY <1>4, <1>6, <1>7, <2>1
<1>10. Reaches(R, d, selection, sel[Len(rows)])
  <2>1. 0 \in 0..Len(rows) /\ Len(rows) \in 0..Len(rows)
    BY <1>1
  <2> QED BY <1>6, <1>7, <2>1
<1>11. \A n \in 1..Len(rows) :
         \E mid : /\ Reaches(R, d, selection, mid)
                  /\ Reaches(R, d, Prepared(rows, mid, rows[n], d), sel[Len(rows)])
  BY <1>8
<1>12. \A i \in 1..Len(rows), n \in 1..Len(rows) : i < n =>
         \E x, y : /\ Reaches(R, d, selection, x)
                   /\ Reaches(R, d, Prepared(rows, x, rows[i], d), y)
                   /\ Reaches(R, d, Prepared(rows, y, rows[n], d), sel[Len(rows)])
  BY <1>8, <1>9
<1> QED BY <1>3, <1>10, <1>11, <1>12 DEF R


-----------------------------------------------------------------------------
(* What a selection is like, and that a row keeps it so.                   *)

Busy(will) == will["in"] \cup will["out"]

\* The routes will be in use without a rival and with the conditions they ask
\* for, and those that read their rows are in a mode of theirs and on a device.
Permitted(r) == (\A need \in r.rule.needs : Met(need)) /\ r.rule.bars \cap on = {}
InRow(p) == \E e \in Dirs : HwMode \in p.modes[e] /\ DevicesOf(e) \cap p.devices[e] # {}
ReadRows == ReadsItsRow \cup {"compressed"}
WillOK(R, will) ==
    /\ will \in [Dirs -> SUBSET Names(R)]
    /\ \A p, q \in R : p.name \in Busy(will) /\ q.name \in Busy(will) => q.name \notin p.rivals
    /\ \A p \in R : p.name \in Busy(will) => Permitted(p)
    /\ \A p \in R : p.name \in Busy(will) /\ p.rule.special \in ReadRows => InRow(p)

\* A route that carries a stream is one for streams, and fits its row in that
\* direction.
Fits(r, d) ==
    /\ HwMode \in r.modes[d] /\ DevicesOf(d) \cap r.devices[d] # {}
    /\ r.rule.special \in {"LpeCentric", "MediaLpeCentric"} => LpeAllowed(r, d)
Carries(R, sel) ==
    \A d \in Dirs :
        /\ \A r \in R : r.kind = "stream" /\ r.name \in sel.will[d] => Fits(r, d)
        /\ \A c \in sel.carried[d] :
             c[2] \in sel.will[d] /\ \E r \in R : r.kind = "stream" /\ r.name = c[2]
Good(R) == {sel \in Selections(R) : WillOK(R, sel.will) /\ Carries(R, sel)}

\* What the lemmas need to know of the rows.
Table(R) == RowsAreGuarded(R) /\ CodecsAreWatched(R) /\ StreamsAreApart(R)

LEMMA StreamRows ==
    ASSUME NEW R, Table(R), NEW r \in R, r.kind = "stream"
    PROVE  r.rule.special \in ReadsItsRow /\ r.rule.input = "own" /\ r.slaves = {}
BY DEF Table, StreamsAreApart

\* A row that reads its row and is applicable is in it, or it is in use already.
LEMMA ApplicableFits ==
    ASSUME NEW R, Table(R), NEW r \in R, NEW d \in Dirs, NEW will,
           Applicable(will, r, d), r.rule.special \in ReadRows
    PROVE  /\ r.name \in Busy(will) \/ (~FollowsOutput(r, d) /\ BaseApplicable(will, r, d))
           /\ r.kind = "stream" => Fits(r, d)
<1>1. CASE FollowsOutput(r, d)
  <2>1. r.kind # "stream"
    BY <1>1, StreamRows DEF FollowsOutput
  <2> QED BY <1>1, <2>1 DEF Applicable, Busy
<1>2. CASE ~FollowsOutput(r, d)
  <2>1. SpecialApplicable(will, r, d)
    BY <1>2 DEF Applicable
  <2>2. BaseApplicable(will, r, d)
    BY <2>1 DEF SpecialApplicable, ReadRows, ReadsItsRow
  <2>3. r.rule.special \in {"LpeCentric", "MediaLpeCentric"} => LpeAllowed(r, d)
    BY <2>1 DEF SpecialApplicable
  <2> QED BY <1>2, <2>2, <2>3 DEF BaseApplicable, Fits
<1> QED BY <1>1, <1>2

\* A row that is applicable has no rival, or it is in use already.
LEMMA ApplicableIsFree ==
    ASSUME NEW R, Table(R), NEW r \in R, NEW d \in Dirs, NEW will,
           Applicable(will, r, d)
    PROVE  /\ Permitted(r)
           /\ \/ r.name \in Busy(will)
              \/ r.rivals = {}
              \/ r.rivals \cap Busy(will) = {}
           /\ r.name \notin Busy(will) /\ r.rule.special \in ReadRows => InRow(r)
<1>1. Permitted(r)
  BY DEF Applicable, Allowed, Permitted
<1>2. r.rivals # {} => r.rule.special \in ReadRows
  BY DEF Table, RowsAreGuarded, ReadRows, ReadsItsRow
<1>3. CASE r.name \notin Busy(will) /\ r.rule.special \in ReadRows
  <2>1. BaseApplicable(will, r, d)
    BY <1>3, ApplicableFits
  <2> QED BY <1>1, <2>1 DEF BaseApplicable, Blocked, Busy, InRow
<1> QED BY <1>1, <1>2, <1>3

\* Adding an applicable row to the selection keeps it in order.
LEMMA UsedKeeps ==
    ASSUME NEW R, Table(R), NEW r \in R, NEW d \in Dirs, NEW will, NEW new,
           WillOK(R, will), Applicable(will, r, d),
           new \in [Dirs -> SUBSET Names(R)], new[d] = will[d] \cup {r.name},
           \A e \in Dirs \ {d} : new[e] = will[e]
    PROVE  WillOK(R, new)
<1>1. Busy(new) = Busy(will) \cup {r.name}
  BY DEF Busy, Dirs
<1>2. ASSUME NEW p \in R, NEW q \in R, p.name \in Busy(new), q.name \in Busy(new)
      PROVE  q.name \notin p.rivals
  <2>1. CASE p.name \in Busy(will) /\ q.name \in Busy(will)
    BY <2>1 DEF WillOK
  <2>2. CASE p.name = r.name /\ q.name = r.name
    BY <2>2 DEF Table, RowsAreGuarded
  <2>3. CASE p.name = r.name /\ q.name \in Busy(will) /\ r.name \notin Busy(will)
    <3>1. p = r
      BY <2>3 DEF Table, RowsAreGuarded
    <3> QED BY <2>3, <3>1, ApplicableIsFree
  <2>4. CASE q.name = r.name /\ p.name \in Busy(will) /\ r.name \notin Busy(will)
    <3>1. q = r
      BY <2>4 DEF Table, RowsAreGuarded
    <3>2. q.name \in p.rivals => p.name \in r.rivals
      BY <3>1 DEF Table, RowsAreGuarded
    <3> QED BY <2>4, <3>2, ApplicableIsFree
  <2> QED BY <1>1, <1>2, <2>1, <2>2, <2>3, <2>4
<1>3. ASSUME NEW p \in R, p.name \in Busy(new)
      PROVE  Permitted(p) /\ (p.rule.special \in ReadRows => InRow(p))
  <2>1. CASE p.name \in Busy(will)
    BY <2>1 DEF WillOK
  <2>2. CASE p.name = r.name /\ r.name \notin Busy(will)
    <3>1. p = r
      BY <2>2 DEF Table, RowsAreGuarded
    <3> QED BY <2>2, <3>1, ApplicableIsFree
  <2> QED BY <1>1, <1>3, <2>1, <2>2
<1> QED BY <1>2, <1>3 DEF WillOK

\* So does one row, which leaves the selection or is added to it.
LEMMA GoodIsClosed ==
    ASSUME NEW R, Table(R), NEW d \in Dirs
    PROVE  Closed(Good(R), R, d)
<1> SUFFICES ASSUME NEW sel \in Good(R), NEW r \in R
             PROVE  Selected(sel, r, d) \in Good(R)
  BY DEF Closed
<1> DEFINE new == Selected(sel, r, d)
<1>1. sel \in Selections(R) /\ WillOK(R, sel.will) /\ Carries(R, sel)
  BY DEF Good
<1>2. /\ new \in Selections(R)
      /\ \A e \in Dirs \ {d} : new.will[e] = sel.will[e] /\ new.carried[e] = sel.carried[e]
      /\ \/ new = sel
         \/ /\ r.kind # "stream" /\ Applicable(sel.will, r, d)
            /\ new.will[d] = sel.will[d] \cup {r.name} /\ new.carried[d] = sel.carried[d]
         \/ /\ r.kind = "stream" /\ new.will[d] = sel.will[d] \cup {r.name}
            /\ \E s \in Free(sel, d) : /\ Takes(sel.will, r, d, s)
                                       /\ new.carried[d] = sel.carried[d] \cup {<<s, r.name>>}
  BY <1>1, SelectedIs
<1> HIDE DEF new
<1>3. CASE new = sel
  BY <1>3 DEF new
<1>4. CASE new # sel
  <2>1. Applicable(sel.will, r, d) /\ new.will[d] = sel.will[d] \cup {r.name}
    BY <1>2, <1>4 DEF Takes
  <2>2. new.will \in [Dirs -> SUBSET Names(R)]
    BY <1>2 DEF Selections
  <2>3. WillOK(R, new.will)
    BY <1>1, <1>2, <2>1, <2>2, UsedKeeps
  <2>4. ASSUME NEW e \in Dirs, NEW q \in R, q.kind = "stream", q.name \in new.will[e]
        PROVE  Fits(q, e)
    <3>1. CASE q.name \in sel.will[e]
      BY <1>1, <2>4, <3>1 DEF Carries
    <3>2. CASE q.name \notin sel.will[e]
      <4>1. e = d /\ q.name = r.name
        BY <1>2, <2>1, <2>4, <3>2
      <4>2. q = r
        BY <4>1 DEF Table, RowsAreGuarded
      <4>3. r.rule.special \in ReadRows
        BY <2>4, <4>2, StreamRows DEF ReadRows
      <4> QED BY <2>1, <2>4, <4>1, <4>2, <4>3, ApplicableFits
    <3> QED BY <3>1, <3>2
  <2>5. ASSUME NEW e \in Dirs, NEW c \in new.carried[e]
        PROVE  c[2] \in new.will[e] /\ \E q \in R : q.kind = "stream" /\ q.name = c[2]
    <3>1. CASE c \in sel.carried[e]
      <4>1. c[2] \in sel.will[e] /\ \E q \in R : q.kind = "stream" /\ q.name = c[2]
        BY <1>1, <3>1 DEF Carries
      <4> QED BY <1>2, <2>1, <4>1
    <3>2. CASE c \notin sel.carried[e]
      <4>1. e = d /\ r.kind = "stream" /\ \E s : c = <<s, r.name>>
        BY <1>2, <1>4, <2>5, <3>2
      <4>2. c[2] = r.name
        BY <4>1
      <4> QED BY <2>1, <4>1, <4>2
    <3> QED BY <3>1, <3>2
  <2>6. Carries(R, new)
    BY <2>4, <2>5 DEF Carries
  <2> QED BY <1>2, <2>3, <2>6 DEF Good, new
<1> QED BY <1>3, <1>4

\* One direction leaves the other as it is, and takes nothing back.
Beyond(R, d, sel) ==
    {x \in Selections(R) :
        /\ sel.will[d] \subseteq x.will[d]
        /\ \A e \in Dirs \ {d} : x.will[e] = sel.will[e] /\ x.carried[e] = sel.carried[e]}

LEMMA ReachedIsGood ==
    ASSUME NEW R, Table(R), NEW d \in Dirs, NEW x \in Good(R), NEW y, Reaches(R, d, x, y)
    PROVE  y \in Good(R) /\ y \in Beyond(R, d, x)
<1>1. y \in Good(R)
  BY GoodIsClosed DEF Reaches
<1>2. Closed(Beyond(R, d, x), R, d)
  <2> SUFFICES ASSUME NEW z \in Beyond(R, d, x), NEW r \in R
               PROVE  Selected(z, r, d) \in Beyond(R, d, x)
    BY DEF Closed
  <2> DEFINE new == Selected(z, r, d)
  <2>1. z \in Selections(R)
    BY DEF Beyond
  <2>2. /\ new \in Selections(R) /\ z.will[d] \subseteq new.will[d]
        /\ \A e \in Dirs \ {d} : new.will[e] = z.will[e] /\ new.carried[e] = z.carried[e]
    BY <2>1, SelectedIs
  <2> HIDE DEF new
  <2>3. new \in Beyond(R, d, x)
    BY <2>2 DEF Beyond
  <2> QED BY <2>3 DEF new
<1>3. x \in Beyond(R, d, x)
  BY DEF Good, Beyond
<1> QED BY <1>1, <1>2, <1>3 DEF Reaches

\* A stream route that is declined stays so: what is in use grows, and the
\* streams without a route become fewer.
Declined(R, r, d) ==
    {x \in Selections(R) : r.name \notin x.will[d] /\ \A s \in Free(x, d) : ~Takes(x.will, r, d, s)}

LEMMA DeclinedIsClosed ==
    ASSUME NEW R, Table(R), NEW d \in Dirs, NEW r \in R, r.kind = "stream"
    PROVE  Closed(Declined(R, r, d), R, d)
<1> SUFFICES ASSUME NEW x \in Declined(R, r, d), NEW q \in R
             PROVE  Selected(x, q, d) \in Declined(R, r, d)
  BY DEF Closed
<1> DEFINE new == Selected(x, q, d)
<1>1. /\ x \in Selections(R) /\ r.name \notin x.will[d]
      /\ \A s \in Free(x, d) : ~Takes(x.will, r, d, s)
  BY DEF Declined
<1>2. CASE q = r
  <2>1. new = x
    BY <1>1, <1>2, SelectedIs
  <2> QED BY <2>1
<1>3. CASE q # r
  <2>1. q.name # r.name
    BY <1>3 DEF Table, RowsAreGuarded
  <2>2. /\ new \in Selections(R)
        /\ \A e \in Dirs : x.will[e] \subseteq new.will[e]
        /\ new.will[d] \subseteq x.will[d] \cup {q.name} /\ x.carried[d] \subseteq new.carried[d]
    BY <1>1, SelectedIs
  <2> HIDE DEF new
  <2>3. ASSUME NEW s \in Free(new, d), Takes(new.will, r, d, s) PROVE FALSE
    <3>1. s \in Free(x, d)
      BY <2>2 DEF Free
    <3>2. r.rule.special \in ReadsItsRow /\ ~FollowsOutput(r, d)
      BY StreamRows DEF FollowsOutput
    <3>3. Allowed(r, d) /\ SpecialApplicable(new.will, r, d) /\ s \in r.masks[d]
      BY <2>3, <3>2 DEF Takes, Applicable
    <3>4. BaseApplicable(new.will, r, d)
      BY <3>2, <3>3 DEF SpecialApplicable, ReadsItsRow
    <3>5. BaseApplicable(x.will, r, d)
      BY <1>1, <2>2, <3>4 DEF BaseApplicable, Blocked, Dirs
    <3>6. SpecialApplicable(x.will, r, d)
      BY <3>2, <3>3, <3>5 DEF SpecialApplicable, ReadsItsRow
    <3>7. Takes(x.will, r, d, s)
      BY <3>2, <3>3, <3>6 DEF Takes, Applicable
    <3> QED BY <1>1, <3>1, <3>7
  <2>4. new \in Declined(R, r, d)
    BY <1>1, <2>1, <2>2, <2>3 DEF Declined
  <2> QED BY <2>4 DEF new
<1> QED BY <1>2, <1>3

-----------------------------------------------------------------------------
(* What is in use after all rows.                                          *)

\* Will the row be added, whatever else the direction has in use by then?
Added(R, d, sel, r) ==
    \A x \in Good(R) \cap Beyond(R, d, sel) : Applicable(x.will, r, d) \/ r.name \in x.will[d]

LEMMA SelectedAdds ==
    ASSUME NEW R, Table(R), NEW d \in Dirs, NEW sel \in Good(R), NEW r \in R,
           r.kind # "stream", Added(R, d, sel, r), NEW x \in Good(R) \cap Beyond(R, d, sel)
    PROVE  r.name \in Selected(x, r, d).will[d]
<1>1. x \in Selections(R) /\ (Applicable(x.will, r, d) \/ r.name \in x.will[d])
  BY DEF Added, Good
<1> QED BY <1>1, SelectedIs

LEMMA ReachedBeyond ==
    ASSUME NEW R, Table(R), NEW d \in Dirs, NEW sel \in Good(R),
           NEW x \in Good(R) \cap Beyond(R, d, sel), NEW y, Reaches(R, d, x, y)
    PROVE  y \in Good(R) \cap Beyond(R, d, sel) /\ x.will[d] \subseteq y.will[d]
<1>1. y \in Good(R) /\ y \in Beyond(R, d, x)
  BY ReachedIsGood
<1> QED BY <1>1 DEF Beyond

\* A row without slaves,
LEMMA DirectionAdds ==
    ASSUME NEW rows, rows \in Seq(Range(rows)), Table(Range(rows)), NEW d \in Dirs,
           NEW sel \in Good(Range(rows)), NEW r \in Range(rows),
           r.kind # "stream", r.slaves = {}, Added(Range(rows), d, sel, r)
    PROVE  r.name \in PrepareDirection(rows, sel, d).will[d]
<1> DEFINE R == Range(rows)
           last == PrepareDirection(rows, sel, d)
<1>1. PICK n \in 1..Len(rows) : r = rows[n]
  BY DEF Range
<1>2. PICK x : Reaches(R, d, sel, x) /\ Reaches(R, d, Prepared(rows, x, r, d), last)
  BY <1>1, DirectionReached
<1>3. sel \in Good(R) \cap Beyond(R, d, sel)
  BY DEF Good, Beyond
<1>4. x \in Good(R) \cap Beyond(R, d, sel)
  BY <1>2, <1>3, ReachedBeyond
<1>5. Prepared(rows, x, r, d) = Selected(x, r, d) /\ r.name \in Selected(x, r, d).will[d]
  BY <1>4, SelectedAdds DEF Prepared
<1>6. Selected(x, r, d) \in Good(R) \cap Beyond(R, d, sel)
  <2>1. Reaches(R, d, x, Selected(x, r, d))
    BY DEF Reaches, Closed
  <2> QED BY <1>4, <2>1, ReachedBeyond
<1> QED BY <1>2, <1>5, <1>6, ReachedBeyond

\* a row one of whose slaves is added with it,
LEMMA DirectionAddsMaster ==
    ASSUME NEW rows, rows \in Seq(Range(rows)), Table(Range(rows)), NEW d \in Dirs,
           NEW sel \in Good(Range(rows)), NEW r \in Range(rows), NEW q \in Range(rows),
           r.kind # "stream", q.kind # "stream", r.name \in q.slaves,
           Added(Range(rows), d, sel, r), Added(Range(rows), d, sel, q)
    PROVE  q.name \in PrepareDirection(rows, sel, d).will[d]
<1> DEFINE R == Range(rows)
           last == PrepareDirection(rows, sel, d)
<1>1. PICK n \in 1..Len(rows) : q = rows[n]
  BY DEF Range
<1>2. PICK x : Reaches(R, d, sel, x) /\ Reaches(R, d, Prepared(rows, x, q, d), last)
  BY <1>1, DirectionReached
<1>3. sel \in Good(R) \cap Beyond(R, d, sel)
  BY DEF Good, Beyond
<1>4. x \in Good(R) \cap Beyond(R, d, sel)
  BY <1>2, <1>3, ReachedBeyond
<1> DEFINE with == SlavesPrepared(rows, x, q, d)
<1>5. PICK y : Reaches(R, d, x, y) /\ Reaches(R, d, Selected(y, r, d), with)
  BY SlavesReached
<1>6. y \in Good(R) \cap Beyond(R, d, sel)
  BY <1>4, <1>5, ReachedBeyond
<1>7. \A z, p : z \in Good(R) \cap Beyond(R, d, sel) /\ p \in R =>
        Selected(z, p, d) \in Good(R) \cap Beyond(R, d, sel)
  <2>1. \A z, p : p \in R => Reaches(R, d, z, Selected(z, p, d))
    BY DEF Reaches, Closed
  <2> QED BY <2>1, ReachedBeyond
<1>8. with \in Good(R) \cap Beyond(R, d, sel) /\ r.name \in with.will[d]
  <2>1. r.name \in Selected(y, r, d).will[d]
    BY <1>6, SelectedAdds
  <2>2. Selected(y, r, d) \in Good(R) \cap Beyond(R, d, sel)
    BY <1>6, <1>7
  <2> HIDE DEF with
  <2> QED BY <1>5, <2>1, <2>2, ReachedBeyond
<1>9. Prepared(rows, x, q, d) = Selected(with, q, d)
  BY <1>8 DEF Prepared
<1> HIDE DEF with
<1>10. q.name \in Selected(with, q, d).will[d]
  BY <1>8, SelectedAdds
<1>11. Selected(with, q, d) \in Good(R) \cap Beyond(R, d, sel)
  BY <1>7, <1>8
<1> QED BY <1>2, <1>9, <1>10, <1>11, ReachedBeyond

\* and the back end of a stream route that was taken before it.
LEMMA DirectionAddsBackEnd ==
    ASSUME NEW rows, rows \in Seq(Range(rows)), Table(Range(rows)), NEW d \in Dirs,
           NEW sel \in Good(Range(rows)), NEW i \in 1..Len(rows), NEW j \in 1..Len(rows), i < j,
           rows[i].kind = "stream", rows[j].kind # "stream", rows[i].name \in rows[j].slaves,
           \A x \in Good(Range(rows)) \cap Beyond(Range(rows), d, sel) :
               rows[i].name \in x.will[d] =>
                   Applicable(x.will, rows[j], d) \/ rows[j].name \in x.will[d],
           rows[i].name \in PrepareDirection(rows, sel, d).will[d]
    PROVE  rows[j].name \in PrepareDirection(rows, sel, d).will[d]
<1> DEFINE R == Range(rows)
           last == PrepareDirection(rows, sel, d)
           r == rows[i]
           q == rows[j]
<1>1. r \in R /\ q \in R
  BY DEF Range
<1>2. PICK x, y : /\ Reaches(R, d, sel, x)
                  /\ Reaches(R, d, Prepared(rows, x, r, d), y)
                  /\ Reaches(R, d, Prepared(rows, y, q, d), last)
  BY DirectionReached
<1>3. sel \in Good(R) \cap Beyond(R, d, sel)
  BY DEF Good, Beyond
<1>4. x \in Good(R) \cap Beyond(R, d, sel)
  BY <1>2, <1>3, ReachedBeyond
<1>5. Prepared(rows, x, r, d) = Selected(x, r, d)
  BY <1>1, StreamRows DEF Prepared
<1>6. \A z, p : z \in Good(R) \cap Beyond(R, d, sel) /\ p \in R =>
        Selected(z, p, d) \in Good(R) \cap Beyond(R, d, sel)
  <2>1. \A z, p : p \in R => Reaches(R, d, z, Selected(z, p, d))
    BY DEF Reaches, Closed
  <2> QED BY <2>1, ReachedBeyond
<1>7. r.name \in Selected(x, r, d).will[d]
  <2> SUFFICES ASSUME r.name \notin Selected(x, r, d).will[d] PROVE FALSE
    OBVIOUS
  <2>1. x \in Selections(R)
    BY <1>4 DEF Good
  <2>2. Selected(x, r, d) = x /\ \A s \in Free(x, d) : ~Takes(x.will, r, d, s)
    BY <1>1, <2>1, SelectedIs
  <2>3. x \in Declined(R, r, d)
    BY <2>1, <2>2 DEF Declined
  <2>4. Reaches(R, d, x, y)
    BY <1>2, <1>5, <2>2
  <2>5. Reaches(R, d, x, Prepared(rows, y, q, d))
    BY <1>1, <2>4, PreparedReached
  <2>6. Reaches(R, d, x, last)
    BY <1>2, <2>5, ReachesOn
  <2>7. last \in Declined(R, r, d)
    BY <1>1, <2>3, <2>6, DeclinedIsClosed DEF Reaches
  <2> QED BY <2>7 DEF Declined
<1>8. y \in Good(R) \cap Beyond(R, d, sel) /\ r.name \in y.will[d]
  BY <1>1, <1>2, <1>4, <1>5, <1>6, <1>7, ReachedBeyond
<1> DEFINE with == SlavesPrepared(rows, y, q, d)
<1>9. with \in Good(R) \cap Beyond(R, d, sel) /\ r.name \in with.will[d]
  <2>1. Reaches(R, d, y, with)
    BY SlavesReached
  <2> HIDE DEF with
  <2> QED BY <1>8, <2>1, ReachedBeyond
<1>10. Prepared(rows, y, q, d) = Selected(with, q, d)
  BY <1>9 DEF Prepared
<1> HIDE DEF with
<1>11. q.name \in Selected(with, q, d).will[d]
  <2>1. with \in Selections(R) /\ (Applicable(with.will, q, d) \/ q.name \in with.will[d])
    BY <1>9 DEF Good
  <2> QED BY <1>1, <2>1, SelectedIs
<1>12. Selected(with, q, d) \in Good(R) \cap Beyond(R, d, sel)
  BY <1>1, <1>6, <1>9
<1> QED BY <1>2, <1>10, <1>11, <1>12, ReachedBeyond

\* The two directions, one after the other.
LEMMA RoutingIs ==
    ASSUME NEW rows, rows \in Seq(Range(rows)), Table(Range(rows)), NEW sel \in PrepareRouting(rows)
    PROVE  LET R == Range(rows) half == PrepareDirection(rows, NoSelection, "out")
           IN  /\ NoSelection \in Good(R) /\ half \in Good(R) /\ sel \in Good(R)
               /\ sel = PrepareDirection(rows, half, "in")
               /\ sel.will["out"] = half.will["out"] /\ sel.carried["out"] = half.carried["out"]
<1> DEFINE R == Range(rows)
           half == PrepareDirection(rows, NoSelection, "out")
<1>1. sel = PrepareDirection(rows, half, "in")
  BY DEF PrepareRouting, PrepareBoth
<1>2. NoSelection \in Good(R)
  <2>1. /\ NoSelection \in Selections(R)
        /\ \A d \in Dirs : NoSelection.will[d] = {} /\ NoSelection.carried[d] = {}
        /\ Busy(NoSelection.will) = {} /\ NoSelection.will \in [Dirs -> SUBSET Names(R)]
    BY DEF NoSelection, Same, Both, Dirs, Selections, Busy
  <2> QED BY <2>1 DEF Good, WillOK, Carries
<1>3. half \in Good(R)
  <2>1. Reaches(R, "out", NoSelection, half)
    BY DirectionReached
  <2> QED BY <1>2, <2>1, ReachedIsGood DEF Dirs
<1>4. sel \in Good(R) /\ sel \in Beyond(R, "in", half)
  <2>1. Reaches(R, "in", half, sel)
    BY <1>1, DirectionReached
  <2> HIDE DEF half
  <2> QED BY <1>3, <2>1, ReachedIsGood DEF Dirs
<1>5. sel.will["out"] = half.will["out"] /\ sel.carried["out"] = half.carried["out"]
  <2> HIDE DEF half
  <2> QED BY <1>4 DEF Beyond, Dirs
<1> QED BY <1>1, <1>2, <1>3, <1>4, <1>5

-----------------------------------------------------------------------------
(* The table of the platform, and what the platform state selects in it.   *)

Rows == Range(AllPlatforms[board])

\* The table of the platform is one of those that were evaluated.
LEMMA TheTable ==
    ASSUME board \in Boards
    PROVE  /\ AllPlatforms[board] \in Seq(Rows) /\ Table(Rows)
           /\ StreamsAreBacked(AllPlatforms[board])
           /\ ModemEmbedded => CallsAreRouted(Rows)
BY TablesAssumption DEF Rows, Table, ModemEmbedded

LEMMA MastersAre ==
    ASSUME board \in Boards
    PROVE  \A name, master : <<name, master>> \in Masters[board]
                              <=> \E q \in Rows : name \in q.slaves /\ master = q.name
<1>1. Masters[board] = MastersOn(AllPlatforms[board])
  BY TablesAssumption
<1> QED BY <1>1 DEF MastersOn, Rows

LEMMA ConditionsAreRead ==
    ASSUME board \in Boards, NEW r \in Rows
    PROVE  r.rule.needs \cup r.rule.bars \subseteq Conditions[board]
<1>1. Conditions[board] = ReadsOn(AllPlatforms[board])
  BY TablesAssumption
<1>2. r.rule.needs \cup r.rule.bars \subseteq Reads(r.rule)
  BY DEF Reads
<1> QED BY <1>1, <1>2 DEF ReadsOn, Rows

\* The devices of a direction are finitely many, and in a call there is one.
DevicesOK == output \subseteq OutMm \cup OutSco /\ input.devices \subseteq InAll

LEMMA DevicesAreFinite ==
    ASSUME DevicesOK, NEW d \in Dirs
    PROVE  IsFiniteSet(DevicesOf(d))
<1>1. ASSUME NEW w, NEW x, NEW y, NEW z PROVE IsFiniteSet({w, x, y, z})
  <2>1. \A S, e : IsFiniteSet(S) => IsFiniteSet(S \cup {e})
    BY FS_AddElement
  <2>2. IsFiniteSet({w})
    BY FS_Singleton
  <2>3. IsFiniteSet({w} \cup {x})
    BY <2>1, <2>2, Zenon
  <2>4. IsFiniteSet(({w} \cup {x}) \cup {y})
    BY <2>1, <2>3, Zenon
  <2>5. IsFiniteSet((({w} \cup {x}) \cup {y}) \cup {z})
    BY <2>1, <2>4, Zenon
  <2>6. (({w} \cup {x}) \cup {y}) \cup {z} = {w, x, y, z}
    OBVIOUS
  <2> QED BY <2>5, <2>6
<1>2. IsFiniteSet(OutMm) /\ IsFiniteSet(InBuiltin)
  BY <1>1 DEF OutMm, InBuiltin
<1>3. IsFiniteSet(OutMm \cup OutSco) /\ IsFiniteSet(InAll)
  BY <1>2, FS_AddElement DEF OutSco, InSco, InAll
<1>4. DevicesOf(d) \subseteq OutMm \cup OutSco \/ DevicesOf(d) \subseteq InAll
  BY DEF DevicesOK, DevicesOf
<1> QED BY <1>3, <1>4, FS_Subset

LEMMA AtMostOne ==
    ASSUME NEW S, IsFiniteSet(S), Cardinality(S) <= 1, NEW x \in S, NEW y \in S
    PROVE  x = y
<1> SUFFICES ASSUME x # y PROVE FALSE
  OBVIOUS
<1>1. {x, y} = {x} \cup {y} /\ y \notin {x}
  OBVIOUS
<1>2. IsFiniteSet({x}) /\ Cardinality({x}) = 1
  BY FS_Singleton
<1>3. \A T, e : IsFiniteSet(T) /\ e \notin T => Cardinality(T \cup {e}) = Cardinality(T) + 1
  BY FS_AddElement
<1>4. Cardinality({x} \cup {y}) = Cardinality({x}) + 1
  BY <1>1, <1>2, <1>3, Zenon
<1>5. Cardinality({x, y}) = 2
  BY <1>1, <1>2, <1>4
<1>6. Cardinality({x, y}) <= Cardinality(S) /\ Cardinality(S) \in Nat
  BY FS_Subset, FS_CardinalityType
<1> QED BY <1>5, <1>6

LEMMA InCallIs ==
    ASSUME HwMode = "incall", DevicesOK, output # {}
    PROVE  /\ mode = "incall" /\ {"modemAlive", "modemAudio"} \subseteq on
           /\ \E device \in OutMm \cup OutSco : output = {device}
<1>1. mode = "incall" /\ ~CallBarred
  BY DEF HwMode
<1>2. IsFiniteSet(output)
  <2>1. DevicesOf("out") = output /\ "out" \in Dirs
    BY DEF DevicesOf, Dirs
  <2> QED BY <2>1, DevicesAreFinite
<1>3. Cardinality(output) <= 1
  BY <1>1, <1>2, FS_CardinalityType DEF CallBarred
<1>4. PICK device \in output : TRUE
  OBVIOUS
<1>5. output = {device}
  BY <1>2, <1>3, AtMostOne
<1> QED BY <1>1, <1>4, <1>5 DEF CallBarred, DevicesOK

-----------------------------------------------------------------------------
(* A stream and its back end, not in a call.                               *)

LEMMA BackEndIsApplicable ==
    ASSUME board \in Boards, HwMode # "incall", NEW r \in Rows, NEW q \in Rows,
           NEW d \in Dirs, NEW device \in DevicesOf(d), Fits(r, d),
           BacksUp(Rows, q, r, d, device, HwMode), NEW x \in Good(Rows)
    PROVE  Applicable(x.will, q, d) \/ q.name \in x.will[d]
<1> SUFFICES ASSUME q.name \notin x.will[d] PROVE Applicable(x.will, q, d)
  OBVIOUS
<1>1. Table(Rows) /\ WillOK(Rows, x.will)
  BY TheTable DEF Good
<1>2. Allowed(q, d)
  <2>1. q.rule.bars = {} /\ ~q.rule.alone
    BY DEF BacksUp
  <2>2. \A need \in q.rule.needs : need = "bt" /\ "bt" \in on
    BY DEF BacksUp, Fits, LpeAllowed
  <2>3. \A need \in q.rule.needs : Met(need)
    BY <2>2 DEF Met
  <2> QED BY <2>1, <2>3 DEF Allowed
<1>3. ~FollowsOutput(q, d)
  BY DEF BacksUp, FollowsOutput
<1>4. q.rivals \cap Busy(x.will) = {}
  <2> SUFFICES ASSUME NEW name \in q.rivals, name \in Busy(x.will) PROVE FALSE
    OBVIOUS
  <2>1. PICK p \in Rows : p.name = name
    BY <1>1 DEF WillOK, Busy, Names, Dirs
  <2>2. q.name \in p.rivals
    BY <1>1, <2>1 DEF Table, RowsAreGuarded
  <2>3. p.rule.special \in ReadRows
    BY <1>1, <2>2 DEF Table, RowsAreGuarded, ReadRows, ReadsItsRow
  <2>4. InRow(p)
    BY <1>1, <2>1, <2>3 DEF WillOK
  <2> QED BY <2>1, <2>4 DEF InRow, BacksUp
<1>5. BaseApplicable(x.will, q, d)
  BY <1>4 DEF BaseApplicable, Blocked, Busy, BacksUp
<1>6. SpecialApplicable(x.will, q, d)
  <2>1. q.rule.special \in {"none", "HwCodec0IA", "HwCodec1IA"}
    BY DEF BacksUp
  <2>2. HwCodecApplicable(x.will, q, d)
    BY <1>5 DEF HwCodecApplicable
  <2> QED BY <1>5, <2>1, <2>2 DEF SpecialApplicable
<1> QED BY <1>2, <1>3, <1>6 DEF Applicable

LEMMA StreamIsServed ==
    ASSUME board \in Boards, HwMode # "incall", NEW d \in Dirs,
           NEW sel \in Good(Rows), NEW r \in Rows, r.kind = "stream",
           \E q \in Rows : r.name \in q.slaves,
           r.name \in PrepareDirection(AllPlatforms[board], sel, d).will[d]
    PROVE  \E q \in Rows : /\ r.name \in q.slaves
                           /\ q.name \in PrepareDirection(AllPlatforms[board], sel, d).will[d]
<1> DEFINE rows == AllPlatforms[board]
           last == PrepareDirection(rows, sel, d)
<1>1. rows \in Seq(Rows) /\ Rows = Range(rows) /\ Table(Rows) /\ StreamsAreBacked(rows)
  BY TheTable DEF Rows
<1>2. PICK i \in DOMAIN rows : r = rows[i]
  BY <1>1 DEF Range
<1>3. last \in Good(Rows)
  <2>1. Reaches(Rows, d, sel, last)
    BY <1>1, DirectionReached
  <2> HIDE DEF last
  <2> QED BY <1>1, <2>1, ReachedIsGood
<1>4. Fits(r, d)
  BY <1>3 DEF Good, Carries
<1>5. PICK device \in DevicesOf(d) : device \in r.devices[d]
  BY <1>4 DEF Fits
<1>6. device # "voiceCall"
  <2> SUFFICES ASSUME device = "voiceCall" PROVE FALSE
    OBVIOUS
  <2>1. d = "in" /\ r.rule.special = "MediaLpeCentric"
    BY <1>1, <1>2, <1>5 DEF StreamsAreBacked, Rows
  <2>2. LpeAllowed(r, d) /\ "voiceCall" \in input.devices
    BY <1>4, <1>5, <2>1 DEF Fits, DevicesOf
  <2> QED BY <2>1, <2>2 DEF LpeAllowed
<1>7. HwMode \in r.modes[d] \ {"incall"}
  BY <1>4 DEF Fits
<1>8. PICK j \in DOMAIN rows : i < j /\ BacksUp(Rows, rows[j], r, d, device, HwMode)
  BY <1>1, <1>2, <1>5, <1>6, <1>7 DEF StreamsAreBacked, Rows
<1>9. i \in 1..Len(rows) /\ j \in 1..Len(rows) /\ rows[j] \in Rows
  BY <1>1
<1>10. rows[j].kind # "stream" /\ r.name \in rows[j].slaves
  BY <1>8 DEF BacksUp
<1>11. \A x \in Good(Rows) : Applicable(x.will, rows[j], d) \/ rows[j].name \in x.will[d]
  BY <1>4, <1>8, <1>9, BackEndIsApplicable
<1>12. rows[j].name \in last.will[d]
  <2>1. /\ rows \in Seq(Range(rows)) /\ Table(Range(rows)) /\ sel \in Good(Range(rows))
        /\ i \in 1..Len(rows) /\ j \in 1..Len(rows) /\ i < j
        /\ rows[i].kind = "stream" /\ rows[j].kind # "stream" /\ rows[i].name \in rows[j].slaves
        /\ rows[i].name \in PrepareDirection(rows, sel, d).will[d]
    BY <1>1, <1>2, <1>8, <1>9, <1>10
  <2>2. \A x \in Good(Range(rows)) \cap Beyond(Range(rows), d, sel) :
          rows[i].name \in x.will[d] => Applicable(x.will, rows[j], d) \/ rows[j].name \in x.will[d]
    BY <1>1, <1>11
  <2> HIDE DEF rows
  <2> QED BY <2>1, <2>2, DirectionAddsBackEnd
<1> QED BY <1>9, <1>10, <1>12

-----------------------------------------------------------------------------
(* A call, on one device.                                                  *)

InCall(device) ==
    /\ board \in Boards /\ HwMode = "incall" /\ ScoInStep /\ ModemEmbedded
    /\ {"modemAlive", "modemAudio"} \subseteq on
    /\ device \in OutMm \cup OutSco /\ output = {device}

LEMMA CallRouteIsAllowed ==
    ASSUME NEW device, InCall(device), NEW r \in Rows, CarriesCall(Rows, r, device), NEW d
    PROVE  Allowed(r, d)
<1>1. r.rule.needs \cup r.rule.bars \subseteq Conditions[board]
  BY ConditionsAreRead DEF InCall
<1>2. OutMm \cap OutSco = {}
  BY DEF OutMm, OutSco
<1>3. \A need \in r.rule.needs : need \in on /\ need # "bus"
  BY <1>1 DEF InCall, CarriesCall, ScoInStep
<1>4. r.rule.bars \cap on = {}
  <2>1. CASE device \in OutSco
    BY <2>1 DEF CarriesCall
  <2>2. CASE device \notin OutSco
    <3>1. "sco" \in Conditions[board] => "sco" \notin on
      BY <2>2 DEF InCall, ScoInStep
    <3> QED BY <1>1, <2>2, <3>1 DEF CarriesCall
  <2> QED BY <2>1, <2>2
<1>5. \A need \in r.rule.needs : Met(need)
  BY <1>3 DEF Met
<1> QED BY <1>4, <1>5 DEF Allowed, CarriesCall

\* The route is added to the output direction, in which no rival can be,
LEMMA CallRouteIsAdded ==
    ASSUME NEW device, InCall(device), NEW r \in Rows, CarriesCall(Rows, r, device), NEW sel
    PROVE  Added(Rows, "out", sel, r)
<1> SUFFICES ASSUME NEW x \in Good(Rows), r.name \notin x.will["out"]
             PROVE  Applicable(x.will, r, "out")
  BY DEF Added
<1>1. Table(Rows) /\ WillOK(Rows, x.will)
  BY TheTable DEF Good, InCall
<1>2. r.rivals \cap Busy(x.will) = {}
  <2> SUFFICES ASSUME NEW name \in r.rivals, name \in Busy(x.will) PROVE FALSE
    OBVIOUS
  <2>1. PICK p \in Rows : p.name = name
    BY <1>1 DEF WillOK, Busy, Names, Dirs
  <2>2. r.name \in p.rivals
    BY <1>1, <2>1 DEF Table, RowsAreGuarded
  <2>3. p.rule.special \in ReadRows
    BY <1>1, <2>2 DEF Table, RowsAreGuarded, ReadRows, ReadsItsRow
  <2>4. InRow(p)
    BY <1>1, <2>1, <2>3 DEF WillOK
  <2>5. "incall" \notin p.modes["in"] /\ ("incall" \in p.modes["out"] => device \notin p.devices["out"])
    BY <2>1 DEF CarriesCall
  <2> QED BY <2>4, <2>5 DEF InRow, InCall, Dirs, DevicesOf
<1>3. BaseApplicable(x.will, r, "out")
  BY <1>2 DEF BaseApplicable, Blocked, Busy, CarriesCall, InCall, DevicesOf
<1>4. SpecialApplicable(x.will, r, "out")
  BY <1>3 DEF SpecialApplicable, CarriesCall
<1>5. ~FollowsOutput(r, "out")
  BY DEF FollowsOutput
<1> QED BY <1>4, <1>5, CallRouteIsAllowed DEF Applicable

\* and follows it in the input direction.
LEMMA CallRouteFollows ==
    ASSUME NEW device, InCall(device), NEW r \in Rows, CarriesCall(Rows, r, device), NEW half,
           r.name \in half.will["out"]
    PROVE  Added(Rows, "in", half, r)
<1> SUFFICES ASSUME NEW x \in Good(Rows) \cap Beyond(Rows, "in", half)
             PROVE  Applicable(x.will, r, "in")
  BY DEF Added
<1>1. r.name \in x.will["out"]
  BY DEF Beyond, Dirs
<1>2. FollowsOutput(r, "in")
  BY DEF FollowsOutput, CarriesCall
<1> QED BY <1>1, <1>2, CallRouteIsAllowed DEF Applicable

\* The modem's back ends share a call by the TTY direction, else by the device.
LEMMA HwCodecInCall ==
    ASSUME HwMode = "incall", NEW will, NEW q, NEW d \in Dirs
    PROVE  /\ tty = "uplink" /\ (q.rule.special = "HwCodec0IA" <=> d = "out")
                => HwCodecApplicable(will, q, d)
           /\ tty = "downlink" /\ (q.rule.special = "HwCodec0IA" <=> d = "in")
                => HwCodecApplicable(will, q, d)
           /\ tty \notin {"uplink", "downlink"} =>
                /\ d = "out" /\ BaseApplicable(will, q, d) => HwCodecApplicable(will, q, d)
                /\ d = "in" => HwCodecApplicable(will, q, d)
                      \/ IF "headphone" \in output THEN q.rule.special # "HwCodec0IA"
                         ELSE q.name \notin will["out"]
<1>1. CASE tty = "uplink" /\ (q.rule.special = "HwCodec0IA" <=> d = "out")
  BY <1>1 DEF HwCodecApplicable
<1>2. CASE tty = "downlink" /\ (q.rule.special = "HwCodec0IA" <=> d = "in")
  BY <1>2 DEF HwCodecApplicable
<1>3. CASE tty \notin {"uplink", "downlink"} /\ d = "out" /\ BaseApplicable(will, q, d)
  BY <1>3 DEF HwCodecApplicable
<1>4. CASE tty \notin {"uplink", "downlink"} /\ d = "in"
  BY <1>4 DEF HwCodecApplicable
<1> QED BY <1>1, <1>2, <1>3, <1>4

\* Of the modem's back ends one is added to the output direction,
LEMMA BackEndIsAdded ==
    ASSUME NEW device, InCall(device), ModemIsBacked(Rows)
    PROVE  \E h, w, q \in Rows :
             /\ BacksCall(h, "HwCodec0IA") /\ BacksCall(w, "HwCodec1IA")
             /\ h.rule.input = "own" /\ w.rule.input = "own"
             /\ \A d \in Dirs : Allowed(h, d) /\ Allowed(w, d) /\ Allowed(q, d)
             /\ q = h \/ q = w \/ (BacksCall(q, "none") /\ q.rule.input = "outputInCall")
             /\ \A sel : Added(Rows, "out", sel, q)
<1>1. PICK h \in Rows, w \in Rows, b \in Rows :
        /\ BacksCall(h, "HwCodec0IA") /\ BacksCall(w, "HwCodec1IA") /\ BacksCall(b, "none")
        /\ \A q \in {h, w} : q.rule.needs = {} /\ q.rule.input = "own"
        /\ b.rule.needs \subseteq {"bt"} /\ b.rule.input = "outputInCall"
        /\ OutMm \subseteq h.devices["out"] \cup w.devices["out"] /\ OutSco \subseteq b.devices["out"]
  BY DEF ModemIsBacked
<1>2. \A d \in Dirs : Allowed(h, d) /\ Allowed(w, d)
  BY <1>1 DEF BacksCall, Allowed
<1>3. device \in OutSco => \A d \in Dirs : Allowed(b, d)
  <2> SUFFICES ASSUME device \in OutSco PROVE \A need \in b.rule.needs : Met(need)
    BY <1>1 DEF BacksCall, Allowed
  <2>1. "bt" \in on
    BY DEF InCall, ScoInStep
  <2> QED BY <1>1, <2>1 DEF Met
<1>4. ASSUME NEW q \in Rows, NEW special, BacksCall(q, special), device \in q.devices["out"],
             NEW x \in Good(Rows), q.name \notin x.will["out"]
      PROVE  BaseApplicable(x.will, q, "out")
  BY <1>4 DEF BaseApplicable, Blocked, BacksCall, InCall, DevicesOf
<1>5. ASSUME NEW q \in {h, w},
             \A x \in Good(Rows) : q.name \notin x.will["out"] => HwCodecApplicable(x.will, q, "out")
      PROVE  \A sel : Added(Rows, "out", sel, q)
  <2> SUFFICES ASSUME NEW x \in Good(Rows), q.name \notin x.will["out"]
               PROVE  Applicable(x.will, q, "out")
    BY DEF Added
  <2>1. SpecialApplicable(x.will, q, "out")
    BY <1>1, <1>5 DEF SpecialApplicable, BacksCall
  <2>2. ~FollowsOutput(q, "out") /\ Allowed(q, "out")
    BY <1>2 DEF FollowsOutput, Dirs
  <2> QED BY <2>1, <2>2 DEF Applicable
<1>6. CASE tty = "uplink"
  <2>1. \A x : HwCodecApplicable(x.will, h, "out")
    BY <1>1, <1>6, HwCodecInCall DEF BacksCall, InCall, Dirs
  <2> QED BY <1>1, <1>2, <1>5, <2>1
<1>7. CASE tty = "downlink"
  <2>1. \A x : HwCodecApplicable(x.will, w, "out")
    BY <1>1, <1>7, HwCodecInCall DEF BacksCall, InCall, Dirs
  <2> QED BY <1>1, <1>2, <1>5, <2>1
<1>8. CASE tty \notin {"uplink", "downlink"}
  <2>1. ASSUME NEW q \in {h, w}, device \in q.devices["out"]
        PROVE  \A sel : Added(Rows, "out", sel, q)
    <3>1. \A x \in Good(Rows) : q.name \notin x.will["out"] => HwCodecApplicable(x.will, q, "out")
      BY <1>1, <1>4, <1>8, <2>1, HwCodecInCall DEF InCall, Dirs
    <3> QED BY <1>5, <3>1
  <2>2. CASE device \in OutMm
    <3>1. PICK q \in {h, w} : device \in q.devices["out"]
      BY <1>1, <2>2
    <3>2. \A sel : Added(Rows, "out", sel, q)
      BY <2>1, <3>1
    <3> QED BY <1>1, <1>2, <3>1, <3>2
  <2>3. CASE device \in OutSco
    <3>1. ASSUME NEW x \in Good(Rows), b.name \notin x.will["out"]
          PROVE  Applicable(x.will, b, "out")
      <4>1. BaseApplicable(x.will, b, "out")
        BY <1>1, <1>4, <2>3, <3>1
      <4>2. SpecialApplicable(x.will, b, "out")
        BY <1>1, <4>1 DEF SpecialApplicable, BacksCall
      <4>3. ~FollowsOutput(b, "out") /\ Allowed(b, "out")
        BY <1>3, <2>3 DEF FollowsOutput, Dirs
      <4> QED BY <4>2, <4>3 DEF Applicable
    <3>2. \A sel : Added(Rows, "out", sel, b)
      BY <3>1 DEF Added
    <3> QED BY <1>1, <1>2, <1>3, <2>3, <3>2
  <2> QED BY <2>2, <2>3 DEF InCall
<1> QED BY <1>6, <1>7, <1>8

\* and then one to the input direction.
LEMMA BackEndFollows ==
    ASSUME NEW device, InCall(device), ModemIsBacked(Rows), NEW h \in Rows, NEW w \in Rows,
           NEW q \in Rows,
           BacksCall(h, "HwCodec0IA"), BacksCall(w, "HwCodec1IA"),
           h.rule.input = "own", w.rule.input = "own",
           \A d \in Dirs : Allowed(h, d) /\ Allowed(w, d) /\ Allowed(q, d),
           q = h \/ q = w \/ (BacksCall(q, "none") /\ q.rule.input = "outputInCall"),
           NEW half, q.name \in half.will["out"]
    PROVE  \E p \in {h, w, q} : Added(Rows, "in", half, p)
<1>1. ASSUME NEW p \in {h, w},
             \A x \in Beyond(Rows, "in", half) : HwCodecApplicable(x.will, p, "in")
      PROVE  Added(Rows, "in", half, p)
  <2> SUFFICES ASSUME NEW x \in Beyond(Rows, "in", half) PROVE Applicable(x.will, p, "in")
    BY DEF Added
  <2>1. SpecialApplicable(x.will, p, "in")
    BY <1>1 DEF SpecialApplicable, BacksCall
  <2>2. ~FollowsOutput(p, "in") /\ Allowed(p, "in")
    BY DEF FollowsOutput, Dirs
  <2> QED BY <2>1, <2>2 DEF Applicable
<1>2. CASE tty = "uplink"
  <2>1. \A x : HwCodecApplicable(x.will, w, "in")
    BY <1>2, HwCodecInCall DEF BacksCall, InCall, Dirs
  <2> QED BY <1>1, <2>1
<1>3. CASE tty = "downlink" \/ (tty # "uplink" /\ "headphone" \in output)
  <2>1. \A x : HwCodecApplicable(x.will, h, "in")
    BY <1>3, HwCodecInCall DEF BacksCall, InCall, Dirs
  <2> QED BY <1>1, <2>1
<1>4. CASE tty \notin {"uplink", "downlink"} /\ "headphone" \notin output
  <2>1. \A x \in Beyond(Rows, "in", half) : q.name \in x.will["out"]
    BY DEF Beyond, Dirs
  <2>2. CASE q \in {h, w}
    <3>1. \A x \in Beyond(Rows, "in", half) : HwCodecApplicable(x.will, q, "in")
      BY <1>4, <2>1, <2>2, HwCodecInCall DEF InCall, Dirs
    <3> QED BY <1>1, <2>2, <3>1
  <2>3. CASE q.rule.input = "outputInCall"
    <3>1. FollowsOutput(q, "in") /\ Allowed(q, "in")
      BY <2>3 DEF FollowsOutput, InCall, Dirs
    <3>2. Added(Rows, "in", half, q)
      BY <2>1, <3>1 DEF Added, Applicable
    <3> QED BY <3>2
  <2> QED BY <2>2, <2>3
<1> QED BY <1>2, <1>3, <1>4

\* A call has its route in both directions, and the modem's a back end.
LEMMA CallIsRouted ==
    ASSUME NEW device, InCall(device), NEW sel \in PrepareRouting(AllPlatforms[board]),
           NEW d \in Dirs
    PROVE  \E name \in CallRoutes \cap sel.will[d] : name = "ModemIA" =>
             \E q \in Rows : "ModemIA" \in q.slaves /\ q.name \in sel.will[d]
<1> DEFINE rows == AllPlatforms[board]
           half == PrepareDirection(rows, NoSelection, "out")
<1>1. /\ rows \in Seq(Range(rows)) /\ Table(Range(rows)) /\ Rows = Range(rows)
      /\ CallsAreRouted(Rows) /\ "in" \in Dirs /\ "out" \in Dirs
  BY TheTable DEF Rows, InCall, Dirs
<1>2. /\ NoSelection \in Good(Rows) /\ half \in Good(Rows)
      /\ sel.will["in"] = PrepareDirection(rows, half, "in").will["in"]
      /\ sel.will["out"] = half.will["out"]
  BY <1>1, RoutingIs
<1> HIDE DEF rows, half
<1>3. ASSUME NEW r \in Rows, r.slaves = {}, CarriesCall(Rows, r, device)
      PROVE  r.name \in sel.will["out"] /\ r.name \in sel.will["in"]
  <2>1. r.kind # "stream"
    BY <1>3 DEF CarriesCall
  <2>2. Added(Rows, "out", NoSelection, r)
    BY <1>3, CallRouteIsAdded
  <2>3. r.name \in half.will["out"]
    BY <1>1, <1>2, <1>3, <2>1, <2>2, DirectionAdds DEF half
  <2>4. Added(Rows, "in", half, r)
    BY <1>3, <2>3, CallRouteFollows
  <2>5. r.name \in PrepareDirection(rows, half, "in").will["in"]
    BY <1>1, <1>2, <1>3, <2>1, <2>4, DirectionAdds
  <2> QED BY <1>2, <2>3, <2>5
<1>4. CASE \E r \in Rows : /\ r.name \in CallRoutes \ {"ModemIA"} /\ r.slaves = {}
                           /\ CarriesCall(Rows, r, device)
  <2>1. PICK r \in Rows : /\ r.name \in CallRoutes \ {"ModemIA"} /\ r.slaves = {}
                          /\ CarriesCall(Rows, r, device)
    BY <1>4
  <2>2. r.name \in sel.will[d]
    BY <1>3, <2>1 DEF Dirs
  <2> QED BY <2>1, <2>2
<1>5. CASE ModemIsBacked(Rows)
  <2>1. PICK r \in Rows : r.name = "ModemIA" /\ r.slaves = {} /\ CarriesCall(Rows, r, device)
    BY <1>5 DEF ModemIsBacked, InCall
  <2>2. r.name \in sel.will["out"] /\ r.name \in sel.will["in"] /\ r.kind # "stream"
    BY <1>3, <2>1 DEF CarriesCall
  <2>3. PICK h \in Rows, w \in Rows, q \in Rows :
          /\ BacksCall(h, "HwCodec0IA") /\ BacksCall(w, "HwCodec1IA")
          /\ h.rule.input = "own" /\ w.rule.input = "own"
          /\ \A e \in Dirs : Allowed(h, e) /\ Allowed(w, e) /\ Allowed(q, e)
          /\ q = h \/ q = w \/ (BacksCall(q, "none") /\ q.rule.input = "outputInCall")
          /\ \A from : Added(Rows, "out", from, q)
    BY <1>5, BackEndIsAdded
  <2>4. \A p \in {h, w, q} : r.name \in p.slaves /\ p.kind # "stream"
    BY <2>1, <2>3 DEF BacksCall
  <2>5. Added(Rows, "out", NoSelection, r)
    BY <2>1, CallRouteIsAdded
  <2>6. q.name \in half.will["out"]
    BY <1>1, <1>2, <2>2, <2>3, <2>4, <2>5, DirectionAddsMaster DEF half
  <2>7. PICK p \in {h, w, q} : Added(Rows, "in", half, p)
    BY <1>5, <2>3, <2>6, BackEndFollows
  <2>8. Added(Rows, "in", half, r)
    BY <1>2, <2>1, <2>2, CallRouteFollows
  <2>9. p.name \in PrepareDirection(rows, half, "in").will["in"]
    BY <1>1, <1>2, <2>2, <2>4, <2>7, <2>8, DirectionAddsMaster
  <2>10. \E back \in {p, q} : back.name \in sel.will[d]
    BY <1>2, <2>6, <2>9 DEF Dirs
  <2> QED BY <2>1, <2>2, <2>4, <2>7, <2>10 DEF Dirs, CallRoutes
<1> QED BY <1>1, <1>4, <1>5 DEF CallsAreRouted, InCall

\* Whatever carries a stream has its back end: its own, or in a call the modem's.
LEMMA StreamsAreServed ==
    ASSUME board \in Boards, NEW sel \in PrepareRouting(AllPlatforms[board]),
           NEW d \in Dirs, NEW c \in sel.carried[d], \E q \in Rows : c[2] \in q.slaves,
           HwMode = "incall" => \E device : InCall(device)
    PROVE  \E q \in Rows : c[2] \in q.slaves /\ q.name \in sel.will[d]
<1> DEFINE rows == AllPlatforms[board]
           half == PrepareDirection(rows, NoSelection, "out")
<1>1. /\ rows \in Seq(Range(rows)) /\ Table(Range(rows)) /\ Rows = Range(rows)
      /\ StreamsAreBacked(rows)
  BY TheTable DEF Rows
<1>2. /\ NoSelection \in Good(Rows) /\ half \in Good(Rows) /\ sel \in Good(Rows)
      /\ sel = PrepareDirection(rows, half, "in") /\ sel.will["out"] = half.will["out"]
  BY <1>1, RoutingIs
<1> HIDE DEF half
<1>3. c[2] \in sel.will[d] /\ \E r \in Rows : r.kind = "stream" /\ r.name = c[2]
  BY <1>2 DEF Good, Carries
<1>4. PICK r \in Rows : r.kind = "stream" /\ r.name = c[2]
  BY <1>3
<1>5. CASE HwMode # "incall" /\ d = "out"
  BY <1>2, <1>3, <1>4, <1>5, StreamIsServed DEF half
<1>6. CASE HwMode # "incall" /\ d = "in"
  BY <1>2, <1>3, <1>4, <1>6, StreamIsServed
<1>7. CASE HwMode = "incall"
  <2>1. PICK name \in CallRoutes \cap sel.will[d] : name = "ModemIA" =>
             \E q \in Rows : "ModemIA" \in q.slaves /\ q.name \in sel.will[d]
    BY <1>7, CallIsRouted
  <2>2. PICK p \in Rows : p.name = name
    BY <1>2 DEF Good, Selections, Names
  <2>3. "incall" \in r.modes[d]
    BY <1>2, <1>3, <1>4, <1>7 DEF Good, Carries, Fits
  <2>4. PICK i \in DOMAIN rows : r = rows[i]
    BY <1>1 DEF Range
  <2>5. \A q \in Rows : /\ q.name \in CallRoutes => q.name = "ModemIA"
                        /\ "ModemIA" \in q.slaves => r.name \in q.slaves
    BY <1>1, <1>4, <2>3, <2>4 DEF StreamsAreBacked
  <2> QED BY <1>4, <2>1, <2>2, <2>5
<1> QED BY <1>5, <1>6, <1>7 DEF Dirs

-----------------------------------------------------------------------------
(* The invariant.                                                          *)

\* The framework selects an output device for a call.
CallsHaveDevices == \A choice \in OutputChoices : choice.mode = "incall" => choice.devices # {}

DeviceEvent(d) == IF d = "out" THEN "outDevices" ELSE "inDevices"

\* Until the next pass an event says what a codec was not set up for.
SetUpOK(d, name) ==
    LET set == tuned[d][name]
    IN  /\ set.devices = DevicesOf(d) \/ DeviceEvent(d) \in changed
        /\ name # "HwCodecMedia" =>
             /\ set.tty = tty \/ "tty" \in changed
             /\ \A c \in CallSettings : (c \in set.settings <=> c \in on) \/ c \in changed
\* What there is to route.
StateOK ==
    /\ board \in Boards /\ DevicesOK
    /\ "modemAudio" \in on => ModemEmbedded
    /\ CallsHaveDevices /\ mode = "incall" => output # {}
IInv ==
    /\ StateOK
    /\ pending \in Nat /\ (Settled => changed = {})
    /\ Settled => /\ WillOK(Rows, used)
                  /\ CallsHaveDevices => BackEndServes /\ CallIsDuplex
    /\ \A d \in Dirs : \A name \in Codecs \cap used[d] : SetUpOK(d, name)

LEMMA InitOK == Init => IInv
<1> SUFFICES ASSUME Init PROVE IInv
  OBVIOUS
<1>1. /\ used = Same({}) /\ Busy(used) = {}
      /\ \A d \in Dirs : used[d] = {} /\ carried[d] = {}
  BY DEF Init, Same, Both, Dirs, Busy
<1>2. used \in [Dirs -> SUBSET Names(Rows)]
  BY <1>1 DEF Same, Both, Dirs
<1>3. WillOK(Rows, used)
  BY <1>1, <1>2 DEF WillOK
<1>4. DevicesOK
  BY DEF Init, OutMm, Idle, DevicesOK
<1>5. "modemAudio" \in on => ModemEmbedded
  BY DEF Init, Rest
<1>6. BackEndServes /\ CallIsDuplex
  <2>1. HwMode # "incall"
    BY DEF Init, HwMode
  <2> QED BY <1>1, <2>1 DEF BackEndServes, CallIsDuplex
<1> QED BY <1>1, <1>3, <1>4, <1>5, <1>6 DEF Init, IInv, StateOK, Settled

\* A request leaves the routes as they are and raises the events of what it
\* changes.
LEMMA ChangeKeeps ==
    ASSUME IInv, NEW kind, NEW events, Change(kind, events), StateOK',
           output' = output \/ "outDevices" \in events,
           input'.devices = input.devices \/ "inDevices" \in events,
           tty' = tty \/ "tty" \in events,
           \A c \in CallSettings : (c \in on' <=> c \in on) \/ c \in events
    PROVE  IInv'
<1>1. /\ used' = used /\ tuned' = tuned
      /\ pending' = pending + 1 /\ changed \cup events \subseteq changed'
  BY DEF Change, routing
<1>2. pending' \in Nat /\ ~Settled'
  BY <1>1 DEF IInv, Settled
<1>3. ASSUME NEW d \in Dirs, NEW name \in Codecs \cap used[d] PROVE SetUpOK(d, name)'
  <2>1. SetUpOK(d, name)
    BY DEF IInv
  <2>2. DevicesOf(d)' = DevicesOf(d) \/ DeviceEvent(d) \in events
    BY DEF DevicesOf, DeviceEvent, Dirs
  <2>3. tuned'[d][name].devices = DevicesOf(d)' \/ DeviceEvent(d) \in changed'
    BY <1>1, <2>1, <2>2 DEF SetUpOK
  <2>4. DeviceEvent(d)' = DeviceEvent(d)
    BY DEF DeviceEvent
  <2> QED BY <1>1, <2>1, <2>3, <2>4 DEF SetUpOK
<1> QED BY <1>1, <1>2, <1>3 DEF IInv

LEMMA SwitchKeeps ==
    ASSUME IInv, NEW kind, NEW conditions, NEW direction, Switch(kind, conditions, direction),
           "modemAudio" \in conditions => ModemEmbedded
    PROVE  IInv'
<1> DEFINE events == conditions \cup Differs(tty, direction, "tty")
<1>1. /\ Change(kind, events) /\ board' = board /\ mode' = mode
      /\ output' = output /\ input' = input
  BY DEF Switch, Change
<1>2. tty' = tty \/ "tty" \in events
  BY DEF Switch, Differs
<1>3. \A c \in CallSettings : (c \in on' <=> c \in on) \/ c \in events
  BY DEF Switch
<1>4. StateOK'
  <2>1. "modemAudio" \in on' => ModemEmbedded
    BY DEF Switch, IInv, StateOK
  <2> QED BY <1>1, <2>1 DEF IInv, StateOK, DevicesOK, ModemEmbedded
<1> HIDE DEF events
<1> QED BY <1>1, <1>2, <1>3, <1>4, ChangeKeeps

\* A codec that stays as it was had no event to look for: it was set up for
\* what there is.
LEMMA KeptIsSetUp ==
    ASSUME IInv, NEW d \in Dirs, NEW name \in Codecs \cap used[d],
           name \in Kept(AllPlatforms[board], d)
    PROVE  LET set == tuned[d][name]
           IN  /\ set.devices = DevicesOf(d)
               /\ name # "HwCodecMedia" =>
                    set.tty = tty /\ \A c \in CallSettings : c \in set.settings <=> c \in on
<1>1. PICK r \in Rows : /\ name = r.name /\ r.name \in used[d]
                        /\ (changed \cup {"always"}) \cap r.rule.events[d] = {}
  BY DEF Kept, NeedReconfiguration, Rows
<1>2. CodecsAreWatched(Rows)
  BY TheTable DEF IInv, StateOK, Table
<1> DEFINE events == r.rule.events[d]
<1>3. /\ {"always", DeviceEvent(d)} \cap events # {}
      /\ name # "HwCodecMedia" => "always" \in events \/ {"hac", "band", "tty"} \subseteq events
  BY <1>1, <1>2 DEF CodecsAreWatched, DeviceEvent
<1>4. /\ DeviceEvent(d) \notin changed
      /\ name # "HwCodecMedia" => {"hac", "band", "tty"} \cap changed = {}
  BY <1>1, <1>3
<1>5. SetUpOK(d, name)
  BY DEF IInv
<1> QED BY <1>4, <1>5 DEF SetUpOK, CallSettings

\* What is said of the selection is true of the routes once they are in use.
LEMMA PassServes ==
    ASSUME IInv, CallsHaveDevices, ScoInStep, NEW sel \in PrepareRouting(AllPlatforms[board])
    PROVE  LET HasMaster(name, d) ==
                   \E master \in sel.will[d] : <<name, master>> \in Masters[board]
           IN  /\ \A d \in Dirs : \A c \in sel.carried[d] :
                    (\E name : <<c[2], name>> \in Masters[board]) => HasMaster(c[2], d)
               /\ HwMode = "incall" => \A d \in Dirs : \E name \in CallRoutes \cap sel.will[d] :
                    name = "ModemIA" => HasMaster(name, d)
<1>1. HwMode = "incall" => \E device : InCall(device)
  <2> SUFFICES ASSUME HwMode = "incall" PROVE \E device : InCall(device)
    OBVIOUS
  <2>1. mode = "incall"
    BY DEF HwMode
  <2>2. output # {} /\ DevicesOK
    BY <2>1 DEF IInv, StateOK
  <2>3. /\ {"modemAlive", "modemAudio"} \subseteq on
        /\ \E device \in OutMm \cup OutSco : output = {device}
    BY <2>2, InCallIs
  <2> QED BY <2>3 DEF InCall, IInv, StateOK
<1>2. \A d \in Dirs : \A c \in sel.carried[d] : (\E q \in Rows : c[2] \in q.slaves) =>
        \E q \in Rows : c[2] \in q.slaves /\ q.name \in sel.will[d]
  BY <1>1, StreamsAreServed DEF IInv, StateOK
<1>3. HwMode = "incall" => \A d \in Dirs : \E name \in CallRoutes \cap sel.will[d] :
        name = "ModemIA" => \E q \in Rows : "ModemIA" \in q.slaves /\ q.name \in sel.will[d]
  BY <1>1, CallIsRouted
<1>4. \A name, master : <<name, master>> \in Masters[board]
                          <=> \E q \in Rows : name \in q.slaves /\ master = q.name
  BY MastersAre DEF IInv, StateOK
<1> QED BY <1>2, <1>3, <1>4

LEMMA PassKeeps ==
    ASSUME IInv, Pass
    PROVE  IInv'
<1>1. PICK sel \in PrepareRouting(AllPlatforms[board]) :
        /\ used' = sel.will /\ carried' = sel.carried
        /\ tuned' = [d \in Dirs |-> [name \in Codecs \cap sel.will[d] |->
                        IF name \in Kept(AllPlatforms[board], d) THEN tuned[d][name] ELSE SetUp(d)]]
  BY DEF Pass
<1>2. /\ pending' = 0 /\ changed' = {} /\ board' = board /\ mode' = mode
      /\ output' = output /\ input' = input /\ on' = on /\ tty' = tty
  BY DEF Pass, requests
<1>3. WillOK(Rows, sel.will)
  <2>1. board \in Boards
    BY DEF IInv, StateOK
  <2> QED BY <2>1, TheTable, RoutingIs DEF Rows, Good
<1>4. HwMode' = HwMode /\ ModemEmbedded' = ModemEmbedded /\ \A d : DevicesOf(d)' = DevicesOf(d)
  BY <1>2 DEF HwMode, CallBarred, ModemEmbedded, DevicesOf
<1>5. WillOK(Rows, used)'
  <2>1. Rows' = Rows
    BY <1>2 DEF Rows
  <2>2. \A need : Met(need)' <=> Met(need)
    BY <1>2, <1>4 DEF Met, BusAvailable, CallBarred
  <2>3. \A r : Permitted(r)' <=> Permitted(r)
    BY <1>2, <2>2 DEF Permitted
  <2>4. \A r : InRow(r)' <=> InRow(r)
    BY <1>4 DEF InRow
  <2> QED BY <1>1, <1>3, <2>1, <2>3, <2>4 DEF WillOK
<1>6. CallsHaveDevices => (BackEndServes /\ CallIsDuplex)'
  <2>1. (Settled /\ ScoInStep)' => ScoInStep
    BY <1>2 DEF ScoInStep
  <2>2. ASSUME CallsHaveDevices, ScoInStep PROVE BackEndServes'
    BY <1>1, <1>2, <2>2, PassServes DEF BackEndServes, HasBackEnd
  <2>3. ASSUME CallsHaveDevices, ScoInStep PROVE CallIsDuplex'
    BY <1>1, <1>2, <1>4, <2>3, PassServes DEF CallIsDuplex, HasBackEnd
  <2> QED BY <2>1, <2>2, <2>3 DEF BackEndServes, CallIsDuplex
<1>7. ASSUME NEW d \in Dirs, NEW name \in Codecs \cap used'[d] PROVE SetUpOK(d, name)'
  <2>1. tuned'[d][name] = IF name \in Kept(AllPlatforms[board], d) THEN tuned[d][name] ELSE SetUp(d)
    BY <1>1, <1>7
  <2>2. CASE name \in Kept(AllPlatforms[board], d)
    <3>1. name \in used[d]
      BY <2>2 DEF Kept
    <3> QED BY <1>2, <1>4, <2>1, <2>2, <3>1, KeptIsSetUp DEF SetUpOK
  <2>3. CASE name \notin Kept(AllPlatforms[board], d)
    BY <1>2, <1>4, <2>1, <2>3 DEF SetUpOK, SetUp, CallSettings, Settings
  <2> QED BY <2>2, <2>3
<1>8. StateOK'
  BY <1>2, <1>4 DEF IInv, StateOK, DevicesOK
<1>9. CallsHaveDevices' = CallsHaveDevices
  BY DEF CallsHaveDevices
<1> QED BY <1>2, <1>5, <1>6, <1>7, <1>8, <1>9 DEF IInv

LEMMA NextOK == IInv /\ [Next]_vars => IInv'
<1> SUFFICES ASSUME IInv, [Next]_vars PROVE IInv'
  OBVIOUS
<1>0. StateOK
  BY DEF IInv
<1>1. ASSUME NEW choice \in OutputChoices, SelectOutput(choice) PROVE IInv'
  <2> DEFINE events == Differs(output, choice.devices, "outDevices")
                           \cup Differs(mode, choice.mode, "androidMode")
  <2>1. /\ Change("output", events) /\ output' = choice.devices /\ mode' = choice.mode
        /\ board' = board /\ input' = input /\ on' = on /\ tty' = tty
    BY <1>1 DEF SelectOutput, Change
  <2>2. output' = output \/ "outDevices" \in events
    BY <2>1 DEF Differs
  <2>3. StateOK'
    BY <1>0, <2>1, ChoicesAssumption DEF StateOK, DevicesOK, ModemEmbedded, CallsHaveDevices
  <2> HIDE DEF events
  <2> QED BY <2>1, <2>2, <2>3, ChangeKeeps
<1>2. ASSUME NEW choice \in InputChoices, SelectInput(choice) PROVE IInv'
  <2> DEFINE events == Differs(input.devices, choice.devices, "inDevices")
                           \cup Differs(input.source, choice.source, "inSource")
  <2>1. /\ Change("input", events) /\ input' = choice /\ mode' = mode
        /\ board' = board /\ output' = output /\ on' = on /\ tty' = tty
    BY <1>2 DEF SelectInput, Change
  <2>2. input'.devices = input.devices \/ "inDevices" \in events
    BY <2>1 DEF Differs
  <2>3. StateOK'
    BY <1>0, <2>1, ChoicesAssumption DEF StateOK, DevicesOK, ModemEmbedded
  <2> HIDE DEF events
  <2> QED BY <2>1, <2>2, <2>3, ChangeKeeps
<1>3. ASSUME NEW streams \in StreamChoices, StartStop(streams) PROVE IInv'
  <2>1. /\ Change("streams", {"stream"}) /\ mode' = mode /\ board' = board
        /\ output' = output /\ input' = input /\ on' = on /\ tty' = tty
    BY <1>3 DEF StartStop, Change
  <2>2. StateOK'
    BY <1>0, <2>1 DEF StateOK, DevicesOK, ModemEmbedded
  <2> QED BY <2>1, <2>2, ChangeKeeps
<1>4. CASE SwitchModem
  BY <1>4, SwitchKeeps DEF SwitchModem
<1>5. CASE SetParameter
  BY <1>5, SwitchKeeps DEF SetParameter
<1>6. CASE SetTtyDirection
  BY <1>6, SwitchKeeps DEF SetTtyDirection
<1>7. CASE Pass
  BY <1>7, PassKeeps
<1>8. CASE UNCHANGED vars
  <2>1. UNCHANGED <<board, mode, output, input, on, tty, changed, pending, used, carried, tuned>>
    BY <1>8 DEF vars, requests, routing
  <2>2. /\ Rows' = Rows /\ HwMode' = HwMode /\ ModemEmbedded' = ModemEmbedded
        /\ \A d : DevicesOf(d)' = DevicesOf(d)
    BY <2>1 DEF Rows, HwMode, CallBarred, ModemEmbedded, DevicesOf
  <2>3. \A need : Met(need)' <=> Met(need)
    BY <2>1, <2>2 DEF Met, BusAvailable, CallBarred
  <2>4. \A r : (Permitted(r)' <=> Permitted(r)) /\ (InRow(r)' <=> InRow(r))
    BY <2>1, <2>2, <2>3 DEF Permitted, InRow
  <2>5. WillOK(Rows, used)' <=> WillOK(Rows, used)
    BY <2>1, <2>2, <2>4 DEF WillOK
  <2>6. \A d, name : SetUpOK(d, name)' <=> SetUpOK(d, name)
    BY <2>1, <2>2 DEF SetUpOK, DeviceEvent
  <2>7. StateOK' /\ Settled' = Settled /\ CallsHaveDevices' = CallsHaveDevices
    BY <1>0, <2>1, <2>2 DEF StateOK, DevicesOK, Settled, CallsHaveDevices
  <2>8. (BackEndServes' <=> BackEndServes) /\ (CallIsDuplex' <=> CallIsDuplex)
    BY <2>1, <2>2 DEF BackEndServes, CallIsDuplex, HasBackEnd, ScoInStep, Settled
  <2> QED BY <2>1, <2>5, <2>6, <2>7, <2>8 DEF IInv
<1> QED BY <1>1, <1>2, <1>3, <1>4, <1>5, <1>6, <1>7, <1>8 DEF Next

LEMMA IInvHolds == Spec => []IInv
BY InitOK, NextOK, PTL DEF Spec

-----------------------------------------------------------------------------
(* The theorems.                                                           *)

\* Two routes that a pass leaves in use have no ports of one exclusion group and
\* share no port: prepareRoute asks isApplicable, which a condemned port ends.
THEOREM RoutesAreExclusive == Spec => []ExclusivePorts
<1>1. IInv => ExclusivePorts
  <2> SUFFICES ASSUME IInv, Settled, NEW r \in Rows, r.name \in Busy(used),
                      NEW name \in (r.rivals \cup r.sharing) \cap Busy(used)
               PROVE  FALSE
    BY DEF ExclusivePorts, Busy, Rows
  <2>1. WillOK(Rows, used)
    BY DEF IInv
  <2>2. PICK q \in Rows : q.name = name
    BY <2>1 DEF WillOK, Busy, Names, Dirs
  <2>3. name \notin r.rivals
    BY <2>1, <2>2 DEF WillOK
  <2>4. PICK c : c \in (r.rule.bars \cap q.rule.needs) \cup (q.rule.bars \cap r.rule.needs) /\ c # "bus"
    BY <2>2, <2>3, TheTable DEF IInv, StateOK, Table, RowsAreGuarded
  <2>5. Permitted(r) /\ Permitted(q)
    BY <2>1, <2>2 DEF WillOK
  <2>6. Met(c) => c \in on
    BY <2>4 DEF Met
  <2> QED BY <2>4, <2>5, <2>6 DEF Permitted
<1> QED BY <1>1, IInvHolds, PTL

\* A row that takes a stream while no route is in use is in its mode, and one of
\* its devices is selected.
LEMMA TakesByItsRow ==
    ASSUME board \in Boards, NEW r \in Rows, r.kind = "stream", NEW d \in Dirs, NEW s,
           Takes(Same({}), r, d, s)
    PROVE  /\ s \in r.masks[d] /\ HwMode \in r.modes[d]
           /\ DevicesOf(d) \cap r.devices[d] # {}
           /\ r.rule.alone => Cardinality(DevicesOf(d)) <= 1
<1>1. Table(Rows) /\ r.rule.special \in ReadRows
  BY TheTable, StreamRows DEF ReadRows
<1>2. Applicable(Same({}), r, d) /\ Allowed(r, d) /\ s \in r.masks[d]
  BY DEF Takes, Applicable
<1>3. Fits(r, d)
  BY <1>1, <1>2, ApplicableFits
<1> QED BY <1>2, <1>3 DEF Allowed, Fits

\* No started stream fits two routes, so that the order of a table's rows decides
\* nothing: rows that a stream could both take want different devices, and one
\* of them wants no others beside its own.
THEOREM StreamsHaveOneRoute == Spec => []OneRoutePerStream
<1>1. IInv => OneRoutePerStream
  <2> SUFFICES ASSUME IInv, NEW d \in Dirs, NEW s
               PROVE  Cardinality({r \in Rows : r.kind = "stream" /\ Takes(Same({}), r, d, s)}) <= 1
    BY DEF OneRoutePerStream, Rows
  <2> DEFINE fits == {r \in Rows : r.kind = "stream" /\ Takes(Same({}), r, d, s)}
  <2>1. ASSUME NEW r \in fits, NEW q \in fits, r # q PROVE FALSE
    <3>1. \A p \in {r, q} :
            /\ s \in p.masks[d] /\ HwMode \in p.modes[d]
            /\ DevicesOf(d) \cap p.devices[d] # {}
            /\ p.rule.alone => Cardinality(DevicesOf(d)) <= 1
      BY TakesByItsRow DEF IInv, StateOK
    <3>2. r.devices[d] \cap q.devices[d] = {} /\ (r.rule.alone \/ q.rule.alone)
      BY <2>1, <3>1, TheTable DEF IInv, StateOK, Table, StreamsAreApart
    <3>3. PICK x \in DevicesOf(d), y \in DevicesOf(d) : x # y
      BY <3>1, <3>2
    <3>4. IsFiniteSet(DevicesOf(d))
      BY DevicesAreFinite DEF IInv, StateOK
    <3> QED BY <3>1, <3>2, <3>3, <3>4, AtMostOne
  <2> HIDE DEF fits
  <2>2. fits = {} => Cardinality(fits) <= 1
    BY FS_EmptySet
  <2>3. ASSUME NEW r \in fits PROVE Cardinality(fits) <= 1
    <3>1. fits = {r}
      BY <2>1
    <3>2. Cardinality({r}) = 1
      BY FS_Singleton
    <3> QED BY <3>1, <3>2
  <2>4. Cardinality(fits) <= 1
    BY <2>2, <2>3
  <2> QED BY <2>4 DEF fits
<1> QED BY <1>1, IInvHolds, PTL

\* The codec of a route that stays in use was set up for the selected devices:
\* whatever was requested since, its class looks for the event.
THEOREM CodecsFollowDevices == Spec => []CodecFollowsDevices
<1>1. IInv => CodecFollowsDevices
  <2> SUFFICES ASSUME IInv, Settled, NEW d \in Dirs, NEW name \in Codecs \cap used[d]
               PROVE  tuned[d][name].devices = DevicesOf(d)
    BY DEF CodecFollowsDevices, Follows
  <2>1. SetUpOK(d, name) /\ changed = {}
    BY DEF IInv
  <2> QED BY <2>1 DEF SetUpOK
<1> QED BY <1>1, IInvHolds, PTL

\* In a call the codecs in use were set up for the TTY direction, the hearing aid
\* and the band there are; the media codec, which looks for none of them, is not
\* in use.
THEOREM CallsAreTuned == Spec => []CallTuned
<1>1. IInv => CallTuned
  <2> SUFFICES ASSUME IInv, Settled, HwMode = "incall", NEW d \in Dirs,
                      NEW name \in Codecs \cap used[d]
               PROVE  /\ tuned[d][name].tty = tty
                      /\ tuned[d][name].settings \cap CallSettings = on \cap CallSettings
    BY DEF CallTuned, Follows
  <2>1. SetUpOK(d, name) /\ changed = {} /\ WillOK(Rows, used)
    BY DEF IInv
  <2>2. PICK r \in Rows : r.name = name
    BY <2>1 DEF WillOK, Names
  <2>3. name # "HwCodecMedia"
    <3> SUFFICES ASSUME name = "HwCodecMedia" PROVE FALSE
      OBVIOUS
    <3>1. r.rule.special = "none" /\ \A e \in Dirs : "incall" \notin r.modes[e]
      BY <2>2, TheTable DEF IInv, StateOK, Table, CodecsAreWatched, Codecs
    <3>2. InRow(r)
      BY <2>1, <2>2, <3>1 DEF WillOK, Busy, Dirs, ReadRows, ReadsItsRow
    <3> QED BY <3>1, <3>2 DEF InRow
  <2> QED BY <2>1, <2>3 DEF SetUpOK
<1> QED BY <1>1, IInvHolds, PTL

\* No stream is carried to nowhere, however the devices, modes and conditions
\* changed: a back end of its route comes later in the list, fits as the route
\* does, and has no rival in that mode.  Calls are on a device.
THEOREM StreamsHaveBackEnds == CallsHaveDevices => (Spec => []BackEndServes)
<1>1. IInv /\ CallsHaveDevices => BackEndServes
  BY DEF IInv, BackEndServes
<1>2. CallsHaveDevices /\ [Next]_vars => CallsHaveDevices'
  BY DEF CallsHaveDevices
<1> QED BY <1>1, <1>2, IInvHolds, PTL DEF Spec

\* A call whose audio link is up has its route in both directions on whatever
\* device it is, and the modem's route a back end in both, under every TTY
\* direction: the input follows the output, which no rival can block.
THEOREM CallsAreDuplex == CallsHaveDevices => (Spec => []CallIsDuplex)
<1>1. IInv /\ CallsHaveDevices => CallIsDuplex
  BY DEF IInv, CallIsDuplex
<1>2. CallsHaveDevices /\ [Next]_vars => CallsHaveDevices'
  BY DEF CallsHaveDevices
<1> QED BY <1>1, <1>2, IInvHolds, PTL DEF Spec
=============================================================================
