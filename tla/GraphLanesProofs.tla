---------------------------- MODULE GraphLanesProofs ---------------------------
(***************************************************************************)
(* Proofs about the commit graph, for every history, in any order that      *)
(* puts no commit among its own parents: its lines lead from every commit   *)
(* to its parents and nowhere else, a line keeps its colour, and no row is  *)
(* too narrow.                                                              *)
(***************************************************************************)
EXTENDS GraphLanes, FiniteSetTheorems, SequenceTheorems, TLAPS

(* No lane waits for a commit that has been drawn.                          *)
WaitAhead == \A i \in DOMAIN graph.lanes : graph.lanes[i] # None => graph.lanes[i] >= Row

(* A line that leaves row r down the lane.                                  *)
Leaves(r, lane) == \E o \in EdgesOf(r, "outgoing") : o.to = lane

(* What a lane waits for is the end of a line that is drawn in it.          *)
WaitsAreDrawn ==
  \A i \in DOMAIN graph.lanes :
    graph.lanes[i] # None => \E r \in Seen : Leaves(r, i) /\ Ends(r, i) = {}

(* A line that has not ended has the colour of its lane.                    *)
ColourGoesOn ==
  \A r \in Seen : \A o \in EdgesOf(r, "outgoing") :
    Ends(r, o.to) = {} /\ o.to \in DOMAIN graph.lanes => graph.colors[o.to] = o.color

(* The inductive invariant.                                                 *)
IInv ==
  /\ TypeOK
  /\ WaitAhead
  /\ TellsParents
  /\ WaitsAreDrawn
  /\ NothingFromNowhere
  /\ ColourGoesOn
  /\ ColourKept
  /\ RoomForAll

-------------------------------------------------------------------------------
(* Numbers.                                                                 *)

(* A set of numbers has a least one: of the segments up to its members one  *)
(* contains no other, since finite sets are well founded.                   *)
LEMMA LeastNumber ==
  ASSUME NEW S \in SUBSET Nat, S # {}
  PROVE  \E n \in S : \A k \in S : n <= k
<1> DEFINE R == StrictSubsetOrdering(Nat)
           segments == {0..n : n \in S}
<1>1. IsWellFoundedOn(R, FiniteSubsetsOf(Nat))
  BY FS_StrictSubsetOrderingWellFounded
<1>2. ASSUME NEW n \in S PROVE 0..n \in FiniteSubsetsOf(Nat)
  <2>1. n \in Int /\ 0 \in Int /\ 0..n \subseteq Nat
    OBVIOUS
  <2>2. IsFiniteSet(0..n)
    BY <2>1, FS_Interval
  <2> QED
    BY <2>1, <2>2 DEF FiniteSubsetsOf
<1>3. segments \subseteq FiniteSubsetsOf(Nat) /\ segments # {}
  BY <1>2
<1>4. PICK x \in segments : \A y \in segments : <<y, x>> \notin R
  <2> HIDE DEF R, segments
  <2> QED
    BY <1>1, <1>3, WFMin
<1>5. PICK n \in S : x = 0..n
  BY <1>4
<1>6. ASSUME NEW k \in S, k < n PROVE FALSE
  <2>1. 0..k \subseteq 0..n /\ n \in 0..n /\ n \notin 0..k
    BY <1>6
  <2>2. <<0..k, 0..n>> \in R
    BY <2>1 DEF StrictSubsetOrdering
  <2> QED
    BY <1>4, <1>5, <2>2
<1> QED
  BY <1>6

(* What Min says.                                                           *)
LEMMA MinIsLeast ==
  ASSUME NEW S \in SUBSET Nat, S # {}
  PROVE  Min(S) \in S /\ \A k \in S : Min(S) <= k
<1>1. \E n \in S : \A k \in S : n <= k
  BY LeastNumber
<1> QED
  BY <1>1 DEF Min

(* What Max says, of a set with a bound.                                    *)
LEMMA MaxIsGreatest ==
  ASSUME NEW S \in SUBSET Nat, S # {}, NEW n \in Nat, \A k \in S : k <= n
  PROVE  Max(S) \in S /\ \A k \in S : k <= Max(S)
<1> DEFINE T == {n - k : k \in S}
<1>1. T \in SUBSET Nat /\ T # {}
  <2>1. ASSUME NEW k \in S PROVE n - k \in Nat
    OBVIOUS
  <2> QED
    BY <2>1
<1>2. PICK m \in T : \A k \in T : m <= k
  <2> HIDE DEF T
  <2> QED
    BY <1>1, LeastNumber
<1>3. PICK x \in S : m = n - x
  BY <1>2
<1>4. ASSUME NEW k \in S PROVE x >= k
  <2>1. m <= n - k
    BY <1>2
  <2> QED
    BY <1>3, <2>1
<1> QED
  BY <1>4 DEF Max

(* A function on the first numbers is a sequence.                           *)
LEMMA FunctionIsSeq ==
  ASSUME NEW S, NEW n \in Nat, NEW f \in [1..n -> S]
  PROVE  f \in Seq(S) /\ Len(f) = n
<1>1. f \in Seq(S)
  BY SeqDef
<1> QED
  BY <1>1

(* The elements of a sequence.                                              *)
LEMMA ElementInDomain ==
  ASSUME NEW S, NEW s \in Seq(S), NEW i \in DOMAIN s
  PROVE  s[i] \in S /\ i \in 1..Len(s)
OBVIOUS

(* The front of a sequence.                                                 *)
LEMMA FrontOfSeq ==
  ASSUME NEW S, NEW s \in Seq(S), NEW n \in Nat, n <= Len(s)
  PROVE  /\ SubSeq(s, 1, n) \in Seq(S) /\ Len(SubSeq(s, 1, n)) = n
         /\ \A i \in 1..n : SubSeq(s, 1, n)[i] = s[i]
OBVIOUS

-------------------------------------------------------------------------------
(* One commit gets its lane, and its parents theirs.                        *)

(* The allocator.                                                           *)
GraphRecords == [lanes : Seq(0..Commits), colors : Seq(Colors), next : Nat]

IsGraph(g) == g \in GraphRecords /\ Len(g.colors) = Len(g.lanes)

(* A lane that is given out was free, and no other changes.                 *)
LEMMA Allocated ==
  ASSUME NEW g, IsGraph(g), NEW new, new = AllocateLane(g)
  PROVE  /\ IsGraph(new.graph)
         /\ new.lane \in DOMAIN new.graph.lanes /\ new.graph.lanes[new.lane] = None
         /\ Len(g.lanes) <= Len(new.graph.lanes)
         /\ \A i \in DOMAIN g.lanes :
              /\ new.graph.lanes[i] = g.lanes[i]
              /\ i # new.lane => new.graph.colors[i] = g.colors[i]
         /\ \A i \in DOMAIN new.graph.lanes : i \in DOMAIN g.lanes \/ i = new.lane
<1> DEFINE free == Waiting(g, None) \cup {Len(g.lanes) + 1}
           lane == Min(free)
           wide == IF lane > Len(g.lanes)
                   THEN [g EXCEPT !.lanes = Append(@, None), !.colors = Append(@, 0)] ELSE g
<1>1. g.lanes \in Seq(0..Commits) /\ g.colors \in Seq(Colors) /\ g.next \in Nat
  BY DEF IsGraph, GraphRecords
<1>2. Len(g.lanes) \in Nat /\ DOMAIN g.lanes = 1..Len(g.lanes)
  BY <1>1
<1>3. free \in SUBSET Nat /\ free # {}
  BY <1>2 DEF Waiting
<1>4. lane \in free /\ \A k \in free : lane <= k
  <2> HIDE DEF free
  <2> QED
    BY <1>3, MinIsLeast
<1>5. /\ lane \in 1..(Len(g.lanes) + 1)
      /\ lane <= Len(g.lanes) => g.lanes[lane] = None
  BY <1>2, <1>4 DEF Waiting
<1>6. 0 \in Colors /\ g.next % Palette \in Colors /\ None \in 0..Commits
  BY <1>1, GraphLanesAssumption DEF Colors, None
<1> HIDE DEF lane
<1>7. /\ IsGraph(wide)
      /\ lane \in DOMAIN wide.lanes /\ wide.lanes[lane] = None
      /\ Len(g.lanes) <= Len(wide.lanes) /\ wide.next = g.next
      /\ \A i \in DOMAIN g.lanes : wide.lanes[i] = g.lanes[i] /\ wide.colors[i] = g.colors[i]
      /\ \A i \in DOMAIN wide.lanes : i \in DOMAIN g.lanes \/ i = lane
  <2>1. CASE lane > Len(g.lanes)
    <3>1. lane = Len(g.lanes) + 1
      BY <1>2, <1>5, <2>1
    <3>2. wide = [lanes |-> Append(g.lanes, None), colors |-> Append(g.colors, 0), next |-> g.next]
      BY <2>1 DEF IsGraph, GraphRecords
    <3>3. /\ wide.lanes = Append(g.lanes, None) /\ wide.colors = Append(g.colors, 0)
          /\ wide.next = g.next
      BY <3>2
    <3>4. /\ wide.lanes \in Seq(0..Commits) /\ Len(wide.lanes) = lane
          /\ wide.colors \in Seq(Colors) /\ Len(wide.colors) = lane
      <4>1. Len(g.colors) = Len(g.lanes)
        BY DEF IsGraph
      <4> HIDE DEF wide
      <4>2. wide.lanes \in Seq(0..Commits) /\ Len(wide.lanes) = Len(g.lanes) + 1
        BY <1>1, <1>6, <3>3
      <4>3. wide.colors \in Seq(Colors) /\ Len(wide.colors) = Len(g.colors) + 1
        BY <1>1, <1>6, <3>3
      <4> QED
        BY <3>1, <4>1, <4>2, <4>3
    <3>5. IsGraph(wide)
      BY <1>1, <3>2, <3>3, <3>4 DEF IsGraph, GraphRecords
    <3>6. \A i \in DOMAIN g.lanes : i \in DOMAIN g.colors
      BY <1>1, <1>2 DEF IsGraph
    <3>7. \A i \in DOMAIN g.lanes : wide.lanes[i] = g.lanes[i] /\ wide.colors[i] = g.colors[i]
      BY <1>1, <1>2, <3>3, <3>6 DEF IsGraph
    <3>8. wide.lanes[lane] = None
      BY <1>1, <3>1, <3>3
    <3> HIDE DEF wide
    <3> QED
      BY <1>1, <1>2, <3>1, <3>3, <3>4, <3>5, <3>7, <3>8
  <2>2. CASE lane <= Len(g.lanes)
    <3>1. wide = g
      BY <1>2, <1>5, <2>2
    <3>2. lane \in DOMAIN g.lanes
      BY <1>2, <1>5, <2>2
    <3> QED
      BY <1>2, <1>5, <2>2, <3>1, <3>2
  <2> HIDE DEF wide
  <2>3. lane > Len(g.lanes) \/ lane <= Len(g.lanes)
    BY <1>2, <1>5
  <2> QED
    BY <2>1, <2>2, <2>3
<1>8. new = [graph |-> [wide EXCEPT !.colors = [@ EXCEPT ![lane] = g.next % Palette], !.next = @ + 1], lane |-> lane]
  BY DEF AllocateLane, lane
<1> HIDE DEF wide
<1>9. /\ new.lane = lane
      /\ new.graph = [lanes |-> wide.lanes,
                      colors |-> [wide.colors EXCEPT ![lane] = g.next % Palette],
                      next |-> wide.next + 1]
  <2> DEFINE x == g.next % Palette
  <2> HIDE DEF x
  <2>1. wide \in GraphRecords
    BY <1>7 DEF IsGraph
  <2>2. PICK v : v = [wide EXCEPT !.colors = [@ EXCEPT ![lane] = x], !.next = @ + 1]
    OBVIOUS
  <2>3. v = [lanes |-> wide.lanes, colors |-> [wide.colors EXCEPT ![lane] = x], next |-> wide.next + 1]
    BY <2>1, <2>2 DEF GraphRecords
  <2>4. new.lane = lane /\ new.graph = v
    BY <1>8, <2>2 DEF x
  <2> QED
    BY <2>3, <2>4 DEF x
<1>10. wide.colors \in Seq(Colors) /\ lane \in DOMAIN wide.colors /\ wide.lanes \in Seq(0..Commits)
  BY <1>7 DEF IsGraph, GraphRecords
<1>11. /\ [wide.colors EXCEPT ![lane] = g.next % Palette] \in Seq(Colors)
       /\ Len([wide.colors EXCEPT ![lane] = g.next % Palette]) = Len(wide.colors)
       /\ \A i \in DOMAIN wide.colors :
            i # lane => [wide.colors EXCEPT ![lane] = g.next % Palette][i] = wide.colors[i]
  BY <1>6, <1>10
<1>12. IsGraph(new.graph)
  BY <1>7, <1>9, <1>11 DEF IsGraph, GraphRecords
<1>13. DOMAIN g.lanes \subseteq DOMAIN wide.colors
  BY <1>2, <1>7, <1>10 DEF IsGraph
<1> QED
  BY <1>7, <1>9, <1>11, <1>12, <1>13

(* A lane that is reserved waits for the parent, and no other changes.      *)
LEMMA ReservedLane ==
  ASSUME NEW g, IsGraph(g), NEW lane \in DOMAIN g.lanes, NEW p \in 0..Commits,
         NEW h, h = Reserved(g, lane, p)
  PROVE  /\ IsGraph(h)
         /\ DOMAIN h.lanes = DOMAIN g.lanes /\ Len(h.lanes) = Len(g.lanes)
         /\ h.lanes[lane] = p
         /\ \A i \in DOMAIN g.lanes : i # lane => h.lanes[i] = g.lanes[i]
         /\ h.colors = g.colors
<1>1. g \in GraphRecords /\ g.lanes \in Seq(0..Commits)
  BY DEF IsGraph, GraphRecords
<1>2. h = [lanes |-> [g.lanes EXCEPT ![lane] = p], colors |-> g.colors, next |-> g.next]
  BY <1>1 DEF Reserved, GraphRecords
<1>3. [g.lanes EXCEPT ![lane] = p] \in Seq(0..Commits)
  BY <1>1
<1>4. h \in GraphRecords
  BY <1>1, <1>2, <1>3 DEF GraphRecords
<1> QED
  BY <1>1, <1>2, <1>3, <1>4 DEF IsGraph

(* What the steps of `push` work on.                                        *)
Assignments == [graph : GraphRecords, lane : Nat, merged : SUBSET Nat, out : SUBSET Nat]

(* Of the lanes before, g, those that wait for others than c are left       *)
(* alone; every other that waits was given to a parent, and what is below   *)
(* c is not waited for.                                                     *)
Apart(g, c, a) ==
  /\ a \in Assignments /\ IsGraph(a.graph)
  /\ a.lane \in DOMAIN a.graph.lanes /\ a.out \subseteq DOMAIN a.graph.lanes
  /\ a.merged \subseteq Waiting(g, c) \ {a.lane}
  /\ Len(g.lanes) <= Len(a.graph.lanes)
  /\ \A i \in DOMAIN g.lanes : g.lanes[i] \notin {None, c} =>
       a.graph.lanes[i] = g.lanes[i] /\ a.graph.colors[i] = g.colors[i]
  /\ \A i \in DOMAIN a.graph.lanes : a.graph.lanes[i] # None =>
       /\ a.graph.lanes[i] > c
       /\ i \in a.out \/ (i \in DOMAIN g.lanes /\ g.lanes[i] = a.graph.lanes[i])
  /\ \A i \in a.merged : a.graph.lanes[i] = None

(* The lanes given out wait for the first n parents, but for those above.   *)
Reaches(ps, n, c, a) ==
  {a.graph.lanes[i] : i \in a.out} = {p \in {ps[j] : j \in 1..n} : p > c}

(* The lanes that waited for c keep their colours as long as they are       *)
(* either closed and ready to be taken over, or taken.                      *)
ColoursStay(g, c, a) == \A i \in Waiting(g, c) : a.graph.colors[i] = g.colors[i]
AllTaken(g, c, a) == \A i \in Waiting(g, c) : i \in a.merged \/ a.graph.lanes[i] # None

(* The commit in its lane.                                                  *)
LEMMA Claimed ==
  ASSUME NEW g, IsGraph(g), NEW c \in 1..Commits,
         \A i \in DOMAIN g.lanes : g.lanes[i] # None => g.lanes[i] >= c,
         NEW a, a = ClaimLane(g, c)
  PROVE  /\ Apart(g, c, a) /\ a.out = {} /\ a.graph.lanes[a.lane] = None
         /\ ColoursStay(g, c, a) /\ Waiting(g, c) \subseteq a.merged \cup {a.lane}
<1>1. /\ g \in GraphRecords /\ g.lanes \in Seq(0..Commits) /\ Len(g.lanes) \in Nat
      /\ DOMAIN g.lanes = 1..Len(g.lanes) /\ g.colors \in Seq(Colors)
  BY DEF IsGraph, GraphRecords
<1>2. None \in 0..Commits /\ c \in Nat /\ c # None
  BY GraphLanesAssumption DEF None
<1>3. ASSUME NEW i \in DOMAIN g.lanes, g.lanes[i] # None, g.lanes[i] # c PROVE g.lanes[i] > c
  <2>1. g.lanes[i] >= c
    BY <1>3
  <2>2. g.lanes[i] \in 0..Commits
    BY <1>1, ElementOfSeq
  <2> QED
    BY <1>2, <1>3, <2>1, <2>2
<1>4. CASE Waiting(g, c) = {}
  <2>1. PICK new : new = AllocateLane(g)
    OBVIOUS
  <2>2. a = [graph |-> new.graph, lane |-> new.lane, merged |-> {}, out |-> {}]
    BY <1>4, <2>1 DEF ClaimLane
  <2>3. /\ IsGraph(new.graph)
        /\ new.lane \in DOMAIN new.graph.lanes /\ new.graph.lanes[new.lane] = None
        /\ Len(g.lanes) <= Len(new.graph.lanes)
        /\ \A i \in DOMAIN g.lanes :
             /\ new.graph.lanes[i] = g.lanes[i]
             /\ i # new.lane => new.graph.colors[i] = g.colors[i]
        /\ \A i \in DOMAIN new.graph.lanes : i \in DOMAIN g.lanes \/ i = new.lane
    BY <2>1, Allocated
  <2>4. new.graph \in GraphRecords /\ new.lane \in Nat
    BY <2>3 DEF IsGraph, GraphRecords
  <2>5. a \in Assignments
    BY <2>2, <2>4 DEF Assignments
  <2>6. \A i \in DOMAIN g.lanes : g.lanes[i] # c
    BY <1>4 DEF Waiting
  <2>7. ASSUME NEW i \in DOMAIN new.graph.lanes, new.graph.lanes[i] # None
        PROVE  i \in DOMAIN g.lanes /\ g.lanes[i] = new.graph.lanes[i] /\ g.lanes[i] > c
    <3>1. i \in DOMAIN g.lanes
      BY <2>3, <2>7
    <3> QED
      BY <1>3, <2>3, <2>6, <2>7, <3>1
  <2>8. ASSUME NEW i \in DOMAIN g.lanes, g.lanes[i] # None
        PROVE  new.graph.colors[i] = g.colors[i]
    BY <2>3, <2>8
  <2>9. /\ a.graph = new.graph /\ a.lane = new.lane /\ a.merged = {} /\ a.out = {}
    BY <2>2
  <2> QED
    BY <1>4, <2>3, <2>5, <2>7, <2>8, <2>9 DEF Apart, ColoursStay
<1>5. CASE Waiting(g, c) # {}
  <2> DEFINE W == Waiting(g, c)
  <2>1. W \in SUBSET Nat /\ W \subseteq DOMAIN g.lanes
    BY <1>1 DEF Waiting
  <2>2. Min(W) \in W
    BY <1>5, <2>1, MinIsLeast
  <2>3. PICK h : h = Released(g, W)
    OBVIOUS
  <2>4. h = [lanes |-> [i \in DOMAIN g.lanes |-> IF i \in W THEN None ELSE g.lanes[i]],
             colors |-> g.colors, next |-> g.next]
    BY <1>1, <2>3 DEF Released, GraphRecords
  <2>5. /\ DOMAIN h.lanes = 1..Len(g.lanes) /\ h.colors = g.colors /\ h.next = g.next
        /\ \A i \in DOMAIN g.lanes : h.lanes[i] = IF i \in W THEN None ELSE g.lanes[i]
    BY <1>1, <2>4
  <2>6. h.lanes \in Seq(0..Commits) /\ Len(h.lanes) = Len(g.lanes)
    <3>1. \A i \in 1..Len(g.lanes) : (IF i \in W THEN None ELSE g.lanes[i]) \in 0..Commits
      BY <1>1, <1>2, ElementOfSeq
    <3>2. h.lanes \in [1..Len(g.lanes) -> 0..Commits]
      BY <1>1, <2>4, <3>1
    <3> QED
      BY <1>1, <3>2, FunctionIsSeq
  <2>7. h \in GraphRecords /\ IsGraph(h)
    BY <1>1, <2>4, <2>5, <2>6 DEF IsGraph, GraphRecords
  <2>8. a = [graph |-> h, lane |-> Min(W), merged |-> W \ {Min(W)}, out |-> {}]
    BY <1>5, <2>3 DEF ClaimLane
  <2> HIDE DEF W
  <2>9. /\ a.graph = h /\ a.lane = Min(W) /\ a.merged = W \ {Min(W)} /\ a.out = {}
    BY <2>8
  <2>10. a \in Assignments
    <3>1. Min(W) \in Nat /\ W \ {Min(W)} \in SUBSET Nat
      BY <2>1, <2>2
    <3> QED
      BY <2>7, <2>8, <3>1 DEF Assignments
  <2>11. ASSUME NEW i \in DOMAIN h.lanes, h.lanes[i] # None
         PROVE  i \in DOMAIN g.lanes /\ g.lanes[i] = h.lanes[i] /\ h.lanes[i] > c
    BY <1>1, <1>3, <2>5, <2>11 DEF W, Waiting
  <2>12. ASSUME NEW i \in DOMAIN g.lanes, g.lanes[i] \notin {None, c}
         PROVE  h.lanes[i] = g.lanes[i] /\ h.colors[i] = g.colors[i]
    BY <2>5, <2>12 DEF W, Waiting
  <2>13. Min(W) \in DOMAIN h.lanes /\ h.lanes[Min(W)] = None /\ \A i \in W : h.lanes[i] = None
    BY <1>1, <2>1, <2>2, <2>5
  <2>14. Len(g.lanes) <= Len(h.lanes)
    BY <1>1, <2>6
  <2>15. Apart(g, c, a)
    <3>1. a.merged \subseteq Waiting(g, c) \ {a.lane}
      BY <2>9 DEF W
    <3> QED
      BY <2>7, <2>9, <2>10, <2>11, <2>12, <2>13, <2>14, <3>1 DEF Apart
  <2> QED
    BY <2>5, <2>9, <2>13, <2>15 DEF W, ColoursStay
<1> QED
  BY <1>4, <1>5

(* The first parent.                                                        *)
LEMMA FirstAssigned ==
  ASSUME NEW g, IsGraph(g), NEW c \in 1..Commits, Seen = 1..(c - 1),
         NEW p \in 1..Commits, p # c,
         NEW a, Apart(g, c, a), a.out = {}, a.graph.lanes[a.lane] = None,
         ColoursStay(g, c, a), Waiting(g, c) \subseteq a.merged \cup {a.lane},
         NEW b, b = FirstParent(a, p), NEW ps, ps[1] = p
  PROVE  /\ Apart(g, c, b) /\ Reaches(ps, 1, c, b)
         /\ p > c => ColoursStay(g, c, b) /\ AllTaken(g, c, b)
<1>1. /\ c \in Nat /\ p \in Nat /\ p \in 0..Commits /\ p # None
      /\ p \in Seen <=> ~(p > c)
  BY GraphLanesAssumption DEF None
<1>2. {q \in {ps[j] : j \in 1..1} : q > c} = IF p > c THEN {p} ELSE {}
  OBVIOUS
<1>3. CASE p \in Seen
  <2>1. b = a
    BY <1>3 DEF FirstParent
  <2>2. Reaches(ps, 1, c, b)
    BY <1>1, <1>2, <1>3, <2>1 DEF Reaches
  <2> QED
    BY <1>1, <1>3, <2>1, <2>2
<1>4. CASE p \notin Seen
  <2>1. /\ a \in Assignments /\ IsGraph(a.graph) /\ a.lane \in DOMAIN a.graph.lanes
        /\ a.merged \subseteq Waiting(g, c) \ {a.lane} /\ Len(g.lanes) <= Len(a.graph.lanes)
    BY DEF Apart
  <2>2. PICK h : h = Reserved(a.graph, a.lane, p)
    OBVIOUS
  <2>3. /\ IsGraph(h)
        /\ DOMAIN h.lanes = DOMAIN a.graph.lanes /\ Len(h.lanes) = Len(a.graph.lanes)
        /\ h.lanes[a.lane] = p
        /\ \A i \in DOMAIN a.graph.lanes : i # a.lane => h.lanes[i] = a.graph.lanes[i]
        /\ h.colors = a.graph.colors
    BY <1>1, <2>1, <2>2, ReservedLane
  <2>4. b = [a EXCEPT !.graph = h, !.out = {a.lane}]
    BY <1>4, <2>2 DEF FirstParent
  <2>5. /\ b.graph = h /\ b.lane = a.lane /\ b.merged = a.merged /\ b.out = {a.lane}
        /\ b \in Assignments
    <3>1. b = [graph |-> h, lane |-> a.lane, merged |-> a.merged, out |-> {a.lane}]
      BY <2>1, <2>4 DEF Assignments
    <3>2. h \in GraphRecords /\ a.lane \in Nat /\ a.merged \in SUBSET Nat
      BY <2>1, <2>3 DEF Assignments, IsGraph
    <3>3. {a.lane} \in SUBSET Nat
      BY <3>2
    <3> QED
      BY <3>1, <3>2, <3>3 DEF Assignments
  <2>6. ASSUME NEW i \in DOMAIN g.lanes, g.lanes[i] \notin {None, c}
        PROVE  h.lanes[i] = g.lanes[i] /\ h.colors[i] = g.colors[i]
    <3>1. /\ a.graph.lanes[i] = g.lanes[i] /\ a.graph.colors[i] = g.colors[i]
          /\ i # a.lane
      BY <2>6 DEF Apart
    <3>2. i \in DOMAIN a.graph.lanes
      BY <2>1 DEF IsGraph, GraphRecords
    <3> QED
      BY <2>3, <3>1, <3>2
  <2>7. ASSUME NEW i \in DOMAIN h.lanes, h.lanes[i] # None
        PROVE  /\ h.lanes[i] > c
               /\ i \in b.out \/ (i \in DOMAIN g.lanes /\ g.lanes[i] = h.lanes[i])
    <3>1. CASE i = a.lane
      BY <1>1, <1>4, <2>3, <2>5, <3>1
    <3>2. CASE i # a.lane
      <4>1. h.lanes[i] = a.graph.lanes[i] /\ i \in DOMAIN a.graph.lanes
        BY <2>3, <3>2
      <4> QED
        BY <2>7, <4>1 DEF Apart
    <3> QED
      BY <3>1, <3>2
  <2>8. ASSUME NEW i \in a.merged PROVE h.lanes[i] = None
    <3>1. a.graph.lanes[i] = None /\ i # a.lane /\ i \in DOMAIN g.lanes
      BY <2>1 DEF Apart, Waiting
    <3>2. i \in DOMAIN a.graph.lanes
      BY <2>1, <3>1 DEF IsGraph, GraphRecords
    <3> QED
      BY <2>3, <3>1, <3>2
  <2>9. Apart(g, c, b)
    BY <2>1, <2>3, <2>5, <2>6, <2>7, <2>8 DEF Apart
  <2>10. Reaches(ps, 1, c, b)
    BY <1>1, <1>2, <1>4, <2>3, <2>5 DEF Reaches
  <2>11. ColoursStay(g, c, b)
    BY <2>3, <2>5 DEF ColoursStay
  <2>12. AllTaken(g, c, b)
    BY <1>1, <2>3, <2>5 DEF AllTaken
  <2> QED
    BY <2>9, <2>10, <2>11, <2>12
<1> QED
  BY <1>3, <1>4

(* The lane of another parent was free; it is one of those that have just   *)
(* been closed, as long as there are any, and then keeps its colour.        *)
LEMMA OtherLane ==
  ASSUME NEW g, NEW c \in 1..Commits, NEW a, Apart(g, c, a), IsGraph(g), NEW new,
         new = IF a.merged # {} THEN [graph |-> a.graph, lane |-> Min(a.merged)]
               ELSE AllocateLane(a.graph)
  PROVE  /\ IsGraph(new.graph)
         /\ new.lane \in DOMAIN new.graph.lanes /\ new.graph.lanes[new.lane] = None
         /\ Len(a.graph.lanes) <= Len(new.graph.lanes)
         /\ \A i \in DOMAIN a.graph.lanes :
              /\ new.graph.lanes[i] = a.graph.lanes[i]
              /\ i # new.lane \/ new.lane \in a.merged => new.graph.colors[i] = a.graph.colors[i]
         /\ \A i \in DOMAIN new.graph.lanes : i \in DOMAIN a.graph.lanes \/ i = new.lane
         /\ a.merged # {} => new.lane \in a.merged
<1>1. /\ IsGraph(a.graph) /\ a.merged \subseteq DOMAIN a.graph.lanes
      /\ \A i \in a.merged : a.graph.lanes[i] = None
      /\ a.merged \in SUBSET Nat /\ Len(a.graph.lanes) \in Nat
  BY DEF Apart, Waiting, Assignments, IsGraph, GraphRecords
<1>2. CASE a.merged # {}
  <2>1. Min(a.merged) \in a.merged
    BY <1>1, <1>2, MinIsLeast
  <2>2. new.graph = a.graph /\ new.lane = Min(a.merged)
    BY <1>2
  <2>3. /\ new.lane \in a.merged /\ new.lane \in DOMAIN a.graph.lanes
        /\ a.graph.lanes[new.lane] = None
    BY <1>1, <2>1, <2>2
  <2>4. Len(a.graph.lanes) <= Len(a.graph.lanes)
    BY <1>1
  <2> QED
    BY <1>1, <2>2, <2>3, <2>4
<1>3. CASE a.merged = {}
  <2>1. new = AllocateLane(a.graph)
    BY <1>3
  <2> QED
    BY <1>1, <1>3, <2>1, Allocated
<1> QED
  BY <1>2, <1>3

(* Another parent.                                                          *)
LEMMA OtherAssigned ==
  ASSUME NEW g, IsGraph(g), NEW c \in 1..Commits, Seen = 1..(c - 1),
         NEW p \in 1..Commits, p # c,
         NEW ps, NEW n \in Nat, ps[n + 1] = p,
         NEW a, Apart(g, c, a), Reaches(ps, n, c, a), NEW b, b = OtherParent(a, p)
  PROVE  /\ Apart(g, c, b) /\ Reaches(ps, n + 1, c, b)
         /\ ColoursStay(g, c, a) /\ AllTaken(g, c, a) => ColoursStay(g, c, b) /\ AllTaken(g, c, b)
<1>1. /\ c \in Nat /\ p \in Nat /\ p \in 0..Commits /\ p # None
      /\ p \in Seen <=> ~(p > c)
  BY GraphLanesAssumption DEF None
<1>2. {q \in {ps[j] : j \in 1..(n + 1)} : q > c}
        = {q \in {ps[j] : j \in 1..n} : q > c} \cup (IF p > c THEN {p} ELSE {})
  <2>1. 1..(n + 1) = (1..n) \cup {n + 1}
    OBVIOUS
  <2>2. {ps[j] : j \in 1..(n + 1)} = {ps[j] : j \in 1..n} \cup {p}
    BY <2>1
  <2> QED
    BY <2>2
<1>3. /\ a \in Assignments /\ IsGraph(a.graph) /\ a.lane \in DOMAIN a.graph.lanes
      /\ a.out \subseteq DOMAIN a.graph.lanes
      /\ a.merged \subseteq Waiting(g, c) \ {a.lane} /\ Len(g.lanes) <= Len(a.graph.lanes)
      /\ DOMAIN g.lanes \subseteq DOMAIN a.graph.lanes
      /\ \A i \in a.merged : a.graph.lanes[i] = None
  BY DEF Apart, IsGraph, GraphRecords
<1>4. CASE p \in Seen
  <2>1. b = a
    BY <1>4 DEF OtherParent
  <2>2. Reaches(ps, n + 1, c, b)
    BY <1>1, <1>2, <1>4, <2>1 DEF Reaches
  <2> QED
    BY <2>1, <2>2
<1>5. CASE p \notin Seen /\ Waiting(a.graph, p) # {}
  <2>1. Waiting(a.graph, p) \in SUBSET Nat
    BY <1>3 DEF Waiting, IsGraph, GraphRecords
  <2>2. PICK w : w = Min(Waiting(a.graph, p))
    OBVIOUS
  <2>3. w \in DOMAIN a.graph.lanes /\ a.graph.lanes[w] = p /\ w \in Nat
    BY <1>5, <2>1, <2>2, MinIsLeast DEF Waiting
  <2>4. b = [a EXCEPT !.out = @ \cup {w}]
    BY <1>5, <2>2 DEF OtherParent
  <2>5. /\ b.graph = a.graph /\ b.lane = a.lane /\ b.merged = a.merged
        /\ b.out = a.out \cup {w} /\ b \in Assignments
    <3>1. b = [graph |-> a.graph, lane |-> a.lane, merged |-> a.merged, out |-> a.out \cup {w}]
      BY <1>3, <2>4 DEF Assignments
    <3>2. a.graph \in GraphRecords /\ a.lane \in Nat /\ a.merged \in SUBSET Nat
          /\ a.out \cup {w} \in SUBSET Nat
      BY <1>3, <2>3 DEF Assignments
    <3> QED
      BY <3>1, <3>2 DEF Assignments
  <2>6. Apart(g, c, b)
    BY <2>3, <2>5 DEF Apart
  <2>7. {b.graph.lanes[i] : i \in b.out} = {a.graph.lanes[i] : i \in a.out} \cup {p}
    BY <2>3, <2>5
  <2>8. Reaches(ps, n + 1, c, b)
    BY <1>1, <1>2, <1>5, <2>7 DEF Reaches
  <2> QED
    BY <2>5, <2>6, <2>8 DEF ColoursStay, AllTaken
<1>6. CASE p \notin Seen /\ Waiting(a.graph, p) = {}
  <2>1. PICK new : new = IF a.merged # {} THEN [graph |-> a.graph, lane |-> Min(a.merged)]
                         ELSE AllocateLane(a.graph)
    OBVIOUS
  <2>2. /\ IsGraph(new.graph)
        /\ new.lane \in DOMAIN new.graph.lanes /\ new.graph.lanes[new.lane] = None
        /\ Len(a.graph.lanes) <= Len(new.graph.lanes)
        /\ \A i \in DOMAIN a.graph.lanes :
             /\ new.graph.lanes[i] = a.graph.lanes[i]
             /\ i # new.lane \/ new.lane \in a.merged => new.graph.colors[i] = a.graph.colors[i]
        /\ \A i \in DOMAIN new.graph.lanes : i \in DOMAIN a.graph.lanes \/ i = new.lane
        /\ a.merged # {} => new.lane \in a.merged
    BY <2>1, OtherLane
  <2>3. PICK h : h = Reserved(new.graph, new.lane, p)
    OBVIOUS
  <2>4. /\ IsGraph(h)
        /\ DOMAIN h.lanes = DOMAIN new.graph.lanes /\ Len(h.lanes) = Len(new.graph.lanes)
        /\ h.lanes[new.lane] = p
        /\ \A i \in DOMAIN new.graph.lanes : i # new.lane => h.lanes[i] = new.graph.lanes[i]
        /\ h.colors = new.graph.colors
    BY <1>1, <2>2, <2>3, ReservedLane
  <2>5. b = [a EXCEPT !.graph = h, !.merged = @ \ {new.lane}, !.out = @ \cup {new.lane}]
    BY <1>6, <2>1, <2>3 DEF OtherParent
  <2>6. /\ b.graph = h /\ b.lane = a.lane /\ b.merged = a.merged \ {new.lane}
        /\ b.out = a.out \cup {new.lane} /\ b \in Assignments
    <3>1. b = [graph |-> h, lane |-> a.lane, merged |-> a.merged \ {new.lane},
               out |-> a.out \cup {new.lane}]
      BY <1>3, <2>5 DEF Assignments
    <3>2. h \in GraphRecords /\ new.lane \in Nat
      BY <2>2, <2>4 DEF IsGraph, GraphRecords
    <3>3. a.lane \in Nat /\ a.merged \ {new.lane} \in SUBSET Nat
          /\ a.out \cup {new.lane} \in SUBSET Nat
      BY <1>3, <3>2 DEF Assignments
    <3> QED
      BY <3>1, <3>2, <3>3 DEF Assignments
  <2>7. /\ DOMAIN a.graph.lanes \subseteq DOMAIN h.lanes
        /\ Len(g.lanes) <= Len(h.lanes)
    BY <1>3, <2>2, <2>4 DEF IsGraph, GraphRecords
  <2>8. ASSUME NEW i \in DOMAIN a.graph.lanes, a.graph.lanes[i] # None
        PROVE  /\ i # new.lane /\ h.lanes[i] = a.graph.lanes[i]
               /\ h.colors[i] = a.graph.colors[i]
    BY <2>2, <2>4, <2>7, <2>8
  <2>9. ASSUME NEW i \in DOMAIN h.lanes, i # new.lane
        PROVE  i \in DOMAIN a.graph.lanes /\ h.lanes[i] = a.graph.lanes[i]
    BY <2>2, <2>4, <2>9
  <2>10. ASSUME NEW i \in DOMAIN g.lanes, g.lanes[i] \notin {None, c}
         PROVE  h.lanes[i] = g.lanes[i] /\ h.colors[i] = g.colors[i]
    <3>1. /\ a.graph.lanes[i] = g.lanes[i] /\ a.graph.colors[i] = g.colors[i]
          /\ i \in DOMAIN a.graph.lanes /\ a.graph.lanes[i] # None
      BY <1>3, <2>10 DEF Apart
    <3> QED
      BY <2>8, <3>1
  <2>11. ASSUME NEW i \in DOMAIN h.lanes, h.lanes[i] # None
         PROVE  /\ h.lanes[i] > c
                /\ i \in b.out \/ (i \in DOMAIN g.lanes /\ g.lanes[i] = h.lanes[i])
    <3>1. CASE i = new.lane
      BY <1>1, <1>6, <2>4, <2>6, <3>1
    <3>2. CASE i # new.lane
      <4>1. h.lanes[i] = a.graph.lanes[i] /\ i \in DOMAIN a.graph.lanes
        BY <2>9, <3>2
      <4> QED
        BY <2>6, <2>11, <4>1 DEF Apart
    <3> QED
      BY <3>1, <3>2
  <2>12. ASSUME NEW i \in b.merged PROVE h.lanes[i] = None
    <3>1. i \in DOMAIN a.graph.lanes /\ a.graph.lanes[i] = None /\ i # new.lane
      BY <1>3, <2>6 DEF Waiting
    <3> QED
      BY <2>2, <2>4, <2>7, <3>1
  <2>13. a.lane \in DOMAIN h.lanes /\ b.out \subseteq DOMAIN h.lanes
         /\ b.merged \subseteq Waiting(g, c) \ {b.lane}
    BY <1>3, <2>2, <2>4, <2>6, <2>7
  <2>14. Apart(g, c, b)
    BY <2>4, <2>6, <2>7, <2>10, <2>11, <2>12, <2>13 DEF Apart
  <2>15. ASSUME NEW i \in a.out PROVE h.lanes[i] = a.graph.lanes[i]
    <3>1. a.graph.lanes[i] > c
      BY DEF Reaches
    <3> QED
      BY <1>1, <1>3, <2>8, <3>1 DEF None
  <2>16. {h.lanes[i] : i \in b.out} = {a.graph.lanes[i] : i \in a.out} \cup {p}
    BY <2>4, <2>6, <2>15
  <2>17. Reaches(ps, n + 1, c, b)
    <3>1. {a.graph.lanes[i] : i \in a.out} = {q \in {ps[j] : j \in 1..n} : q > c}
      BY DEF Reaches
    <3>2. p > c
      BY <1>1, <1>6
    <3>3. {b.graph.lanes[i] : i \in b.out} = {q \in {ps[j] : j \in 1..n} : q > c} \cup {p}
      <4>1. {b.graph.lanes[i] : i \in b.out} = {h.lanes[i] : i \in b.out}
        BY <2>6
      <4> QED
        BY <2>16, <3>1, <4>1
    <3> QED
      BY <1>2, <3>2, <3>3 DEF Reaches
  <2>18. ASSUME ColoursStay(g, c, a), AllTaken(g, c, a), NEW i \in Waiting(g, c)
         PROVE  /\ b.graph.colors[i] = g.colors[i]
                /\ i \in b.merged \/ b.graph.lanes[i] # None
    <3>1. i \in DOMAIN a.graph.lanes /\ a.graph.colors[i] = g.colors[i]
      BY <1>3, <2>18 DEF Waiting, ColoursStay
    <3>2. i \in a.merged \/ a.graph.lanes[i] # None
      BY <2>18 DEF AllTaken
    <3>3. h.colors[i] = a.graph.colors[i]
      <4>1. CASE new.lane \in a.merged
        BY <2>2, <2>4, <3>1, <4>1
      <4>2. CASE a.merged = {}
        BY <2>8, <3>1, <3>2, <4>2
      <4> QED
        BY <2>2, <4>1, <4>2
    <3>4. i \in b.merged \/ h.lanes[i] # None
      BY <1>1, <2>4, <2>6, <2>8, <3>1, <3>2
    <3> QED
      BY <2>6, <3>1, <3>3, <3>4
  <2> QED
    BY <2>14, <2>17, <2>18 DEF ColoursStay, AllTaken
<1> QED
  BY <1>4, <1>5, <1>6

(* What the n-th parent does to the assignment before it.                   *)
Assigns(claim, ps, n, a) ==
  CASE n = 0 -> claim
    [] n = 1 -> FirstParent(a, ps[1])
    [] OTHER -> OtherParent(a, ps[n])

(* The first N of them.                                                     *)
InTurn(claim, ps, N, A) == A = [n \in 0..N |-> Assigns(claim, ps, n, A[n - 1])]

(* The assignments, one parent after the other, are there: of the lengths   *)
(* they would not be there for, none is the least.                          *)
LEMMA AssignmentsExist ==
  ASSUME NEW claim, NEW ps, NEW N \in Nat
  PROVE  \E A : InTurn(claim, ps, N, A)
<1> DEFINE Exists(m) == \E A : A = [n \in 0..m |-> Assigns(claim, ps, n, A[n - 1])]
           S == {m \in Nat : ~Exists(m)}
<1>1. Exists(0)
  <2> DEFINE A == [n \in 0..0 |-> claim]
  <2>1. A = [n \in 0..0 |-> Assigns(claim, ps, n, A[n - 1])]
    BY DEF Assigns
  <2> QED
    BY <2>1
<1>2. ASSUME NEW m \in Nat, m # 0, Exists(m - 1) PROVE Exists(m)
  <2>1. PICK A : A = [n \in 0..(m - 1) |-> Assigns(claim, ps, n, A[n - 1])]
    BY <1>2
  <2> DEFINE B == [n \in 0..m |-> IF n = m THEN Assigns(claim, ps, m, A[m - 1]) ELSE A[n]]
  <2>2. \A n \in 0..(m - 1) : A[n] = Assigns(claim, ps, n, A[n - 1])
    BY <2>1
  <2>3. ASSUME NEW n \in 0..m PROVE B[n] = Assigns(claim, ps, n, B[n - 1])
    <3>1. CASE n = 0
      <4>1. \A x, y : Assigns(claim, ps, 0, x) = Assigns(claim, ps, 0, y)
        BY DEF Assigns
      <4>2. B[n] = A[0] /\ A[0] = Assigns(claim, ps, 0, A[0 - 1])
        BY <1>2, <2>2, <3>1
      <4> QED
        BY <3>1, <4>1, <4>2
    <3>2. CASE n # 0
      <4>1. B[n - 1] = A[n - 1]
        BY <3>2
      <4>2. CASE n = m
        BY <4>1, <4>2
      <4>3. CASE n # m
        <5>1. n \in 0..(m - 1) /\ B[n] = A[n]
          BY <4>3
        <5> QED
          BY <2>2, <4>1, <5>1
      <4> QED
        BY <4>2, <4>3
    <3> QED
      BY <3>1, <3>2
  <2>4. DOMAIN B = 0..m
    OBVIOUS
  <2>5. B = [n \in 0..m |-> B[n]]
    OBVIOUS
  <2>6. B = [n \in 0..m |-> Assigns(claim, ps, n, B[n - 1])]
    <3> HIDE DEF B
    <3> QED
      BY <2>3, <2>5
  <2> HIDE DEF B
  <2> QED
    BY <2>6
<1>3. S = {}
  <2>1. SUFFICES ASSUME S # {} PROVE FALSE
    OBVIOUS
  <2>2. PICK m \in S : \A k \in S : m <= k
    <3>1. S \in SUBSET Nat
      OBVIOUS
    <3> HIDE DEF S
    <3> QED
      BY <2>1, <3>1, LeastNumber
  <2>3. m \in Nat /\ ~Exists(m) /\ m # 0
    BY <1>1
  <2>4. m - 1 \in Nat /\ m - 1 \notin S
    BY <2>2, <2>3
  <2> HIDE DEF Exists
  <2>5. Exists(m - 1)
    BY <2>4
  <2> QED
    BY <1>2, <2>3, <2>5
<1>4. Exists(N)
  <2> HIDE DEF Exists
  <2> QED
    BY <1>3
<1> QED
  BY <1>4 DEF InTurn

(* The assignments that lead to the one of AssignParents.                   *)
AssignedBy(claim, ps, A) ==
  /\ AssignParents(claim, ps) = A[Len(ps)]
  /\ A[0] = claim
  /\ Len(ps) > 0 => A[1] = FirstParent(claim, ps[1])
  /\ \A n \in 1..(Len(ps) - 1) : A[n + 1] = OtherParent(A[n], ps[n + 1])

(* AssignParents assigns them so.                                           *)
LEMMA AssignsInTurn ==
  ASSUME NEW claim, NEW ps \in Seq(1..Commits)
  PROVE  \E A : AssignedBy(claim, ps, A)
<1> DEFINE N == Len(ps)
           Is(A) == A = [n \in 0..N |-> CASE n = 0 -> claim
                                         [] n = 1 -> FirstParent(A[0], ps[1])
                                         [] OTHER -> OtherParent(A[n - 1], ps[n])]
           C == CHOOSE A : Is(A)
<1>1. N \in Nat
  OBVIOUS
<1>2. PICK A : InTurn(claim, ps, N, A)
  <2> HIDE DEF N
  <2> QED
    BY <1>1, AssignmentsExist
<1>3. Is(A)
  <2>1. ASSUME NEW n \in 0..N
        PROVE  Assigns(claim, ps, n, A[n - 1]) = CASE n = 0 -> claim
                                                   [] n = 1 -> FirstParent(A[0], ps[1])
                                                   [] OTHER -> OtherParent(A[n - 1], ps[n])
    <3>1. n = 1 => n - 1 = 0
      OBVIOUS
    <3> QED
      BY <3>1 DEF Assigns
  <2> HIDE DEF N
  <2> QED
    BY <1>2, <2>1 DEF InTurn
<1>4. Is(C)
  <2> HIDE DEF Is
  <2> QED
    BY <1>3
<1>5. AssignParents(claim, ps) = C[N]
  BY DEF AssignParents
<1> HIDE DEF C
<1>6. \A n \in 0..N : C[n] = CASE n = 0 -> claim
                               [] n = 1 -> FirstParent(C[0], ps[1])
                               [] OTHER -> OtherParent(C[n - 1], ps[n])
  <2> HIDE DEF N
  <2> QED
    BY <1>4
<1>7. C[0] = claim
  BY <1>1, <1>6
<1>8. N > 0 => C[1] = FirstParent(claim, ps[1])
  BY <1>1, <1>6, <1>7
<1>9. ASSUME NEW n \in 1..(N - 1) PROVE C[n + 1] = OtherParent(C[n], ps[n + 1])
  <2>1. n + 1 \in 0..N /\ n + 1 # 0 /\ n + 1 # 1 /\ (n + 1) - 1 = n
    BY <1>1
  <2> QED
    BY <1>6, <2>1
<1> QED
  BY <1>5, <1>7, <1>8, <1>9 DEF AssignedBy

(* What is waited for is still to be drawn.                                 *)
Ahead(g, c) == \A i \in DOMAIN g.lanes : g.lanes[i] # None => g.lanes[i] >= c

(* All parents of the commit.                                               *)
LEMMA AllAssigned ==
  ASSUME NEW g, IsGraph(g), NEW c \in 1..Commits, Seen = 1..(c - 1), Ahead(g, c),
         NEW ps \in Seq(1..Commits), c \notin Range(ps),
         NEW a, a = AssignParents(ClaimLane(g, c), ps)
  PROVE  /\ Apart(g, c, a) /\ Reaches(ps, Len(ps), c, a)
         /\ ps = <<>> \/ ps[1] > c => ColoursStay(g, c, a)
<1>1. PICK claim : claim = ClaimLane(g, c)
  OBVIOUS
<1>2. /\ Apart(g, c, claim) /\ claim.out = {} /\ claim.graph.lanes[claim.lane] = None
      /\ ColoursStay(g, c, claim) /\ Waiting(g, c) \subseteq claim.merged \cup {claim.lane}
  BY <1>1, Claimed DEF Ahead
<1>3. PICK A : AssignedBy(claim, ps, A)
  BY AssignsInTurn
<1>4. Len(ps) \in Nat /\ a = A[Len(ps)]
  BY <1>1, <1>3 DEF AssignedBy
<1>5. ASSUME NEW n \in 1..Len(ps) PROVE ps[n] \in 1..Commits /\ ps[n] # c
  <2>1. n \in DOMAIN ps /\ ps[n] \in 1..Commits
    BY LenProperties, ElementOfSeq
  <2> QED
    BY <2>1 DEF Range
<1>6. CASE Len(ps) = 0
  <2>1. ps = <<>> /\ a = claim
    BY <1>3, <1>4, <1>6 DEF AssignedBy
  <2>2. {p \in {ps[j] : j \in 1..0} : p > c} = {}
    OBVIOUS
  <2>3. Reaches(ps, Len(ps), c, a)
    BY <1>2, <1>6, <2>1, <2>2 DEF Reaches
  <2> QED
    BY <1>2, <2>1, <2>3
<1>7. CASE Len(ps) > 0
  <2> DEFINE P(n) == /\ Apart(g, c, A[n]) /\ Reaches(ps, n, c, A[n])
                     /\ ps[1] > c => ColoursStay(g, c, A[n]) /\ AllTaken(g, c, A[n])
             S == {n \in 1..Len(ps) : ~P(n)}
  <2>1. P(1)
    <3>1. 1 \in 1..Len(ps) /\ ps[1] \in 1..Commits /\ ps[1] # c
      BY <1>4, <1>5, <1>7
    <3>2. A[1] = FirstParent(claim, ps[1])
      BY <1>3, <1>7 DEF AssignedBy
    <3> QED
      BY <1>2, <3>1, <3>2, FirstAssigned
  <2>2. ASSUME NEW n \in 1..(Len(ps) - 1), P(n) PROVE P(n + 1)
    <3>1. n \in Nat /\ n + 1 \in 1..Len(ps)
      BY <1>4
    <3>2. ps[n + 1] \in 1..Commits /\ ps[n + 1] # c
      BY <1>5, <3>1
    <3>3. A[n + 1] = OtherParent(A[n], ps[n + 1])
      BY <1>3 DEF AssignedBy
    <3> QED
      BY <2>2, <3>1, <3>2, <3>3, OtherAssigned
  <2> HIDE DEF P
  <2>3. S = {}
    <3>1. SUFFICES ASSUME S # {} PROVE FALSE
      OBVIOUS
    <3>2. PICK m \in S : \A k \in S : m <= k
      <4>1. S \in SUBSET Nat
        BY <1>4
      <4> HIDE DEF S
      <4> QED
        BY <3>1, <4>1, LeastNumber
    <3>3. m \in 1..Len(ps) /\ ~P(m) /\ m # 1
      BY <2>1
    <3>4. m - 1 \in 1..(Len(ps) - 1) /\ (m - 1) + 1 = m /\ m - 1 \notin S
      BY <1>4, <3>2, <3>3
    <3>5. P(m - 1)
      BY <1>4, <3>4
    <3> QED
      BY <2>2, <3>3, <3>4, <3>5
  <2>4. P(Len(ps))
    BY <1>4, <1>7, <2>3
  <2> QED
    BY <1>4, <1>7, <2>4 DEF P
<1> QED
  BY <1>4, <1>6, <1>7

(* Only free lanes are trimmed, and the last one that is left is not free.  *)
LEMMA TrimmedGraph ==
  ASSUME NEW g, IsGraph(g), NEW h, h = Trimmed(g)
  PROVE  /\ IsGraph(h) /\ Len(h.lanes) <= Len(g.lanes)
         /\ \A i \in DOMAIN h.lanes :
              i \in DOMAIN g.lanes /\ h.lanes[i] = g.lanes[i] /\ h.colors[i] = g.colors[i]
         /\ \A i \in DOMAIN g.lanes : g.lanes[i] # None => i \in DOMAIN h.lanes
         /\ h.lanes # <<>> => Last(h.lanes) # None
<1> DEFINE T == {i \in DOMAIN g.lanes : g.lanes[i] # None} \cup {0}
           last == Max(T)
<1>1. /\ g \in GraphRecords /\ g.lanes \in Seq(0..Commits) /\ g.colors \in Seq(Colors)
      /\ Len(g.lanes) \in Nat /\ DOMAIN g.lanes = 1..Len(g.lanes)
      /\ Len(g.colors) = Len(g.lanes) /\ g.next \in Nat
  BY DEF IsGraph, GraphRecords
<1>2. T \in SUBSET Nat /\ T # {} /\ \A k \in T : k <= Len(g.lanes)
  BY <1>1
<1>3. last \in T /\ \A k \in T : k <= last
  <2> HIDE DEF T
  <2> QED
    BY <1>1, <1>2, MaxIsGreatest
<1>4. /\ last \in 0..Len(g.lanes)
      /\ \A i \in DOMAIN g.lanes : g.lanes[i] # None => i <= last
      /\ last # 0 => g.lanes[last] # None
  BY <1>1, <1>3
<1>5. h = [g EXCEPT !.lanes = SubSeq(@, 1, last), !.colors = SubSeq(@, 1, last)]
  BY DEF Trimmed
<1> HIDE DEF last
<1>6. h = [lanes |-> SubSeq(g.lanes, 1, last), colors |-> SubSeq(g.colors, 1, last), next |-> g.next]
  BY <1>1, <1>5 DEF GraphRecords
<1>7. /\ SubSeq(g.lanes, 1, last) \in Seq(0..Commits) /\ Len(SubSeq(g.lanes, 1, last)) = last
      /\ \A i \in 1..last : SubSeq(g.lanes, 1, last)[i] = g.lanes[i]
  <2>1. last \in Nat /\ last <= Len(g.lanes)
    BY <1>1, <1>4
  <2> QED
    BY <1>1, <2>1, FrontOfSeq
<1>8. /\ SubSeq(g.colors, 1, last) \in Seq(Colors) /\ Len(SubSeq(g.colors, 1, last)) = last
      /\ \A i \in 1..last : SubSeq(g.colors, 1, last)[i] = g.colors[i]
  <2>1. last \in Nat /\ last <= Len(g.colors)
    BY <1>1, <1>4
  <2> QED
    BY <1>1, <2>1, FrontOfSeq
<1>9. /\ IsGraph(h) /\ Len(h.lanes) = last /\ DOMAIN h.lanes = 1..last
      /\ \A i \in 1..last : h.lanes[i] = g.lanes[i] /\ h.colors[i] = g.colors[i]
  BY <1>1, <1>6, <1>7, <1>8 DEF IsGraph, GraphRecords
<1>10. h.lanes # <<>> => Last(h.lanes) # None
  <2>1. SUFFICES ASSUME h.lanes # <<>> PROVE Last(h.lanes) # None
    OBVIOUS
  <2>2. last # 0
    BY <1>9, <2>1 DEF IsGraph, GraphRecords
  <2>3. last \in 1..last
    BY <1>4, <2>2
  <2> QED
    BY <1>4, <1>9, <2>2, <2>3 DEF Last
<1> QED
  BY <1>1, <1>4, <1>9, <1>10

-------------------------------------------------------------------------------
(* A row is drawn.                                                          *)

(* The lanes before and after it.                                           *)
LanesMove(R, ps, a) ==
  /\ IsGraph(graph') /\ (graph'.lanes # <<>> => Last(graph'.lanes) # None)
  /\ \A i \in DOMAIN graph.lanes : graph.lanes[i] \notin {None, R} =>
       /\ i \in DOMAIN graph'.lanes
       /\ graph'.lanes[i] = graph.lanes[i] /\ graph'.colors[i] = graph.colors[i]
       /\ a.graph.colors[i] = graph.colors[i]
  /\ \A i \in DOMAIN graph'.lanes : graph'.lanes[i] # None =>
       /\ graph'.lanes[i] > R
       /\ i \in a.out \/ (i \in DOMAIN graph.lanes /\ graph.lanes[i] = graph'.lanes[i])
  /\ \A i \in a.out :
       /\ i \in DOMAIN graph'.lanes /\ graph'.lanes[i] # None
       /\ graph'.colors[i] = a.graph.colors[i]
  /\ {graph'.lanes[i] : i \in a.out} = {p \in Range(ps) : p > R}
  /\ ps = <<>> \/ ps[1] > R =>
       \A i \in Waiting(graph, R) : a.graph.colors[i] = graph.colors[i]

(* The new row.                                                             *)
Drawn(R, a) ==
  [lane |-> a.lane, color |-> a.graph.colors[a.lane],
   edges |-> BuildEdges(R, graph.lanes, a),
   lane_count |-> LaneCount(graph.lanes, graph'.lanes, a.lane)]

(* The commit of the row, its parents and the lanes they get.               *)
Draws(R, ps, a) ==
  /\ ps \in Seq(1..Commits) /\ R \notin Range(ps)
  /\ a \in Assignments /\ IsGraph(a.graph) /\ a.lane \in DOMAIN a.graph.lanes
  /\ a.out \subseteq DOMAIN a.graph.lanes /\ Len(graph.lanes) <= Len(a.graph.lanes)
  /\ LanesMove(R, ps, a)
  /\ rows' = Append(rows, Drawn(R, a)) /\ parents' = Append(parents, ps)

(* So does `push`.                                                          *)
LEMMA PushDraws ==
  ASSUME TypeOK, WaitAhead, NEW R, R = Row, R <= Loaded, NEW ps \in Histories, Push(ps)
  PROVE  R \in 1..Commits /\ \E a : Draws(R, ps, a)
<1>1. IsGraph(graph) /\ Ahead(graph, R)
  BY DEF TypeOK, IsGraph, GraphRecords, WaitAhead, Ahead
<1>2. rows \in Seq(Rows) /\ Len(rows) \in Nat /\ R = Len(rows) + 1 /\ Seen = 1..(R - 1)
  BY DEF TypeOK, Row, Seen
<1>3. R \in 1..Commits
  BY <1>2, GraphLanesAssumption
<1>4. ps \in Seq(1..Commits) /\ R \notin Range(ps)
  <2>1. PICK n \in 0..MaxParents : ps \in [1..n -> (1..Commits) \ ({Row} \cup Descendants)]
    BY DEF Histories
  <2>2. ps \in [1..n -> 1..Commits] /\ n \in Nat
    BY <2>1, GraphLanesAssumption
  <2>3. ps \in Seq(1..Commits)
    BY <2>2, FunctionIsSeq
  <2> QED
    BY <2>1, <2>3 DEF Range
<1>5. PICK a : a = AssignParents(ClaimLane(graph, R), ps)
  OBVIOUS
<1>6. /\ Apart(graph, R, a) /\ Reaches(ps, Len(ps), R, a)
      /\ ps = <<>> \/ ps[1] > R => ColoursStay(graph, R, a)
  BY <1>1, <1>2, <1>3, <1>4, <1>5, AllAssigned
<1>7. /\ a \in Assignments /\ IsGraph(a.graph) /\ a.lane \in DOMAIN a.graph.lanes
      /\ a.out \subseteq DOMAIN a.graph.lanes /\ Len(graph.lanes) <= Len(a.graph.lanes)
      /\ DOMAIN graph.lanes \subseteq DOMAIN a.graph.lanes
  BY <1>1, <1>6 DEF Apart, IsGraph, GraphRecords
<1>8. /\ graph' = Trimmed(a.graph) /\ rows' = Append(rows, Drawn(R, a))
      /\ parents' = Append(parents, ps)
  BY <1>5 DEF Push, Drawn
<1>9. /\ IsGraph(graph') /\ Len(graph'.lanes) <= Len(a.graph.lanes)
      /\ \A i \in DOMAIN graph'.lanes :
           /\ i \in DOMAIN a.graph.lanes
           /\ graph'.lanes[i] = a.graph.lanes[i] /\ graph'.colors[i] = a.graph.colors[i]
      /\ \A i \in DOMAIN a.graph.lanes : a.graph.lanes[i] # None => i \in DOMAIN graph'.lanes
      /\ graph'.lanes # <<>> => Last(graph'.lanes) # None
  BY <1>7, <1>8, TrimmedGraph
<1>10. ASSUME NEW i \in DOMAIN graph.lanes, graph.lanes[i] \notin {None, R}
       PROVE  /\ i \in DOMAIN graph'.lanes
              /\ graph'.lanes[i] = graph.lanes[i] /\ graph'.colors[i] = graph.colors[i]
              /\ a.graph.colors[i] = graph.colors[i]
  <2>1. a.graph.lanes[i] = graph.lanes[i] /\ a.graph.colors[i] = graph.colors[i]
    BY <1>6, <1>10 DEF Apart
  <2>2. i \in DOMAIN graph'.lanes
    BY <1>7, <1>9, <1>10, <2>1
  <2> QED
    BY <1>9, <2>1, <2>2
<1>11. ASSUME NEW i \in DOMAIN graph'.lanes, graph'.lanes[i] # None
       PROVE  /\ graph'.lanes[i] > R
              /\ i \in a.out \/ (i \in DOMAIN graph.lanes /\ graph.lanes[i] = graph'.lanes[i])
  <2>1. i \in DOMAIN a.graph.lanes /\ graph'.lanes[i] = a.graph.lanes[i]
    BY <1>9
  <2> QED
    BY <1>6, <1>11, <2>1 DEF Apart
<1>12. Range(ps) = {ps[j] : j \in 1..Len(ps)}
  <2>1. DOMAIN ps = 1..Len(ps)
    BY <1>4, LenProperties
  <2> QED
    BY <2>1 DEF Range
<1>13. {a.graph.lanes[i] : i \in a.out} = {p \in Range(ps) : p > R}
  BY <1>6, <1>12 DEF Reaches
<1>14. ASSUME NEW i \in a.out
       PROVE  /\ i \in DOMAIN graph'.lanes /\ graph'.lanes[i] # None
              /\ graph'.colors[i] = a.graph.colors[i] /\ graph'.lanes[i] = a.graph.lanes[i]
  <2>1. i \in DOMAIN a.graph.lanes /\ a.graph.lanes[i] > R
    BY <1>7, <1>13
  <2>2. a.graph.lanes[i] # None
    BY <1>3, <2>1 DEF None
  <2> QED
    BY <1>9, <2>1, <2>2
<1>15. {graph'.lanes[i] : i \in a.out} = {p \in Range(ps) : p > R}
  <2>1. {graph'.lanes[i] : i \in a.out} = {a.graph.lanes[i] : i \in a.out}
    BY <1>14
  <2> QED
    BY <1>13, <2>1
<1>16. LanesMove(R, ps, a)
  BY <1>6, <1>9, <1>10, <1>11, <1>14, <1>15 DEF LanesMove, ColoursStay
<1> QED
  BY <1>3, <1>4, <1>7, <1>8, <1>16 DEF Draws

(* The rows above it stay as they are.                                      *)
LEMMA RowsGrow ==
  ASSUME TypeOK, NEW R \in 1..Commits, R = Row, NEW ps, NEW a, Draws(R, ps, a)
  PROVE  /\ Len(rows) = R - 1 /\ Len(rows') = R /\ Row' = R + 1
         /\ Seen = 1..(R - 1) /\ Seen' = 1..R
         /\ \A r \in 1..(R - 1) : rows'[r] = rows[r] /\ parents'[r] = parents[r]
         /\ rows'[R] = Drawn(R, a) /\ parents'[R] = ps /\ Len(parents') = R
<1>1. /\ rows \in Seq(Rows) /\ parents \in Seq(Seq(1..Commits))
      /\ Len(rows) = R - 1 /\ Len(parents) = R - 1
  BY DEF TypeOK, Row
<1>2. rows' = Append(rows, Drawn(R, a)) /\ parents' = Append(parents, ps)
  BY DEF Draws
<1>3. /\ Len(rows') = R /\ DOMAIN rows' = 1..R /\ rows'[R] = Drawn(R, a)
      /\ \A r \in 1..(R - 1) : rows'[r] = rows[r]
  <2> HIDE DEF Drawn
  <2> QED
    BY <1>1, <1>2
<1>4. /\ Len(parents') = R /\ parents'[R] = ps
      /\ \A r \in 1..(R - 1) : parents'[r] = parents[r]
  BY <1>1, <1>2
<1> QED
  BY <1>1, <1>3, <1>4 DEF Row, Seen

(* What a lane waits for.                                                   *)
WaitsFor(c, l) == l \in DOMAIN graph.lanes /\ graph.lanes[l] = c
WaitsPast(c, l) == l \in DOMAIN graph.lanes /\ graph.lanes[l] \notin {None, c}

(* The edges of the new row, by their kinds.                                *)
LEMMA EdgesDrawn ==
  ASSUME NEW R, NEW a
  PROVE  LET edges == Drawn(R, a).edges
         IN  /\ \A l : {e \in edges : e.kind = "incoming" /\ e.from = l}
                  = IF WaitsFor(R, l) THEN {Edge(l, a.lane, a.graph.colors[l], "incoming")} ELSE {}
             /\ \A l : {e \in edges : e.kind = "pass" /\ e.from = l}
                  = IF WaitsPast(R, l) THEN {Edge(l, l, a.graph.colors[l], "pass")} ELSE {}
             /\ {e \in edges : e.kind = "outgoing"}
                  = {Edge(a.lane, i, a.graph.colors[i], "outgoing") : i \in a.out}
<1> DEFINE edges == Drawn(R, a).edges
           In == {Edge(i, a.lane, a.graph.colors[i], "incoming") : i \in {i \in DOMAIN graph.lanes : graph.lanes[i] = R}}
           Pass == {Edge(i, i, a.graph.colors[i], "pass") : i \in {i \in DOMAIN graph.lanes : graph.lanes[i] \notin {R, None}}}
           Out == {Edge(a.lane, i, a.graph.colors[i], "outgoing") : i \in a.out}
<1>1. edges = In \cup Pass \cup Out
  BY DEF Drawn, BuildEdges
<1>2. \A f, t, c, k : Edge(f, t, c, k).from = f /\ Edge(f, t, c, k).kind = k
  BY DEF Edge
<1>3. \A e \in In : e.kind = "incoming" /\ WaitsFor(R, e.from) /\ e = Edge(e.from, a.lane, a.graph.colors[e.from], "incoming")
  BY <1>2 DEF WaitsFor
<1>4. \A e \in Pass : e.kind = "pass" /\ WaitsPast(R, e.from) /\ e = Edge(e.from, e.from, a.graph.colors[e.from], "pass")
  BY <1>2 DEF WaitsPast
<1>5. \A e \in Out : e.kind = "outgoing"
  BY <1>2
<1>6. \A l : WaitsFor(R, l) => Edge(l, a.lane, a.graph.colors[l], "incoming") \in In
  BY DEF WaitsFor
<1>7. \A l : WaitsPast(R, l) => Edge(l, l, a.graph.colors[l], "pass") \in Pass
  BY DEF WaitsPast
<1> HIDE DEF edges, In, Pass
<1>8. "incoming" # "pass" /\ "incoming" # "outgoing" /\ "pass" # "outgoing"
  OBVIOUS
<1>9. ASSUME NEW l
      PROVE  {e \in edges : e.kind = "incoming" /\ e.from = l}
               = IF WaitsFor(R, l) THEN {Edge(l, a.lane, a.graph.colors[l], "incoming")} ELSE {}
  <2> HIDE DEF Out
  <2>1. \A e \in edges : e.kind = "incoming" => e \in In
    BY <1>1, <1>4, <1>5, <1>8
  <2> QED
    BY <1>1, <1>2, <1>3, <1>6, <2>1
<1>10. ASSUME NEW l
       PROVE  {e \in edges : e.kind = "pass" /\ e.from = l}
                = IF WaitsPast(R, l) THEN {Edge(l, l, a.graph.colors[l], "pass")} ELSE {}
  <2> HIDE DEF Out
  <2>1. \A e \in edges : e.kind = "pass" => e \in Pass
    BY <1>1, <1>3, <1>5, <1>8
  <2> QED
    BY <1>1, <1>2, <1>4, <1>7, <2>1
<1>11. {e \in edges : e.kind = "outgoing"} = Out
  <2> HIDE DEF Out
  <2> QED
    BY <1>1, <1>3, <1>4, <1>5, <1>8
<1> QED
  BY <1>9, <1>10, <1>11 DEF edges

(* The edges of all rows.                                                   *)
LEMMA EdgesGrow ==
  ASSUME TypeOK, NEW R \in 1..Commits, R = Row, NEW ps, NEW a, Draws(R, ps, a)
  PROVE  /\ \A r \in 1..(R - 1) : \A kind : EdgesOf(r, kind)' = EdgesOf(r, kind)
         /\ \A r \in 1..(R - 1) : \A l :
              ComesInto(r, l)' = ComesInto(r, l) /\ PassesBy(r, l)' = PassesBy(r, l)
         /\ \A l : ComesInto(R, l)'
              = IF WaitsFor(R, l) THEN {Edge(l, a.lane, a.graph.colors[l], "incoming")} ELSE {}
         /\ \A l : PassesBy(R, l)'
              = IF WaitsPast(R, l) THEN {Edge(l, l, a.graph.colors[l], "pass")} ELSE {}
         /\ EdgesOf(R, "outgoing")'
              = {Edge(a.lane, i, a.graph.colors[i], "outgoing") : i \in a.out}
         /\ \A r \in 1..(R - 1) : \A l :
              Ends(r, l)' = Ends(r, l) \cup IF WaitsFor(R, l) THEN {R} ELSE {}
         /\ \A l : Ends(R, l)' = {}
<1>1. /\ Len(rows) = R - 1 /\ Len(rows') = R /\ rows'[R] = Drawn(R, a)
      /\ \A r \in 1..(R - 1) : rows'[r] = rows[r]
  BY RowsGrow
<1>2. \A r \in 1..(R - 1) : \A kind : EdgesOf(r, kind)' = EdgesOf(r, kind)
  BY <1>1 DEF EdgesOf
<1>3. \A r \in 1..(R - 1) : \A l :
        ComesInto(r, l)' = ComesInto(r, l) /\ PassesBy(r, l)' = PassesBy(r, l)
  BY <1>2 DEF ComesInto, PassesBy
<1>4. PICK edges : edges = Drawn(R, a).edges
  OBVIOUS
<1>5. \A kind : EdgesOf(R, kind)' = {e \in edges : e.kind = kind}
  BY <1>1, <1>4 DEF EdgesOf
<1>6. /\ \A l : ComesInto(R, l)' = {e \in edges : e.kind = "incoming" /\ e.from = l}
      /\ \A l : PassesBy(R, l)' = {e \in edges : e.kind = "pass" /\ e.from = l}
  BY <1>5 DEF ComesInto, PassesBy
<1>7. /\ \A l : ComesInto(R, l)'
           = IF WaitsFor(R, l) THEN {Edge(l, a.lane, a.graph.colors[l], "incoming")} ELSE {}
      /\ \A l : PassesBy(R, l)'
           = IF WaitsPast(R, l) THEN {Edge(l, l, a.graph.colors[l], "pass")} ELSE {}
      /\ EdgesOf(R, "outgoing")' = {Edge(a.lane, i, a.graph.colors[i], "outgoing") : i \in a.out}
  BY <1>4, <1>5, <1>6, EdgesDrawn
<1>8. ASSUME NEW r \in 1..(R - 1), NEW l
      PROVE  Ends(r, l)' = Ends(r, l) \cup IF WaitsFor(R, l) THEN {R} ELSE {}
  <2>1. Ends(r, l)' = {k \in (r + 1)..R : ComesInto(k, l)' # {}}
    BY <1>1 DEF Ends
  <2>2. (r + 1)..R = ((r + 1)..(R - 1)) \cup {R} /\ (r + 1)..(R - 1) \subseteq 1..(R - 1)
    OBVIOUS
  <2>3. Ends(r, l) = {k \in (r + 1)..(R - 1) : ComesInto(k, l) # {}}
    BY <1>1 DEF Ends
  <2>4. ComesInto(R, l)' # {} <=> WaitsFor(R, l)
    BY <1>7
  <2> QED
    BY <1>3, <2>1, <2>2, <2>3, <2>4
<1>9. \A l : Ends(R, l)' = {}
  BY <1>1 DEF Ends
<1> QED
  BY <1>2, <1>3, <1>7, <1>8, <1>9

(* How wide the row is.                                                     *)
LEMMA WideEnough ==
  ASSUME NEW before \in Seq(0..Commits), NEW after \in Seq(0..Commits), NEW lane \in Lanes
  PROVE  LET n == LaneCount(before, after, lane)
         IN  n \in Lanes /\ Len(before) <= n /\ Len(after) <= n /\ lane <= n
<1> DEFINE S == {Len(before), Len(after), lane}
           b == Len(before) + Len(after) + lane
<1>1. Len(before) \in Nat /\ Len(after) \in Nat /\ lane \in Nat /\ lane # 0
  BY DEF Lanes
<1>2. S \in SUBSET Nat /\ S # {} /\ b \in Nat /\ \A k \in S : k <= b
  BY <1>1
<1>3. Max(S) \in S /\ \A k \in S : k <= Max(S)
  <2> HIDE DEF S, b
  <2> QED
    BY <1>2, MaxIsGreatest
<1>4. LaneCount(before, after, lane) = Max(S)
  BY DEF LaneCount
<1>5. Max(S) \in Nat /\ lane <= Max(S) /\ Len(before) <= Max(S) /\ Len(after) <= Max(S)
  BY <1>1, <1>3
<1> HIDE DEF S
<1> QED
  BY <1>1, <1>4, <1>5 DEF Lanes

(* A row has its types, and the lanes theirs.                               *)
LEMMA TypeKept ==
  ASSUME TypeOK, NEW R \in 1..Commits, R = Row, NEW ps, NEW a, Draws(R, ps, a)
  PROVE  TypeOK'
<1>1. /\ Len(rows) = R - 1 /\ Len(rows') = R
      /\ Seen = 1..(R - 1) /\ Seen' = 1..R
      /\ \A r \in 1..(R - 1) : rows'[r] = rows[r] /\ parents'[r] = parents[r]
      /\ rows'[R] = Drawn(R, a) /\ parents'[R] = ps /\ Len(parents') = R
  BY RowsGrow
<1>2. graph' \in GraphRecords /\ Len(graph'.colors) = Len(graph'.lanes)
      /\ (graph'.lanes # <<>> => Last(graph'.lanes) # None)
  BY DEF Draws, LanesMove, IsGraph
<1>3. /\ graph.lanes \in Seq(0..Commits) /\ graph'.lanes \in Seq(0..Commits)
      /\ a.graph.lanes \in Seq(0..Commits) /\ a.graph.colors \in Seq(Colors)
      /\ Len(a.graph.colors) = Len(a.graph.lanes)
      /\ Len(graph.lanes) <= Len(a.graph.lanes)
  BY <1>2 DEF TypeOK, Draws, IsGraph, GraphRecords
<1>4. \A i \in DOMAIN a.graph.lanes : i \in Lanes /\ a.graph.colors[i] \in Colors
  <2>1. DOMAIN a.graph.lanes = 1..Len(a.graph.colors) /\ Len(a.graph.colors) \in Nat
    BY <1>3
  <2>2. \A i \in 1..Len(a.graph.colors) : a.graph.colors[i] \in Colors
    BY <1>3, ElementOfSeq
  <2> QED
    BY <2>1, <2>2 DEF Lanes
<1>5. /\ DOMAIN graph.lanes \subseteq DOMAIN a.graph.lanes
      /\ a.lane \in DOMAIN a.graph.lanes /\ a.out \subseteq DOMAIN a.graph.lanes
  BY <1>3 DEF Draws
<1>6. \A f, t \in Lanes, c \in Colors, k \in {"incoming", "pass", "outgoing"} : Edge(f, t, c, k) \in Edges
  BY DEF Edge, Edges
<1>7. BuildEdges(R, graph.lanes, a) \in SUBSET Edges
  BY <1>4, <1>5, <1>6 DEF BuildEdges
<1>8. LaneCount(graph.lanes, graph'.lanes, a.lane) \in Lanes
  BY <1>3, <1>4, <1>5, WideEnough
<1>9. Drawn(R, a) \in Rows
  BY <1>4, <1>5, <1>7, <1>8 DEF Drawn, Rows
<1>10. rows' \in Seq(Rows)
  BY <1>9 DEF Draws, TypeOK
<1>11. parents' \in Seq(Seq(1..Commits))
  BY DEF Draws, TypeOK
<1>12. \A r \in Seen' : r \notin Range(parents'[r])
  <2>1. \A r \in 1..(R - 1) : r \notin Range(parents[r])
    BY <1>1 DEF TypeOK
  <2>2. R \notin Range(ps)
    BY DEF Draws
  <2>3. \A r \in 1..R : r \in 1..(R - 1) \/ r = R
    OBVIOUS
  <2> QED
    BY <1>1, <2>1, <2>2, <2>3
<1> QED
  BY <1>1, <1>2, <1>10, <1>11, <1>12 DEF TypeOK, GraphRecords

(* A lane that waits, waits for a row still to come.                        *)
LEMMA WaitAheadKept ==
  ASSUME TypeOK, NEW R \in 1..Commits, R = Row, NEW ps, NEW a, Draws(R, ps, a)
  PROVE  WaitAhead'
<1>1. Row' = R + 1
  BY RowsGrow
<1>2. ASSUME NEW i \in DOMAIN graph'.lanes, graph'.lanes[i] # None PROVE graph'.lanes[i] >= R + 1
  <2>1. graph'.lanes[i] > R
    BY <1>2 DEF Draws, LanesMove
  <2>2. graph'.lanes \in Seq(0..Commits)
    BY DEF Draws, LanesMove, IsGraph, GraphRecords
  <2>3. graph'.lanes[i] \in 0..Commits
    BY <2>2, ElementInDomain
  <2> QED
    BY <2>1, <2>3
<1> QED
  BY <1>1, <1>2 DEF WaitAhead

(* Where the lines drawn so far end.                                        *)
LEMMA LinesEnd ==
  ASSUME TypeOK, WaitAhead, TellsParents, NEW r \in Seen, NEW l, Leaves(r, l)
  PROVE  /\ r < EndOf(r, l)
         /\ Ends(r, l) # {} => /\ EndOf(r, l) \in Ends(r, l) /\ EndOf(r, l) <= Len(rows)
                               /\ \A k \in Ends(r, l) : EndOf(r, l) <= k
         /\ Ends(r, l) = {} => /\ l \in DOMAIN graph.lanes /\ graph.lanes[l] # None
                               /\ EndOf(r, l) = graph.lanes[l] /\ EndOf(r, l) >= Row
<1>1. EndOf(r, l) \in {p \in Range(parents[r]) : p > r}
  BY DEF Leaves, TellsParents
<1>2. r \in Nat /\ Len(rows) \in Nat /\ EndOf(r, l) > r
  BY <1>1 DEF TypeOK, Seen
<1>3. CASE Ends(r, l) # {}
  <2>1. Ends(r, l) \in SUBSET Nat
    BY <1>2 DEF Ends
  <2>2. EndOf(r, l) = Min(Ends(r, l))
    BY <1>3 DEF EndOf
  <2>3. EndOf(r, l) \in Ends(r, l) /\ \A k \in Ends(r, l) : EndOf(r, l) <= k
    BY <1>3, <2>1, <2>2, MinIsLeast
  <2>4. EndOf(r, l) <= Len(rows)
    BY <1>2, <2>3 DEF Ends
  <2>5. r < EndOf(r, l)
    BY <1>2, <2>3 DEF Ends
  <2> QED
    BY <1>3, <2>3, <2>4, <2>5
<1>4. CASE Ends(r, l) = {}
  <2>1. EndOf(r, l) = IF l \in DOMAIN graph.lanes THEN graph.lanes[l] ELSE None
    BY <1>4 DEF EndOf
  <2>2. EndOf(r, l) # None
    BY <1>2 DEF None
  <2>3. l \in DOMAIN graph.lanes /\ EndOf(r, l) = graph.lanes[l]
    BY <2>1, <2>2
  <2>4. graph.lanes[l] >= Row
    BY <2>2, <2>3 DEF WaitAhead
  <2>5. graph.lanes[l] \in 0..Commits
    BY <2>3, ElementInDomain DEF TypeOK
  <2>6. r < EndOf(r, l)
    BY <1>2, <2>3, <2>4, <2>5 DEF Row, Seen
  <2> QED
    BY <1>4, <2>2, <2>3, <2>4, <2>6
<1> QED
  BY <1>3, <1>4

(* A row below does not change where a line ends.                           *)
LEMMA EndStays ==
  ASSUME TypeOK, WaitAhead, TellsParents,
         NEW R \in 1..Commits, R = Row, NEW ps, NEW a, Draws(R, ps, a),
         NEW r \in Seen, NEW l, Leaves(r, l)
  PROVE  EndOf(r, l)' = EndOf(r, l)
<1>1. Seen = 1..(R - 1) /\ Len(rows) = R - 1
  BY RowsGrow
<1>2. Ends(r, l)' = Ends(r, l) \cup IF WaitsFor(R, l) THEN {R} ELSE {}
  BY <1>1, EdgesGrow
<1>3. CASE Ends(r, l) # {}
  <2>1. /\ EndOf(r, l) \in Ends(r, l) /\ EndOf(r, l) <= R - 1
        /\ \A k \in Ends(r, l) : EndOf(r, l) <= k
    BY <1>1, <1>3, LinesEnd
  <2>2. Ends(r, l) \in SUBSET Nat
    BY <1>1 DEF Ends
  <2>3. \A k \in Ends(r, l)' : EndOf(r, l) <= k
    BY <1>2, <2>1, <2>2
  <2>4. EndOf(r, l)' = Min(Ends(r, l)')
    BY <1>2, <1>3 DEF EndOf
  <2>5. Ends(r, l)' \in SUBSET Nat /\ Ends(r, l)' # {}
    BY <1>2, <1>3, <2>2
  <2>6. Min(Ends(r, l)') \in Ends(r, l)' /\ \A k \in Ends(r, l)' : Min(Ends(r, l)') <= k
    BY <2>5, MinIsLeast
  <2>7. EndOf(r, l) \in Ends(r, l)'
    BY <1>2, <2>1
  <2> QED
    BY <2>2, <2>1, <2>3, <2>4, <2>5, <2>6, <2>7
<1>4. CASE Ends(r, l) = {}
  <2>1. /\ l \in DOMAIN graph.lanes /\ graph.lanes[l] # None /\ EndOf(r, l) = graph.lanes[l]
    BY <1>4, LinesEnd
  <2>2. CASE graph.lanes[l] = R
    <3>1. Ends(r, l)' = {R}
      BY <1>2, <1>4, <2>1, <2>2 DEF WaitsFor
    <3>2. Min({R}) = R
      BY MinIsLeast
    <3> QED
      BY <2>1, <2>2, <3>1, <3>2 DEF EndOf
  <2>3. CASE graph.lanes[l] # R
    <3>1. Ends(r, l)' = {}
      BY <1>2, <1>4, <2>3 DEF WaitsFor
    <3>2. l \in DOMAIN graph'.lanes /\ graph'.lanes[l] = graph.lanes[l]
      BY <2>1, <2>3 DEF Draws, LanesMove
    <3> QED
      BY <2>1, <3>1, <3>2 DEF EndOf
  <2> QED
    BY <2>2, <2>3
<1> QED
  BY <1>3, <1>4

(* The lines of the rows above are as they were, and those of the new row   *)
(* lead to its parents.                                                     *)
LEMMA TellsParentsKept ==
  ASSUME TypeOK, WaitAhead, TellsParents,
         NEW R \in 1..Commits, R = Row, NEW ps, NEW a, Draws(R, ps, a)
  PROVE  TellsParents'
<1>1. /\ Len(rows) = R - 1 /\ Len(rows') = R
      /\ Seen = 1..(R - 1) /\ Seen' = 1..R
      /\ \A r \in 1..(R - 1) : rows'[r] = rows[r] /\ parents'[r] = parents[r]
      /\ parents'[R] = ps
  BY RowsGrow
<1>2. ASSUME NEW r \in Seen
      PROVE  LET out == {e.to : e \in EdgesOf(r, "outgoing")'}
             IN  /\ {EndOf(r, lane)' : lane \in out} = {p \in Range(parents'[r]) : p > r}
                 /\ \A lane \in out : \A k \in RowsPassed(r, lane)' : PassesBy(k, lane)' # {}
  <2> DEFINE out == {e.to : e \in EdgesOf(r, "outgoing")}
  <2>1. EdgesOf(r, "outgoing")' = EdgesOf(r, "outgoing") /\ parents'[r] = parents[r]
    BY <1>1, EdgesGrow
  <2>2. \A lane \in out : Leaves(r, lane)
    BY DEF Leaves
  <2>3. \A lane \in out : EndOf(r, lane)' = EndOf(r, lane)
    <3> HIDE DEF out
    <3> QED
      BY <2>2, EndStays
  <2>4. {EndOf(r, lane) : lane \in out} = {p \in Range(parents[r]) : p > r}
    BY DEF TellsParents
  <2>5. {EndOf(r, lane)' : lane \in out} = {EndOf(r, lane) : lane \in out}
    <3> HIDE DEF out
    <3> QED
      BY <2>3
  <2>6. ASSUME NEW lane \in out, NEW k \in RowsPassed(r, lane)' PROVE PassesBy(k, lane)' # {}
    <3>1. k \in (r + 1)..R /\ k < EndOf(r, lane)
      BY <1>1, <2>3, <2>6 DEF RowsPassed
    <3>2. CASE k # R
      <4>1. k \in (r + 1)..(R - 1) /\ k \in 1..(R - 1)
        BY <1>1, <3>1, <3>2
      <4>2. k \in RowsPassed(r, lane)
        BY <1>1, <3>1, <4>1 DEF RowsPassed
      <4>3. PassesBy(k, lane) # {}
        BY <4>2 DEF TellsParents
      <4> QED
        BY <4>1, <4>3, EdgesGrow
    <3>3. CASE k = R
      <4>1. Ends(r, lane) = {}
        <5>1. Ends(r, lane) # {} => EndOf(r, lane) <= R - 1 /\ EndOf(r, lane) \in Ends(r, lane)
          BY <1>1, <2>2, LinesEnd
        <5>2. Ends(r, lane) \in SUBSET Nat
          BY <1>1 DEF Ends
        <5> QED
          BY <3>1, <3>3, <5>1, <5>2
      <4>2. lane \in DOMAIN graph.lanes /\ graph.lanes[lane] # None /\ EndOf(r, lane) = graph.lanes[lane]
        BY <2>2, <4>1, LinesEnd
      <4>3. WaitsPast(R, lane)
        BY <3>1, <3>3, <4>2 DEF WaitsPast
      <4> QED
        BY <3>3, <4>3, EdgesGrow
    <3> QED
      BY <3>2, <3>3
  <2> QED
    BY <2>1, <2>4, <2>5, <2>6
<1>3. LET out == {e.to : e \in EdgesOf(R, "outgoing")'}
      IN  /\ {EndOf(R, lane)' : lane \in out} = {p \in Range(ps) : p > R}
          /\ \A lane \in out : \A k \in RowsPassed(R, lane)' : PassesBy(k, lane)' # {}
  <2>1. EdgesOf(R, "outgoing")' = {Edge(a.lane, i, a.graph.colors[i], "outgoing") : i \in a.out}
    BY EdgesGrow
  <2>2. {e.to : e \in EdgesOf(R, "outgoing")'} = a.out
    <3>1. \A i : Edge(a.lane, i, a.graph.colors[i], "outgoing").to = i
      BY DEF Edge
    <3> QED
      BY <2>1, <3>1
  <2>3. \A lane \in a.out : EndOf(R, lane)' = graph'.lanes[lane]
    <3>1. \A lane : Ends(R, lane)' = {}
      BY EdgesGrow
    <3>2. \A lane \in a.out : lane \in DOMAIN graph'.lanes
      BY DEF Draws, LanesMove
    <3> QED
      BY <3>1, <3>2 DEF EndOf
  <2>4. {EndOf(R, lane)' : lane \in a.out} = {graph'.lanes[lane] : lane \in a.out}
    BY <2>3
  <2>5. {graph'.lanes[lane] : lane \in a.out} = {p \in Range(ps) : p > R}
    BY DEF Draws, LanesMove
  <2>6. \A lane : RowsPassed(R, lane)' = {}
    BY <1>1 DEF RowsPassed
  <2> QED
    BY <2>2, <2>4, <2>5, <2>6
<1>4. \A r \in Seen' : r \in Seen \/ r = R
  BY <1>1
<1> QED
  BY <1>1, <1>2, <1>3, <1>4 DEF TellsParents

(* A lane waits at the end of a line of the new row, or of one from above.  *)
LEMMA WaitsAreDrawnKept ==
  ASSUME TypeOK, WaitAhead, TellsParents, WaitsAreDrawn,
         NEW R \in 1..Commits, R = Row, NEW ps, NEW a, Draws(R, ps, a)
  PROVE  WaitsAreDrawn'
<1>1. Seen = 1..(R - 1) /\ Seen' = 1..R
  BY RowsGrow
<1>2. ASSUME NEW i \in DOMAIN graph'.lanes, graph'.lanes[i] # None
      PROVE  \E r \in Seen' : Leaves(r, i)' /\ Ends(r, i)' = {}
  <2>1. CASE i \in a.out
    <3>1. Edge(a.lane, i, a.graph.colors[i], "outgoing") \in EdgesOf(R, "outgoing")'
      BY <2>1, EdgesGrow
    <3>2. Leaves(R, i)'
      BY <3>1 DEF Leaves, Edge
    <3>3. Ends(R, i)' = {}
      BY EdgesGrow
    <3> QED
      BY <1>1, <3>2, <3>3
  <2>2. CASE i \notin a.out
    <3>1. graph'.lanes[i] > R /\ i \in DOMAIN graph.lanes /\ graph.lanes[i] = graph'.lanes[i]
      BY <1>2, <2>2 DEF Draws, LanesMove
    <3>2. PICK r \in Seen : Leaves(r, i) /\ Ends(r, i) = {}
      BY <1>2, <3>1 DEF WaitsAreDrawn
    <3>3. ~WaitsFor(R, i)
      BY <3>1 DEF WaitsFor
    <3>4. Ends(r, i)' = {} /\ EdgesOf(r, "outgoing")' = EdgesOf(r, "outgoing")
      BY <1>1, <3>2, <3>3, EdgesGrow
    <3>5. r \in Seen' /\ Leaves(r, i)'
      BY <1>1, <3>2, <3>4 DEF Leaves
    <3> QED
      BY <3>4, <3>5
  <2> QED
    BY <2>1, <2>2
<1> QED
  BY <1>2 DEF WaitsAreDrawn

(* What comes into the new row or passes it by is a line that had not ended. *)
LEMMA NothingFromNowhereKept ==
  ASSUME TypeOK, WaitAhead, TellsParents, WaitsAreDrawn, NothingFromNowhere,
         NEW R \in 1..Commits, R = Row, NEW ps, NEW a, Draws(R, ps, a)
  PROVE  NothingFromNowhere'
<1> DEFINE Begins(r, e) == \E k \in 1..(r - 1) :
             (\E o \in EdgesOf(k, "outgoing")' : o.to = e.from) /\ EndOf(k, e.from)' >= r
<1>1. Seen = 1..(R - 1) /\ Seen' = 1..R
  BY RowsGrow
<1>2. ASSUME NEW k \in Seen, NEW l, Leaves(k, l)
      PROVE  /\ \E o \in EdgesOf(k, "outgoing")' : o.to = l
             /\ EndOf(k, l)' = EndOf(k, l)
  <2>1. EdgesOf(k, "outgoing")' = EdgesOf(k, "outgoing")
    BY <1>1, EdgesGrow
  <2> QED
    BY <1>2, <2>1, EndStays DEF Leaves
<1>3. ASSUME NEW r \in Seen, NEW e \in EdgesOf(r, "incoming")' \cup EdgesOf(r, "pass")'
      PROVE  Begins(r, e)
  <2>1. e \in EdgesOf(r, "incoming") \cup EdgesOf(r, "pass")
    BY <1>1, <1>3, EdgesGrow
  <2>2. PICK k \in 1..(r - 1) : Leaves(k, e.from) /\ EndOf(k, e.from) >= r
    BY <2>1 DEF NothingFromNowhere, Leaves
  <2>3. k \in Seen
    BY <1>1
  <2> QED
    BY <1>2, <2>2, <2>3
<1>4. ASSUME NEW e \in EdgesOf(R, "incoming")' \cup EdgesOf(R, "pass")'
      PROVE  Begins(R, e)
  <2>1. WaitsFor(R, e.from) \/ WaitsPast(R, e.from)
    <3>1. CASE e \in EdgesOf(R, "incoming")'
      <4>1. e \in ComesInto(R, e.from)'
        BY <3>1 DEF ComesInto
      <4> QED
        BY <4>1, EdgesGrow
    <3>2. CASE e \in EdgesOf(R, "pass")'
      <4>1. e \in PassesBy(R, e.from)'
        BY <3>2 DEF PassesBy
      <4> QED
        BY <4>1, EdgesGrow
    <3> QED
      BY <1>4, <3>1, <3>2
  <2>2. e.from \in DOMAIN graph.lanes /\ graph.lanes[e.from] # None
    BY <2>1 DEF WaitsFor, WaitsPast, None
  <2>3. PICK k \in Seen : Leaves(k, e.from) /\ Ends(k, e.from) = {}
    BY <2>2 DEF WaitsAreDrawn
  <2>4. EndOf(k, e.from) >= R
    BY <2>3, LinesEnd
  <2> QED
    BY <1>1, <1>2, <2>3, <2>4
<1>5. \A r \in Seen' : r \in Seen \/ r = R
  BY <1>1
<1> QED
  BY <1>3, <1>4, <1>5 DEF NothingFromNowhere

(* Lanes that wait for others than the new row keep their colours.          *)
LEMMA ColourGoesOnKept ==
  ASSUME TypeOK, WaitAhead, TellsParents, ColourGoesOn,
         NEW R \in 1..Commits, R = Row, NEW ps, NEW a, Draws(R, ps, a)
  PROVE  ColourGoesOn'
<1>1. Seen = 1..(R - 1) /\ Seen' = 1..R
  BY RowsGrow
<1>2. ASSUME NEW r \in Seen, NEW o \in EdgesOf(r, "outgoing")', Ends(r, o.to)' = {}
      PROVE  graph'.colors[o.to] = o.color
  <2>1. o \in EdgesOf(r, "outgoing")
    BY <1>1, EdgesGrow
  <2>2. Ends(r, o.to) = {} /\ ~WaitsFor(R, o.to)
    <3>1. Ends(r, o.to)' = Ends(r, o.to) \cup IF WaitsFor(R, o.to) THEN {R} ELSE {}
      BY <1>1, EdgesGrow
    <3> QED
      BY <1>2, <3>1
  <2>3. Leaves(r, o.to)
    BY <2>1 DEF Leaves
  <2>4. o.to \in DOMAIN graph.lanes /\ graph.lanes[o.to] # None
    BY <2>2, <2>3, LinesEnd
  <2>5. graph.colors[o.to] = o.color
    BY <2>1, <2>2, <2>4 DEF ColourGoesOn
  <2> QED
    BY <2>2, <2>4, <2>5 DEF WaitsFor, Draws, LanesMove
<1>3. ASSUME NEW o \in EdgesOf(R, "outgoing")'
      PROVE  graph'.colors[o.to] = o.color
  <2>1. PICK i \in a.out : o = Edge(a.lane, i, a.graph.colors[i], "outgoing")
    BY EdgesGrow
  <2> QED
    BY <2>1 DEF Edge, Draws, LanesMove
<1>4. \A r \in Seen' : r \in Seen \/ r = R
  BY <1>1
<1> QED
  BY <1>2, <1>3, <1>4 DEF ColourGoesOn

(* And so do those that end in it, but for a merge whose first parent is    *)
(* above.                                                                   *)
LEMMA ColourKeptKept ==
  ASSUME TypeOK, WaitAhead, TellsParents, ColourGoesOn, ColourKept,
         NEW R \in 1..Commits, R = Row, NEW ps, NEW a, Draws(R, ps, a)
  PROVE  ColourKept'
<1>1. /\ Len(rows) = R - 1 /\ Len(rows') = R
      /\ Seen = 1..(R - 1) /\ Seen' = 1..R
      /\ \A r \in 1..(R - 1) : parents'[r] = parents[r]
      /\ parents'[R] = ps
  BY RowsGrow
<1>2. ASSUME NEW r \in Seen', NEW o \in EdgesOf(r, "outgoing")', NEW k \in (r + 1)..Len(rows'),
             k <= EndOf(r, o.to)', ~LateFirst(k)',
             NEW e \in ComesInto(k, o.to)' \cup PassesBy(k, o.to)'
      PROVE  e.color = o.color
  <2>1. r \in Seen /\ k \in (r + 1)..R
    BY <1>1
  <2>2. o \in EdgesOf(r, "outgoing") /\ Leaves(r, o.to)
    <3>1. o \in EdgesOf(r, "outgoing")
      BY <1>1, <2>1, EdgesGrow
    <3> QED
      BY <3>1 DEF Leaves
  <2>3. k <= EndOf(r, o.to)
    BY <1>2, <2>1, <2>2, EndStays
  <2>4. CASE k # R
    <3>1. k \in (r + 1)..Len(rows) /\ k \in 1..(R - 1)
      BY <1>1, <2>1, <2>4
    <3>2. ~LateFirst(k)
      BY <1>1, <1>2, <3>1 DEF LateFirst
    <3>3. e \in ComesInto(k, o.to) \cup PassesBy(k, o.to)
      BY <1>2, <3>1, EdgesGrow
    <3> QED
      BY <2>1, <2>2, <2>3, <3>1, <3>2, <3>3 DEF ColourKept
  <2>5. CASE k = R
    <3>1. Ends(r, o.to) = {}
      <4>1. Ends(r, o.to) # {} => EndOf(r, o.to) <= R - 1 /\ EndOf(r, o.to) \in Ends(r, o.to)
        BY <1>1, <2>1, <2>2, LinesEnd
      <4>2. Ends(r, o.to) \in SUBSET Nat
        BY <1>1, <2>1 DEF Ends
      <4> QED
        BY <2>3, <2>5, <4>1, <4>2
    <3>2. o.to \in DOMAIN graph.lanes /\ graph.lanes[o.to] # None
      BY <2>1, <2>2, <3>1, LinesEnd
    <3>3. graph.colors[o.to] = o.color
      BY <2>1, <2>2, <3>1, <3>2 DEF ColourGoesOn
    <3>4. e.color = a.graph.colors[o.to] /\ (WaitsFor(R, o.to) \/ WaitsPast(R, o.to))
      <4>1. CASE e \in ComesInto(k, o.to)'
        <5>1. WaitsFor(R, o.to) /\ e = Edge(o.to, a.lane, a.graph.colors[o.to], "incoming")
          BY <2>5, <4>1, EdgesGrow
        <5> QED
          BY <5>1 DEF Edge
      <4>2. CASE e \in PassesBy(k, o.to)'
        <5>1. WaitsPast(R, o.to) /\ e = Edge(o.to, o.to, a.graph.colors[o.to], "pass")
          BY <2>5, <4>2, EdgesGrow
        <5> QED
          BY <5>1 DEF Edge
      <4> QED
        BY <1>2, <4>1, <4>2
    <3>5. CASE WaitsPast(R, o.to)
      BY <3>3, <3>4, <3>5 DEF WaitsPast, Draws, LanesMove
    <3>6. CASE WaitsFor(R, o.to)
      <4>1. ps = <<>> \/ ~(Head(ps) < R)
        BY <1>1, <1>2, <2>5 DEF LateFirst
      <4>2. ps = <<>> \/ ps[1] > R
        <5>1. SUFFICES ASSUME ps # <<>> PROVE ps[1] > R
          OBVIOUS
        <5>2. ps \in Seq(1..Commits) /\ R \notin Range(ps)
          BY DEF Draws
        <5>3. 1 \in DOMAIN ps /\ Head(ps) = ps[1]
          BY <5>1, <5>2
        <5>4. ps[1] \in 1..Commits /\ ps[1] # R
          BY <5>2, <5>3, ElementInDomain DEF Range
        <5> QED
          BY <4>1, <5>1, <5>3, <5>4
      <4>3. o.to \in Waiting(graph, R)
        BY <3>6 DEF WaitsFor, Waiting
      <4>4. a.graph.colors[o.to] = graph.colors[o.to]
        BY <4>2, <4>3 DEF Draws, LanesMove
      <4> QED
        BY <3>3, <3>4, <4>4
    <3> QED
      BY <3>4, <3>5, <3>6
  <2> QED
    BY <2>4, <2>5
<1> QED
  BY <1>2 DEF ColourKept

(* The new row has room for the lanes before and after it, and for its own. *)
LEMMA RoomForAllKept ==
  ASSUME TypeOK, RoomForAll,
         NEW R \in 1..Commits, R = Row, NEW ps, NEW a, Draws(R, ps, a)
  PROVE  RoomForAll'
<1>1. /\ Seen = 1..(R - 1) /\ Seen' = 1..R
      /\ \A r \in 1..(R - 1) : rows'[r] = rows[r]
      /\ rows'[R] = Drawn(R, a)
  BY RowsGrow
<1> DEFINE n == LaneCount(graph.lanes, graph'.lanes, a.lane)
<1>2. /\ graph.lanes \in Seq(0..Commits) /\ graph'.lanes \in Seq(0..Commits)
      /\ a.lane \in Lanes
  <2>1. graph.lanes \in Seq(0..Commits)
    BY DEF TypeOK
  <2>2. graph'.lanes \in Seq(0..Commits)
    BY DEF Draws, LanesMove, IsGraph, GraphRecords
  <2>3. a.graph.lanes \in Seq(0..Commits) /\ a.lane \in DOMAIN a.graph.lanes
    BY DEF Draws, IsGraph, GraphRecords
  <2>4. a.lane \in 1..Len(a.graph.lanes) /\ Len(a.graph.lanes) \in Nat
    BY <2>3
  <2> QED
    BY <2>1, <2>2, <2>4 DEF Lanes
<1>3. n \in Nat /\ Len(graph.lanes) <= n /\ Len(graph'.lanes) <= n /\ a.lane <= n
  BY <1>2, WideEnough DEF Lanes
<1> HIDE DEF n
<1>4. \A i \in DOMAIN graph.lanes : i <= n
  BY <1>2, <1>3
<1>5. \A i \in a.out : i <= n
  <2>1. \A i \in a.out : i \in DOMAIN graph'.lanes
    BY DEF Draws, LanesMove
  <2> QED
    BY <1>2, <1>3, <2>1
<1>6. \A e \in BuildEdges(R, graph.lanes, a) : e.from <= n /\ e.to <= n
  BY <1>3, <1>4, <1>5 DEF BuildEdges, Edge
<1>7. /\ Drawn(R, a).lane = a.lane /\ Drawn(R, a).edges = BuildEdges(R, graph.lanes, a)
      /\ Drawn(R, a).lane_count = n
  BY DEF Drawn, n
<1>8. \A r \in Seen' : r \in Seen \/ r = R
  BY <1>1
<1> QED
  BY <1>1, <1>3, <1>6, <1>7, <1>8 DEF RoomForAll

-------------------------------------------------------------------------------
(* Nothing is drawn yet.                                                    *)
LEMMA InitIInv == Init => IInv
<1>1. SUFFICES ASSUME Init PROVE IInv
  OBVIOUS
<1>2. /\ graph = [lanes |-> <<>>, colors |-> <<>>, next |-> 0]
      /\ rows = <<>> /\ parents = <<>> /\ Seen = {}
  <2>1. /\ graph = [lanes |-> <<>>, colors |-> <<>>, next |-> 0]
        /\ rows = <<>> /\ parents = <<>>
    BY <1>1 DEF Init
  <2>2. Seen = {}
    BY <2>1 DEF Seen
  <2> QED
    BY <2>1, <2>2
<1>3. graph.lanes = <<>> /\ graph.colors = <<>> /\ graph.next = 0
  BY <1>2
<1>4. TypeOK
  BY <1>2, <1>3 DEF TypeOK
<1> QED
  BY <1>2, <1>3, <1>4 DEF IInv, WaitAhead, TellsParents, WaitsAreDrawn, NothingFromNowhere,
     ColourGoesOn, ColourKept, RoomForAll

(* A step is one row drawn.                                                 *)
LEMMA NextIInv == IInv /\ [Next]_vars => IInv'
<1>1. SUFFICES ASSUME IInv, [Next]_vars PROVE IInv'
  OBVIOUS
<1>2. CASE Next
  <2>1. PICK ps \in Histories : Row <= Loaded /\ Push(ps)
    BY <1>2 DEF Next
  <2>2. PICK R : R = Row
    OBVIOUS
  <2>3. R \in 1..Commits /\ \E a : Draws(R, ps, a)
    BY <1>1, <2>1, <2>2, PushDraws DEF IInv
  <2>4. PICK a : Draws(R, ps, a)
    BY <2>3
  <2>5. TypeOK' /\ WaitAhead' /\ RoomForAll'
    BY <1>1, <2>2, <2>3, <2>4, TypeKept, WaitAheadKept, RoomForAllKept DEF IInv
  <2>6. TellsParents' /\ WaitsAreDrawn' /\ NothingFromNowhere'
    BY <1>1, <2>2, <2>3, <2>4, TellsParentsKept, WaitsAreDrawnKept, NothingFromNowhereKept DEF IInv
  <2>7. ColourGoesOn' /\ ColourKept'
    BY <1>1, <2>2, <2>3, <2>4, ColourGoesOnKept, ColourKeptKept DEF IInv
  <2> QED
    BY <2>5, <2>6, <2>7 DEF IInv
<1>3. CASE UNCHANGED vars
  <2>1. graph' = graph /\ rows' = rows /\ parents' = parents
    BY <1>3 DEF vars
  <2>2. TypeOK' /\ WaitAhead' /\ RoomForAll'
    BY <1>1, <2>1 DEF IInv, TypeOK, Seen, WaitAhead, Row, RoomForAll
  <2>3. /\ \A r, kind : EdgesOf(r, kind)' = EdgesOf(r, kind)
        /\ \A r, l : ComesInto(r, l)' = ComesInto(r, l) /\ PassesBy(r, l)' = PassesBy(r, l)
        /\ \A r, l : Ends(r, l)' = Ends(r, l) /\ EndOf(r, l)' = EndOf(r, l)
        /\ \A r, l : RowsPassed(r, l)' = RowsPassed(r, l) /\ Leaves(r, l)' = Leaves(r, l)
        /\ \A r : LateFirst(r)' = LateFirst(r)
        /\ Seen' = Seen
    BY <2>1 DEF EdgesOf, ComesInto, PassesBy, Ends, EndOf, RowsPassed, Leaves, LateFirst, Seen
  <2>4. TellsParents' /\ WaitsAreDrawn' /\ NothingFromNowhere'
    BY <1>1, <2>1, <2>3 DEF IInv, TellsParents, WaitsAreDrawn, NothingFromNowhere
  <2>5. ColourGoesOn' /\ ColourKept'
    BY <1>1, <2>1, <2>3 DEF IInv, ColourGoesOn, ColourKept
  <2> QED
    BY <2>2, <2>4, <2>5 DEF IInv
<1> QED
  BY <1>1, <1>2, <1>3

(* The invariant.                                                           *)
THEOREM GraphInvariant == Spec => []IInv
  BY InitIInv, NextIInv, PTL DEF Spec

(* Every row and the allocator are well formed.                             *)
THEOREM TypeCorrect == Spec => []TypeOK
<1>1. IInv => TypeOK
  BY DEF IInv
<1> QED
  BY <1>1, GraphInvariant, PTL

(* The lines of the graph lead from every commit to its parents, and there  *)
(* are no others (`_assign_parents`, `_build_edges`).                       *)
THEOREM HistoryIsTold == Spec => []TellsHistory
<1>1. IInv => TellsHistory
  BY DEF IInv, TellsHistory
<1> QED
  BY <1>1, GraphInvariant, PTL

(* A line keeps its colour (`_colors`, `_take_color`).                      *)
THEOREM LinesKeepColour == Spec => []ColourKept
<1>1. IInv => ColourKept
  BY DEF IInv
<1> QED
  BY <1>1, GraphInvariant, PTL

(* No line is clipped (`lane_count`).                                       *)
THEOREM NothingIsClipped == Spec => []RoomForAll
<1>1. IInv => RoomForAll
  BY DEF IInv
<1> QED
  BY <1>1, GraphInvariant, PTL
===============================================================================
