------------------------------- MODULE GraphLanes ------------------------------
(***************************************************************************)
(* The commit graph, drawn row by row: LaneAllocator (domain/graph.py) fed  *)
(* by CommitGraphModel.append_commits (viewmodel/commit_graph_model.py).    *)
(*                                                                         *)
(* A commit is the number of the row it gets; a greater one is not loaded   *)
(* yet, and those above `Loaded` never are (a shallow clone).  The walk     *)
(* gives children before parents, but for skewed clocks: a parent may have  *)
(* been drawn above already.  Lanes count from 1.                           *)
(***************************************************************************)
EXTENDS Naturals, FiniteSetsExt, SequencesExt

CONSTANTS
  Commits,    \* the number of commits
  Loaded,     \* of those, the number that are loaded
  MaxParents, \* bound on the parents of a commit
  Palette     \* PALETTE_SIZE

ASSUME GraphLanesAssumption ==
  /\ Commits \in Nat /\ Loaded \in 0..Commits
  /\ MaxParents \in Nat /\ Palette \in Nat \ {0}

None == 0

(* A definition named D_Variant is a wrong version of D, to try the         *)
(* properties on; nothing uses it.                                          *)

VARIABLES
  graph,    \* the allocator: the commit each lane waits for, its colour, and
            \* the number of colours given out
  rows,     \* the rows drawn
  parents   \* history: the parents of each commit loaded

vars == <<graph, rows, parents>>

Row == Len(rows) + 1
Seen == DOMAIN rows

Init ==
  /\ graph = [lanes |-> <<>>, colors |-> <<>>, next |-> 0]
  /\ rows = <<>>
  /\ parents = <<>>

-------------------------------------------------------------------------------
Waiting(g, c) == {i \in DOMAIN g.lanes : g.lanes[i] = c}

(* `_allocate_lane`: the leftmost that is free, or a new one; `_take_color`. *)
AllocateLane(g) ==
  LET lane == Min(Waiting(g, None) \cup {Len(g.lanes) + 1})
      wide == IF lane > Len(g.lanes)
              THEN [g EXCEPT !.lanes = Append(@, None), !.colors = Append(@, 0)] ELSE g
  IN  [graph |-> [wide EXCEPT !.colors = [@ EXCEPT ![lane] = g.next % Palette], !.next = @ + 1],
       lane |-> lane]

Released(g, L) == [g EXCEPT !.lanes = [i \in DOMAIN @ |-> IF i \in L THEN None ELSE @[i]]]

(* `_claim_lane`: all lanes that wait for the commit end in it.  out are the *)
(* lanes of its parents, none so far.                                       *)
ClaimLane(g, c) ==
  LET W == Waiting(g, c)
      new == AllocateLane(g)
  IN  IF W = {} THEN [graph |-> new.graph, lane |-> new.lane, merged |-> {}, out |-> {}]
      ELSE [graph |-> Released(g, W), lane |-> Min(W), merged |-> W \ {Min(W)}, out |-> {}]

(* A lane waits for a parent.                                               *)
Reserved(g, lane, p) == [g EXCEPT !.lanes = [@ EXCEPT ![lane] = p]]

(* The first parent goes on in the lane, unless it has been drawn already.  *)
FirstParent_Unseen(a, p) == [a EXCEPT !.graph = Reserved(@, a.lane, p), !.out = {a.lane}]

FirstParent(a, p) ==
  IF p \in Seen THEN a ELSE [a EXCEPT !.graph = Reserved(@, a.lane, p), !.out = {a.lane}]

OtherParent_OwnLane(a, p) ==
  IF p \in Seen THEN a
  ELSE LET new == AllocateLane(a.graph)
       IN  [a EXCEPT !.graph = Reserved(new.graph, new.lane, p),
                     !.out = @ \cup {new.lane}]

(* Another joins the lane that waits for it, or gets one that has just come *)
(* free, or another.                                                        *)
OtherParent(a, p) ==
  CASE p \in Seen -> a
    [] p \notin Seen /\ Waiting(a.graph, p) # {} ->
         [a EXCEPT !.out = @ \cup {Min(Waiting(a.graph, p))}]
    [] OTHER ->
         LET new == IF a.merged # {} THEN [graph |-> a.graph, lane |-> Min(a.merged)]
                    ELSE AllocateLane(a.graph)
         IN  [a EXCEPT !.graph = Reserved(new.graph, new.lane, p),
                       !.merged = @ \ {new.lane},
                       !.out = @ \cup {new.lane}]

(* `_assign_parents`, one parent after the other.                           *)
AssignParents(claim, ps) ==
  LET assigned[n \in 0..Len(ps)] ==
        CASE n = 0 -> claim
          [] n = 1 -> FirstParent(assigned[0], ps[1])
          [] OTHER -> OtherParent(assigned[n - 1], ps[n])
  IN  assigned[Len(ps)]

Edge(from, to, color, kind) == [from |-> from, to |-> to, color |-> color, kind |-> kind]

(* `_build_edges`, from the lanes as they were before and the colours after. *)
BuildEdges(c, before, a) ==
  {Edge(i, a.lane, a.graph.colors[i], "incoming") : i \in {i \in DOMAIN before : before[i] = c}}
  \cup {Edge(i, i, a.graph.colors[i], "pass") : i \in {i \in DOMAIN before : before[i] \notin {c, None}}}
  \cup {Edge(a.lane, i, a.graph.colors[i], "outgoing") : i \in a.out}

(* `_trim_trailing_empty_lanes`.                                            *)
Trimmed(g) ==
  LET last == Max({i \in DOMAIN g.lanes : g.lanes[i] # None} \cup {0})
  IN  [g EXCEPT !.lanes = SubSeq(@, 1, last), !.colors = SubSeq(@, 1, last)]

LaneCount_After(before, after, lane) == Max({Len(after), lane})

(* The lanes that the row needs above or below.                             *)
LaneCount(before, after, lane) == Max({Len(before), Len(after), lane})

(* `push`.                                                                  *)
Push(ps) ==
  LET a == AssignParents(ClaimLane(graph, Row), ps)
      after == Trimmed(a.graph)
  IN  /\ rows' = Append(rows, [lane |-> a.lane, color |-> a.graph.colors[a.lane],
                               edges |-> BuildEdges(Row, graph.lanes, a),
                               lane_count |-> LaneCount(graph.lanes, after.lanes, a.lane)])
      /\ graph' = after
      /\ parents' = Append(parents, ps)

(* The rows that descend from the one to come, through n others or fewer.   *)
Descendants ==
  LET D[n \in 0..Len(rows)] ==
        LET found == {Row} \cup IF n = 0 THEN {} ELSE D[n - 1]
        IN  {c \in Seen : Range(parents[c]) \cap found # {}}
  IN  D[Len(rows)]

(* No commit is its own ancestor, nor has a parent twice.                   *)
Histories ==
  LET others == (1..Commits) \ ({Row} \cup Descendants)
  IN  {ps \in UNION {[1..n -> others] : n \in 0..MaxParents} : IsInjective(ps)}

Next == Row <= Loaded /\ \E ps \in Histories : Push(ps)

Spec == Init /\ [][Next]_vars
-------------------------------------------------------------------------------
Lanes == Nat \ {0}
Colors == 0..(Palette - 1)
Edges == [from : Lanes, to : Lanes, color : Colors, kind : {"incoming", "pass", "outgoing"}]
Rows == [lane : Lanes, color : Colors, edges : SUBSET Edges, lane_count : Lanes]

(* Types: every lane has its colour and the last one waits, every row has   *)
(* its parents, which are other commits.                                    *)
TypeOK ==
  /\ graph \in [lanes : Seq(0..Commits), colors : Seq(Colors), next : Nat]
  /\ Len(graph.colors) = Len(graph.lanes)
  /\ graph.lanes # <<>> => Last(graph.lanes) # None
  /\ rows \in Seq(Rows)
  /\ parents \in Seq(Seq(1..Commits)) /\ Len(parents) = Len(rows)
  /\ \A r \in Seen : r \notin Range(parents[r])

EdgesOf(r, kind) == {e \in rows[r].edges : e.kind = kind}
ComesInto(r, lane) == {e \in EdgesOf(r, "incoming") : e.from = lane}
PassesBy(r, lane) == {e \in EdgesOf(r, "pass") : e.from = lane}

(* The line that leaves row r down the lane: the row it ends in, or that    *)
(* its lane waits for.                                                      *)
Ends(r, lane) == {k \in (r + 1)..Len(rows) : ComesInto(k, lane) # {}}

EndOf(r, lane) ==
  CASE Ends(r, lane) # {} -> Min(Ends(r, lane))
    [] Ends(r, lane) = {} /\ lane \in DOMAIN graph.lanes -> graph.lanes[lane]
    [] OTHER -> None

RowsPassed(r, lane) == {k \in (r + 1)..Len(rows) : k < EndOf(r, lane)}

(* The lines out of a commit, followed down row by row through lanes that   *)
(* close, merge and are used again, end in its parents, in all of them and  *)
(* in no other commit; but for parents drawn above it, which get no line    *)
(* (doc/design.md 4.1).                                                     *)
TellsParents ==
  \A r \in Seen :
    LET out == {e.to : e \in EdgesOf(r, "outgoing")}
    IN  /\ {EndOf(r, lane) : lane \in out} = {p \in Range(parents[r]) : p > r}
        /\ \A lane \in out : \A k \in RowsPassed(r, lane) : PassesBy(k, lane) # {}

(* No line starts in the air: what comes into a row or passes it by left a  *)
(* row above it and has not ended since.                                    *)
NothingFromNowhere ==
  \A r \in Seen : \A e \in EdgesOf(r, "incoming") \cup EdgesOf(r, "pass") :
    \E k \in 1..(r - 1) :
      /\ \E o \in EdgesOf(k, "outgoing") : o.to = e.from
      /\ EndOf(k, e.from) >= r

(* The drawing tells the history, no less and no more.                      *)
TellsHistory == TellsParents /\ NothingFromNowhere

(* A line keeps its colour down to the node it ends in, whatever opens,     *)
(* closes or is used again beside it (`_colors`, doc/design.md 4.1 rule 5). *)
(* Not said of a merge whose first parent is above it: its other parent     *)
(* takes its lane with a new colour, the line into it included.             *)
LateFirst(r) == parents[r] # <<>> /\ Head(parents[r]) < r

ColourKept ==
  \A r \in Seen : \A o \in EdgesOf(r, "outgoing") :
    \A k \in (r + 1)..Len(rows) :
      k <= EndOf(r, o.to) /\ ~LateFirst(k) =>
        \A e \in ComesInto(k, o.to) \cup PassesBy(k, o.to) : e.color = o.color

(* The row is wide enough for all it draws: the delegate clips the rest.    *)
RoomForAll ==
  \A r \in Seen :
    \A lane \in {rows[r].lane} \cup {e.from : e \in rows[r].edges} \cup {e.to : e \in rows[r].edges} :
      lane <= rows[r].lane_count
===============================================================================
