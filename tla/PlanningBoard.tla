----------------------------- MODULE PlanningBoard ----------------------------
(***************************************************************************)
(* The page app/(dashboard)/visualization/page.tsx in edit mode: what is   *)
(* dragged, placed, split and flagged stays in the page until it is saved. *)
(* The data under it is replaced by every refresh.                         *)
(***************************************************************************)
EXTENDS ManualEdit

Item(p, a) == board[p].data.rows.piece[a]
Listed(p) == Shown(p, board[p].data.rows)
Waiting(p) == Pending(p, board[p].data.rows)

NoEdits ==
  [moves |-> [a \in Pieces |-> None],
   place |-> [o \in Orders |-> None],
   split |-> [o \in Orders |-> <<>>],
   part |-> [s \in Parts |-> None],
   fixed |-> [o \in Orders |-> None],
   prio |-> [o \in Orders |-> None]]

(* Out of edit mode; what was remembered for the edits is forgotten.       *)
Left(b, status) == [b EXCEPT !.edit = FALSE, !.ref = None, !.status = status,
                             !.edits = NoEdits]

(* The versions are remembered when the edit mode is entered; no preview   *)
(* is shown then, though one may still come.                               *)
EnterEdit(p) ==
  LET d == board[p].data IN
  /\ ~board[p].edit /\ ~Saves(p) /\ board[p].shown = None
  /\ hist.edits[p] < Scenes[scene].edits[p]
  /\ board' = [board EXCEPT ![p] =
       [@ EXCEPT !.edit = TRUE, !.ref = d.versions, !.status = "idle",
                 !.base = d.marks, !.torn = d.torn, !.edits = NoEdits]]
  /\ hist' = [hist EXCEPT !.lopsided = @ \ {p}]
  /\ UNCHANGED <<rows, room, version, lock, fetch, call, scene>>

(* Bounds: an edit mode in which nothing was edited is not left, which is  *)
(* as good as not having entered it; and nobody discards while a save is   *)
(* on, though the button stays enabled (page.tsx:4122).                    *)
DiscardEdits(p) ==
  /\ board[p].edit /\ ~Saves(p) /\ board[p].edits # NoEdits
  /\ board' = [board EXCEPT ![p] = Left(@, "idle")]
  /\ UNCHANGED <<rows, room, version, lock, fetch, call, scene, hist>>

(* An edit, one of those of the scene; nobody edits while a save is on, or *)
(* under a preview that has come late.                                     *)
Edited(p, op, edits) ==
  /\ board[p].edit /\ ~Saves(p) /\ board[p].shown = None
  /\ May(p, op) /\ hist.edits[p] < Scenes[scene].edits[p]
  /\ edits # board[p].edits
  /\ board' = [board EXCEPT ![p].edits = edits]
  /\ hist' = [hist EXCEPT !.edits[p] = @ + 1]
  /\ UNCHANGED <<rows, room, version, lock, fetch, call, scene>>

-------------------------------------------------------------------------------
(* The view: the data with the edits on it.                                *)
InView(p, a) ==
  LET m == board[p].edits.moves[a] IN IF m = None THEN Item(p, a).cell ELSE m
Used(p, c) ==
  LET e == board[p].edits
      items == {a \in Listed(p) : InView(p, a) = c}
      whole == {o \in Waiting(p) : e.place[o] = c}
      parts == {s \in Parts : /\ s[1] \in Waiting(p) /\ e.part[s] # None
                              /\ e.part[s].cell = c}
  IN  MapThenSumSet(LAMBDA a : Item(p, a).qty, items)
      + MapThenSumSet(LAMBDA o : Quantity[o], whole)
      + MapThenSumSet(LAMBDA s : e.part[s].qty, parts)

(* A cell takes what comes before the due date and fits, in the view.      *)
Droppable(p, c, o, qty) == /\ FactoryType[c[1]] \in Scope(p)
                           /\ c[2] < Due[o]
                           /\ Used(p, c) + qty <= MaxCapacity[c[1]]

(* A flag as the view shows it.  What is only placed there is not fixed.   *)
OnlyPlaced(p, o) ==
  \/ board[p].edits.place[o] # None
  \/ \E i \in 1 .. MaxParts : board[p].edits.part[<<o, i>>] # None
RowsOf(p, o) == {a \in Listed(p) : Item(p, a).order = o}
Baseline(p, field, o) == RowsOf(p, o) # {} /\ board[p].data.rows[field][o]
Flagged(p, field, o) ==
  IF board[p].edits[field][o] # None THEN board[p].edits[field][o]
  ELSE \/ Baseline(p, field, o)
       \/ RowsOf(p, o) = {} /\ field = "prio" /\ board[p].data.rows.prio[o]

(* handleDragEnd: back where the data has it, there is nothing to save.    *)
Drag(p, a, c) ==
  /\ a \in Listed(p) /\ ~Flagged(p, "fixed", Item(p, a).order)
  /\ c # InView(p, a) /\ Droppable(p, c, Item(p, a).order, Item(p, a).qty)
  /\ Edited(p, "drag", [board[p].edits EXCEPT
                          !.moves[a] = IF c = Item(p, a).cell THEN None ELSE c])

Stage(p, a) ==
  /\ a \in Listed(p) /\ ~Flagged(p, "fixed", Item(p, a).order)
  /\ Edited(p, "stage", [board[p].edits EXCEPT !.moves[a] = Staging])

Place(p, o, c) ==
  LET e == board[p].edits IN
  /\ o \in Waiting(p) /\ e.place[o] = None /\ e.split[o] = <<>>
  /\ Droppable(p, c, o, Quantity[o])
  /\ Edited(p, "place", [e EXCEPT !.place[o] = c])

(* confirmSplit: the parts make up the quantity the page has.              *)
ConfirmSplit(p, o, parts) ==
  LET e == board[p].edits IN
  /\ o \in Waiting(p) /\ e.place[o] = None /\ e.split[o] = <<>>
  /\ MapThenSumSet(LAMBDA i : parts[i], DOMAIN parts) = Quantity[o]
  /\ Edited(p, "split", [e EXCEPT !.split[o] = parts])

UndoSplit(p, o) ==
  LET e == board[p].edits IN
  /\ e.split[o] # <<>> /\ o \in Waiting(p)
  /\ Edited(p, "split", [e EXCEPT
       !.split[o] = <<>>,
       !.part = [s \in Parts |-> IF s[1] = o THEN None ELSE e.part[s]]])

PlacePart(p, o, i, c) ==
  LET e == board[p].edits IN
  /\ o \in Waiting(p) /\ i \in DOMAIN e.split[o] /\ e.part[<<o, i>>] = None
  /\ Droppable(p, c, o, e.split[o][i])
  /\ \A j \in DOMAIN e.split[o] :
       e.part[<<o, j>>] # None => e.part[<<o, j>>].cell # c
  /\ Edited(p, "part", [e EXCEPT
       !.part[<<o, i>>] = [cell |-> c, qty |-> e.split[o][i]]])

(* handleToggleOrderFixed, handleToggleOrderPrioritized: an order in the   *)
(* view is flagged, one that is only placed there too.  An edit that says  *)
(* what the rows of the page say is dropped.                               *)
Toggle(p, field, o) ==
  LET next == ~Flagged(p, field, o) IN
  /\ RowsOf(p, o) # {} \/ (o \in Waiting(p) /\ OnlyPlaced(p, o))
  /\ Edited(p, field, [board[p].edits EXCEPT
       ![field][o] = IF next = Baseline(p, field, o) THEN None ELSE next])

-------------------------------------------------------------------------------
(* handleSaveEdits.  The calls: unlock, all moves at once, lock, priority. *)
Changed(p, field, value) ==
  {o \in Orders : board[p].edits[field][o] = value
                  /\ Baseline(p, field, o) # value}

FlagCalls(p, field, value) ==
  LET C == Changed(p, field, value)
      nth(k) == CHOOSE o \in C : Cardinality({x \in C : x <= o}) = k
  IN [k \in 1 .. Cardinality(C) |->
        [kind |-> "flag", field |-> field, order |-> nth(k), value |-> value]]

MovesOf(e) ==
  {[piece |-> a, cell |-> e.moves[a]] :
     a \in {x \in Pieces : e.moves[x] # None}}
  \cup {[piece |-> None, order |-> o, part |-> 0, cell |-> e.place[o],
         qty |-> Quantity[o]] : o \in {x \in Orders : e.place[x] # None}}
  \cup {[piece |-> None, order |-> s[1], part |-> s[2],
         cell |-> e.part[s].cell, qty |-> e.part[s].qty] :
          s \in {x \in Parts : e.part[x] # None}}

(* Mutant: orders that are only placed do not count as something to send.  *)
CallsDragged(p) ==
  LET M == MovesOf(board[p].edits) IN
  FlagCalls(p, "fixed", FALSE)
  \o (IF \E m \in M : m.piece # None THEN <<[kind |-> "bulk", moves |-> M]>>
      ELSE <<>>)
  \o FlagCalls(p, "fixed", TRUE)
  \o FlagCalls(p, "prio", TRUE) \o FlagCalls(p, "prio", FALSE)

Calls(p) ==
  LET M == MovesOf(board[p].edits) IN
  FlagCalls(p, "fixed", FALSE)
  \o (IF M # {} THEN <<[kind |-> "bulk", moves |-> M]>> ELSE <<>>)
  \o FlagCalls(p, "fixed", TRUE)
  \o FlagCalls(p, "prio", TRUE) \o FlagCalls(p, "prio", FALSE)

(* The type of the factory of the first row of an order.                   *)
ShownType(p, o) ==
  LET rowsOf == RowsOf(p, o)
      first(a) == \A b \in rowsOf :
                    \/ Item(p, a).cell[2] < Item(p, b).cell[2]
                    \/ (Item(p, a).cell[2] = Item(p, b).cell[2] /\ a <= b)
  IN IF rowsOf = {} THEN None
     ELSE FactoryType[Item(p, CHOOSE a \in rowsOf : first(a)).cell[1]]

(* Mutant: the versions are those of the last refresh.                     *)
ExpectedLatest(p) == board[p].data.versions

Expected(p) == IF board[p].ref # None THEN board[p].ref
               ELSE board[p].data.versions

(* A save is not begun while work is in staging or a part is not placed.   *)
SaveBegin(p) ==
  LET b == board[p]
      e == b.edits
  IN
  /\ b.edit /\ ~Saves(p)
  /\ \A a \in Pieces : e.moves[a] # Staging
  /\ \A o \in Orders : \A i \in DOMAIN e.split[o] : e.part[<<o, i>>] # None
  /\ e # NoEdits /\ hist.saves[p] < Scenes[scene].saves[p]
  /\ board' = [board EXCEPT ![p].status = "saving"]
  /\ call' = [call EXCEPT ![p] =
       [queue |-> Calls(p), at |-> "next", live |-> Expected(p), sent |-> FALSE,
        shown |-> [o \in Orders |-> ShownType(p, o)]]]
  /\ hist' = [hist EXCEPT !.saves[p] = @ + 1]
  /\ UNCHANGED <<rows, room, version, lock, fetch, scene>>

(* All calls have been answered: the edits are taken to be stored.         *)
SaveEnd(p) ==
  /\ call[p].at = "next" /\ call[p].queue = <<>>
  /\ board' = [board EXCEPT ![p] = Left(@, "success")]
  /\ call' = [call EXCEPT ![p] = NoCall]
  /\ UNCHANGED <<rows, room, version, lock, fetch, scene, hist>>

BoardStep(p) ==
  \/ EnterEdit(p) \/ DiscardEdits(p) \/ SaveBegin(p) \/ SaveEnd(p)
  \/ \E a \in Pieces : Stage(p, a) \/ \E c \in Scenes[scene].targets : Drag(p, a, c)
  \/ \E o \in Orders :
       \/ UndoSplit(p, o)
       \/ \E c \in Scenes[scene].targets : Place(p, o, c)
       \/ \E parts \in Scenes[scene].parts : ConfirmSplit(p, o, parts)
       \/ \E i \in 1 .. MaxParts, c \in Scenes[scene].targets :
            PlacePart(p, o, i, c)
       \/ \E field \in {"fixed", "prio"} : Toggle(p, field, o)
===============================================================================
