-------------------------------- MODULE Planners ------------------------------
(***************************************************************************)
(* Several planners with a page each, on the same schedule.                *)
(***************************************************************************)
EXTENDS PreviewDesk

Init ==
  /\ scene \in Scene
  /\ rows \in Scenes[scene].starts
  /\ room = [c \in Cells |-> MaxCapacity[c[1]] -
       MapThenSumSet(LAMBDA a : rows.piece[a].qty,
                     {a \in Pieces : rows.piece[a] # None
                                     /\ rows.piece[a].cell = c})]
  /\ version = [t \in Types |-> 0]
  /\ lock = [t \in Types |-> None]
  /\ fetch = [p \in Planners |-> None]
  /\ hist = [marks |-> [t \in Types |-> 0], astray |-> {}, lopsided |-> {},
             silent |-> {}, asks |-> [p \in Planners |-> 0],
             edits |-> [p \in Planners |-> 0], saves |-> [p \in Planners |-> 0],
             fetches |-> [p \in Planners |-> 0]]
  /\ board = [p \in Planners |->
       [data |-> [rows |-> rows, versions |-> [t \in Scope(p) |-> 0],
                  marks |-> [t \in Types |-> 0], torn |-> {}],
        tab |-> IF Group(p) = None THEN "A" ELSE Group(p),
        shown |-> None, edit |-> FALSE, ref |-> None, status |-> "idle",
        base |-> [t \in Types |-> 0], torn |-> {}, edits |-> NoEdits]]
  /\ call = [p \in Planners |-> NoCall]
  /\ ask = [p \in Planners |-> [preview |-> None, act |-> NoAct]]
  /\ stored = {}

Saving(p) == FetchRows(p) \/ FetchVersions(p) \/ CallStep(p) \/ BoardStep(p)

Next == \/ \E p \in Planners : (Saving(p) /\ UNCHANGED desk) \/ DeskStep(p)
        \/ PreviewExpire

Spec == Init /\ [][Next]_<<vars, desk>>

-------------------------------------------------------------------------------
(* The capacity of a cell is what its work leaves of it, and never less    *)
(* than nothing, however the saves of the planners and the applies and     *)
(* runs of the engine meet.  Two kinds of cells are not safe, and exempt.  *)
(* Some were written without the lock of their type, when work of another  *)
(* type was put there (manual-edit-service.ts:111) or deleted there by the *)
(* engine (core.ts:164).  Others were written under the lock, but by an    *)
(* apply of a plan that is older than the last write to its type, and that *)
(* the comparison of the versions lets through (preview/route.ts:58,       *)
(* core.ts:211): of its type the cells that the plan writes, no others.    *)
CapacityKept ==
  \A c \in Cells \ hist.astray :
    /\ room[c] >= 0
    /\ room[c] + MapThenSumSet(LAMBDA a : rows.piece[a].qty,
                               {a \in Pieces : rows.piece[a] # None
                                               /\ rows.piece[a].cell = c})
         = MaxCapacity[c[1]]

(* A save writes to a type only if nobody else has written to it since the *)
(* rows were read that its edit mode rests on, refreshes of the page       *)
(* notwithstanding.  Five gaps are known: rows and versions that were read *)
(* on both sides of a write (visualization/service.ts:76), a write between *)
(* the comparison and the lock (manual-edit-service.ts:101), versions the  *)
(* page has miscounted itself (page.tsx:2840), an order of which the page  *)
(* has no row of that type, so that no version is sent for it              *)
(* (page.tsx:2712), and a run that moved no version on (core.ts:211).      *)
NothingUnseenOverwritten ==
  [][\A p \in Planners : \A t \in Types :
       LET c == call[p]
           flag == Head(c.queue)
           compared == /\ t \in DOMAIN c.live /\ c.live[t] = version[t]
                       /\ flag.kind = "flag" => c.shown[flag.order] = t
       IN Saves(p) /\ board'[p].base[t] # board[p].base[t] =>
            \/ hist.marks[t] = board[p].base[t]
            \/ t \in board[p].torn
            \/ ~compared
            \/ p \in hist.lopsided
            \/ t \in hist.silent]_vars

(* The page says that the schedule has been modified by another user only  *)
(* if something was written that it has not seen, or somebody holds a      *)
(* lock, or its own calls have put its count of the versions off: several  *)
(* moves of one type, which the server counts once (page.tsx:2840), or an  *)
(* earlier save that got half way (page.tsx:2736).                         *)
ConflictHasCause ==
  [][\A p \in Planners :
       board[p].status = "saving" /\ board'[p].status = "conflict" =>
         \/ hist.marks # board[p].base
         \/ \E t \in Types : lock[t] \notin {None, p}
         \/ p \in hist.lopsided]_vars

(* What a save that ends well has sent is in the tables, unless others     *)
(* have written in the meantime: no edit of the page is dropped, and the   *)
(* calls for one order do not get in each other's way (page.tsx:2736-2898).*)
Stored(p) ==
  LET e == board[p].edits
      has(o, cell, qty) == \E a \in Pieces :
        rows.piece[a] = [order |-> o, cell |-> cell, qty |-> qty]
  IN /\ \A a \in Pieces : e.moves[a] # None => rows.piece[a].cell = e.moves[a]
     /\ \A o \in Orders :
          /\ e.place[o] # None => has(o, e.place[o], Quantity[o])
          /\ e.fixed[o] # None => rows.fixed[o] = e.fixed[o]
          /\ e.prio[o] # None => rows.prio[o] = e.prio[o]
     /\ \A s \in Parts :
          e.part[s] # None => has(s[1], e.part[s].cell, e.part[s].qty)
SavedMeansStored ==
  [][\A p \in Planners :
       board'[p].status = "success" /\ board[p].status = "saving"
       /\ hist.marks = board[p].base => Stored(p)]_vars

-------------------------------------------------------------------------------
(* What a planner is shown is what an apply makes of the tables, in the    *)
(* cells of the page: the work of the orders of the type, the room that is *)
(* left (where CapacityKept holds), and which orders fail.                 *)
ComesTrue(p, shown) ==
  LET plan == shown.kept.plan
      cells == {c \in Cells : FactoryType[c[1]] \in Scope(p)}
  IN /\ \A c \in cells, o \in {x \in Orders : OrderType[x] = plan.type} :
          InCell({w \in shown.chips : w.order = o}, c)
            = Total({a \in PiecesOf(o) : rows.piece[a].cell = c})
     /\ \A c \in OwnCells(plan.type) \ hist.astray :
          InCell(shown.chips, c) = MaxCapacity[c[1]] - room[c]
     /\ shown.failed = {o \in DOMAIN plan.in.rows : rows.status[o] = "FAILED"}

FirstDay(p, o) ==
  FirstDays({rows.piece[a].cell : a \in Shown(p, rows) \cap PiecesOf(o)})

(* An apply that is not refused does what the page showed when it was      *)
(* asked for, whatever others did in the meantime and however old the page *)
(* is.  Three gaps are known: a preview whose version was read after a     *)
(* write that it has not seen (preview/route.ts:58), a run that wrote      *)
(* without moving the version on (core.ts:211), and a page with rows that  *)
(* were older than the preview: an order that had failed in the meantime   *)
(* is shown where it was (page.tsx:359).                                   *)
PreviewComesTrue ==
  [][\A p \in Planners :
       LET r == ask[p].act IN
       r.op = "apply" /\ r.at = "commit" /\ ask'[p].act # r =>
         \A s \in {r.shown} :
           \/ s.kept.torn \/ s.kept.plan.type \in hist.silent \/ s.aged
           \/ /\ ComesTrue(p, s)'
              /\ s.moved = {o \in DOMAIN s.kept.plan.in.rows :
                             FirstDay(p, o) # FirstDay(p, o)'}]_<<vars, desk>>

(* A preview is of the type that the page is on, and it is not shown to    *)
(* somebody who edits, unless its answer came after the page had moved on  *)
(* (page.tsx:2447).                                                        *)
Belongs(b) == b.shown # None => b.shown.kept.plan.type = b.tab /\ ~b.edit
PreviewBelongs ==
  [][\A p \in Planners :
       Belongs(board[p]) /\ ~Belongs(board'[p]) =>
         board'[p].shown # board[p].shown]_<<vars, desk>>
===============================================================================
