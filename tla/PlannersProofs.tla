---------------------------- MODULE PlannersProofs ----------------------------
(***************************************************************************)
(* What keeps planners from overwriting each other, for any planners,      *)
(* types, calendars and scenes, any number of edits and saves, and any     *)
(* plans of the engine.                                                    *)
(***************************************************************************)
EXTENDS Planners, TLAPS

Histories ==
  [marks : [Types -> Nat], astray : SUBSET Cells, lopsided : SUBSET Planners,
   silent : SUBSET Types, asks : [Planners -> Nat], edits : [Planners -> Nat],
   saves : [Planners -> Nat], fetches : [Planners -> Nat]]

Holders == Planners \cup {Engine(p) : p \in Planners}

(* What is the same for every planner.                                     *)
TablesOK ==
  /\ scene \in Scene
  /\ "piece" \in DOMAIN rows
  /\ version \in [Types -> Nat]
  /\ lock \in [Types -> Holders \cup {None}]
  /\ hist \in Histories
  /\ \A f \in {fetch, board, call, ask} : DOMAIN f = Planners

(* A plan is about orders of its type.                                     *)
PlanFits(plan) ==
  /\ plan.type \in Types
  /\ \A o \in DOMAIN plan.in.rows : OrderType[o] = plan.type

BoardShape(b) ==
  b = [data |-> b.data, tab |-> b.tab, shown |-> b.shown, edit |-> b.edit,
       ref |-> b.ref, status |-> b.status, base |-> b.base, torn |-> b.torn,
       edits |-> b.edits]

BoardOK(p) ==
  LET b == board[p] IN
  /\ BoardShape(b)
  /\ b.data.versions \in [Scope(p) -> Nat] /\ b.data.marks \in [Types -> Nat]
  /\ b.base \in [Types -> Nat] /\ b.tab \in Types /\ b.edit \in BOOLEAN
  /\ b.edit => b.ref \in [Scope(p) -> Nat]
  /\ b.shown # None => PlanFits(b.shown.kept.plan)
  /\ Saves(p) => b.edit

CallOK(p) ==
  LET c == call[p] IN
  Saves(p) =>
    /\ c = [queue |-> c.queue, at |-> c.at, live |-> c.live, sent |-> c.sent,
            shown |-> c.shown]
    /\ DOMAIN c.live = Scope(p) /\ c.sent \in BOOLEAN

FetchOK(p) ==
  fetch[p] # None =>
    /\ fetch[p].marks \in [Types -> Nat]
    /\ \A t \in Types : fetch[p].marks[t] <= hist.marks[t]

(* Who holds a lock is at work under it.                                   *)
Owned ==
  \A p \in Planners, t \in Types :
    lock[t] = p => call[p].at \in {"read", "gone", "write", "bump"}

(* What a save moves is there, and its types are locked.                   *)
MovesHeld(p) ==
  call[p].at \in {"read", "write"} =>
    \A m \in Moves(p) : Found(m) /\ lock[OrderType[OrderOf(m)]] = p

PreviewOK(p) ==
  LET r == ask[p].preview IN
  r # None =>
    /\ r.at = "read" => r.type \in Types
    /\ r.at = "version" => PlanFits(r.plan)
    /\ r.at = "answer" => PlanFits(r.kept.plan)

ActOK(p) ==
  LET r == ask[p].act IN
  \/ r = NoAct
  \/ /\ r.op = "apply" /\ r.at \in {"read", "lock", "commit"}
     /\ r = [op |-> "apply", at |-> r.at, shown |-> r.shown]
     /\ PlanFits(r.shown.kept.plan)
     /\ r.at = "commit" => lock[TypeAsked(r)] = Engine(p)
  \/ /\ r.op = "run" /\ r.at \in {"lock", "commit"}
     /\ r = [op |-> "run", at |-> r.at, type |-> r.type, policy |-> r.policy]
     /\ r.type \in Types
     /\ r.at = "commit" => lock[TypeAsked(r)] = Engine(p)
  \/ /\ r.at = "bump" /\ r.op \in {"apply", "run"}
     /\ r = [op |-> r.op, at |-> "bump", type |-> r.type, counted |-> r.counted,
             changed |-> r.changed, kept |-> r.kept]
     /\ r.type \in Types /\ lock[r.type] = Engine(p)
     /\ (r.counted <=> r.op = "apply" \/ r.changed) /\ r.changed \in BOOLEAN
     /\ r.counted \/ r.type \in hist.silent

AskOK(p) == DOMAIN ask[p] = {"preview", "act"} /\ PreviewOK(p) /\ ActOK(p)

-------------------------------------------------------------------------------
(* A version and what was seen up to it, ver and base, against the version *)
(* V and the marks M of the tables, for the types S.  Where nothing was    *)
(* written since, ver is the version; and where ver is still the version   *)
(* nothing was written, except by who is ahead of the version, A: he has   *)
(* written and not yet moved it on.  Types that are torn or silent, Z, may *)
(* have been written to all the same.                                      *)
Tracks(S, ver, base, Z, M, V, A) ==
  \A t \in Types :
    /\ base[t] <= M[t]
    /\ t \in S =>
         /\ ver[t] <= V[t]
         /\ base[t] = M[t] => ver[t] = V[t]
         /\ ver[t] = V[t] /\ t \notin Z => base[t] = M[t] \/ t \in A

Ahead ==
  {t \in Types :
     \/ \E p \in Planners : lock[t] = p /\ call[p].at = "bump"
     \/ \E p \in Planners :
          /\ lock[t] = Engine(p) /\ ask[p].act.at = "bump"
          /\ ask[p].act.type = t /\ ask[p].act.counted}

(* Those who are ahead, without p, who knows what he has written himself.  *)
AheadBut(p) == {t \in Ahead : lock[t] # p}

DataTracks(p) ==
  LET d == board[p].data IN
  Tracks(Scope(p), d.versions, d.marks, d.torn \cup hist.silent,
         hist.marks, version, Ahead)

(* What a page counts on in edit mode, and while it saves.                 *)
Ver(p) == IF Saves(p) THEN call[p].live ELSE board[p].ref
EditTracks(p) ==
  board[p].edit /\ p \notin hist.lopsided =>
    /\ Ver(p) \in [Scope(p) -> Nat]
    /\ Tracks(Scope(p), Ver(p), board[p].base, board[p].torn \cup hist.silent,
              hist.marks, version, AheadBut(p))
    /\ Saves(p) /\ ~call[p].sent => call[p].live = board[p].ref

PageOK(p) ==
  /\ BoardOK(p) /\ CallOK(p) /\ FetchOK(p) /\ MovesHeld(p) /\ AskOK(p)
  /\ DataTracks(p) /\ EditTracks(p)

IInv == TablesOK /\ Owned /\ \A p \in Planners : PageOK(p)

-------------------------------------------------------------------------------
(* Planners and their engines have different names, and none is None.      *)
LEMMA Names ==
  /\ \A p, q \in Planners : p # None /\ Engine(p) # None /\ p # Engine(q)
  /\ \A p, q \in Planners : Engine(p) = Engine(q) => p = q
  /\ None \notin Holders
<1>1. /\ Planners \subseteq Nat \ {0} /\ None \notin Int
  BY PlanAssumption
<1>2. \A p, q \in Planners : p # None /\ Engine(p) # None /\ p # Engine(q)
  BY <1>1, SMT DEF Engine
<1>3. \A p, q \in Planners : Engine(p) = Engine(q) => p = q
  BY <1>1, SMT DEF Engine
<1> QED
  BY <1>2, <1>3 DEF Holders

(* Tracking survives what others do: wherever they write, the version has  *)
(* moved on, or will.                                                      *)
LEMMA TracksKept ==
  ASSUME NEW S, NEW ver, NEW base, NEW Z, NEW Z2, NEW A, NEW A2,
         NEW M \in [Types -> Nat], NEW M2 \in [Types -> Nat],
         NEW V \in [Types -> Nat], NEW V2 \in [Types -> Nat],
         S \subseteq Types, ver \in [S -> Nat], base \in [Types -> Nat],
         Tracks(S, ver, base, Z, M, V, A),
         Z \subseteq Z2,
         \A t \in Types :
           /\ M[t] <= M2[t] /\ V[t] <= V2[t]
           /\ V2[t] # V[t] => M2[t] # M[t]
           /\ V2[t] = V[t] =>
                \/ M2[t] = M[t] /\ (t \in A => t \in A2)
                \/ t \in Z2 \cup A2
  PROVE  Tracks(S, ver, base, Z2, M2, V2, A2)
<1> SUFFICES ASSUME NEW t \in Types
             PROVE  /\ base[t] <= M2[t]
                    /\ t \in S =>
                         /\ ver[t] <= V2[t]
                         /\ base[t] = M2[t] => ver[t] = V2[t]
                         /\ ver[t] = V2[t] /\ t \notin Z2 =>
                              base[t] = M2[t] \/ t \in A2
  BY DEF Tracks
<1>1. /\ base[t] \in Nat /\ M[t] \in Nat /\ M2[t] \in Nat
      /\ V[t] \in Nat /\ V2[t] \in Nat /\ (t \in S => ver[t] \in Nat)
  OBVIOUS
<1>2. /\ base[t] <= M[t]
      /\ t \in S =>
           /\ ver[t] <= V[t]
           /\ base[t] = M[t] => ver[t] = V[t]
           /\ ver[t] = V[t] /\ t \notin Z => base[t] = M[t] \/ t \in A
  BY DEF Tracks
<1>3. /\ M[t] <= M2[t] /\ V[t] <= V2[t]
      /\ V2[t] # V[t] => M2[t] # M[t]
      /\ V2[t] = V[t] => \/ M2[t] = M[t] /\ (t \in A => t \in A2)
                        \/ t \in Z2 \cup A2
  OBVIOUS
<1> QED
  BY <1>1, <1>2, <1>3, SMT

-------------------------------------------------------------------------------
(* What a step under the name h, a planner's or his engine's, may do to    *)
(* the marks, the versions and the locks.                                  *)
Grows(h) ==
  /\ hist.silent \subseteq hist'.silent
  /\ \A t \in Types :
       /\ hist.marks[t] <= hist'.marks[t] /\ version[t] <= version'[t]
       /\ version'[t] # version[t] => hist'.marks[t] # hist.marks[t]
       /\ version'[t] = version[t] =>
            \/ /\ hist'.marks[t] = hist.marks[t]
               /\ t \in Ahead => t \in Ahead' /\ lock'[t] = lock[t]
            \/ t \in hist'.silent
            \/ t \in Ahead' /\ lock'[t] = h

(* A step of planner p, as every other planner sees it.                    *)
StepOf(p, h) ==
  /\ h \in {p, Engine(p)}
  /\ TablesOK'
  /\ scene' = scene
  /\ \A q \in Planners \ {p} :
       /\ fetch'[q] = fetch[q] /\ board'[q] = board[q]
       /\ call'[q] = call[q] /\ ask'[q] = ask[q]
       /\ q \in hist.lopsided => q \in hist'.lopsided
  /\ Grows(h)
  /\ \A t \in Types : \/ lock'[t] = lock[t]
                      \/ lock[t] \in {None, h} /\ lock'[t] \in {None, h}
  /\ \A q \in Planners : \A m :
       Found(m) /\ q # h /\ lock[OrderType[OrderOf(m)]] = q =>
         Found(m)' /\ OrderOf(m)' = OrderOf(m)

(* The data of a page that has not been refreshed.                         *)
LEMMA DataKept ==
  ASSUME IInv, NEW p \in Planners, NEW h, StepOf(p, h), NEW q \in Planners,
         board'[q].data = board[q].data
  PROVE  DataTracks(q)'
<1> USE DEF StepOf
<1>1. /\ hist.marks \in [Types -> Nat] /\ version \in [Types -> Nat]
      /\ hist'.marks \in [Types -> Nat] /\ version' \in [Types -> Nat]
  BY DEF IInv, TablesOK, Histories
<1>2. /\ Scope(q)' = Scope(q) /\ Scope(q) \subseteq Types
  BY PlanAssumption DEF Scope, Group, IInv, TablesOK, Scene
<1>3. /\ board[q].data.versions \in [Scope(q) -> Nat]
      /\ board[q].data.marks \in [Types -> Nat]
  BY DEF IInv, PageOK, BoardOK
<1>4. Tracks(Scope(q), board[q].data.versions, board[q].data.marks,
             board[q].data.torn \cup hist.silent, hist.marks, version, Ahead)
  BY DEF IInv, PageOK, DataTracks
<1>5. \A t \in Types :
        /\ hist.marks[t] <= hist'.marks[t] /\ version[t] <= version'[t]
        /\ version'[t] # version[t] => hist'.marks[t] # hist.marks[t]
        /\ version'[t] = version[t] =>
             \/ hist'.marks[t] = hist.marks[t] /\ (t \in Ahead => t \in Ahead')
             \/ t \in (board[q].data.torn \cup hist'.silent) \cup Ahead'
  BY DEF Grows
<1>6. board[q].data.torn \cup hist.silent \subseteq board[q].data.torn \cup hist'.silent
  BY DEF Grows
<1>7. Tracks(Scope(q), board[q].data.versions, board[q].data.marks,
             board[q].data.torn \cup hist'.silent, hist'.marks, version', Ahead')
  <2> HIDE DEF StepOf
  <2> QED
    BY <1>1, <1>2, <1>3, <1>4, <1>5, <1>6, TracksKept
<1> QED
  BY <1>2, <1>7 DEF DataTracks, Tracks

(* What a page counts on, if the step is not a call of its own.            *)
LEMMA EditKept ==
  ASSUME IInv, NEW p \in Planners, NEW h, StepOf(p, h), NEW q \in Planners,
         q # h, call'[q] = call[q],
         board'[q].edit => board[q].edit /\ board'[q].ref = board[q].ref
                           /\ board'[q].base = board[q].base
                           /\ board'[q].torn = board[q].torn,
         q \in hist.lopsided => q \in hist'.lopsided
  PROVE  EditTracks(q)'
<1> SUFFICES ASSUME board'[q].edit, q \notin hist'.lopsided
             PROVE  EditTracks(q)'
  BY DEF EditTracks
<1> USE DEF StepOf
<1>1. /\ hist.marks \in [Types -> Nat] /\ version \in [Types -> Nat]
      /\ hist'.marks \in [Types -> Nat] /\ version' \in [Types -> Nat]
  BY DEF IInv, TablesOK, Histories
<1>2. /\ Scope(q)' = Scope(q) /\ Scope(q) \subseteq Types
  BY PlanAssumption DEF Scope, Group, IInv, TablesOK, Scene
<1>3. Ver(q)' = Ver(q) /\ Saves(q)' = Saves(q)
  BY DEF Ver, Saves
<1>4. board[q].base \in [Types -> Nat]
  BY DEF IInv, PageOK, BoardOK
<1>5. /\ Ver(q) \in [Scope(q) -> Nat]
      /\ Tracks(Scope(q), Ver(q), board[q].base, board[q].torn \cup hist.silent,
                hist.marks, version, AheadBut(q))
      /\ Saves(q) /\ ~call[q].sent => call[q].live = board[q].ref
  BY DEF IInv, PageOK, EditTracks
<1>6. \A t \in Types :
        /\ hist.marks[t] <= hist'.marks[t] /\ version[t] <= version'[t]
        /\ version'[t] # version[t] => hist'.marks[t] # hist.marks[t]
        /\ version'[t] = version[t] =>
             \/ /\ hist'.marks[t] = hist.marks[t]
                /\ t \in AheadBut(q) => t \in AheadBut(q)'
             \/ t \in (board[q].torn \cup hist'.silent) \cup AheadBut(q)'
  BY DEF Grows, AheadBut
<1>7. board[q].torn \cup hist.silent \subseteq board[q].torn \cup hist'.silent
  BY DEF Grows
<1>8. Tracks(Scope(q), Ver(q), board[q].base, board[q].torn \cup hist'.silent,
             hist'.marks, version', AheadBut(q)')
  <2> HIDE DEF StepOf
  <2> QED
    BY <1>1, <1>2, <1>4, <1>5, <1>6, <1>7, TracksKept
<1> QED
  BY <1>2, <1>3, <1>5, <1>8 DEF EditTracks, Tracks
(* The call in progress of a page that the step is not of.                 *)
LEMMA CallKept ==
  ASSUME IInv, NEW p \in Planners, NEW h, StepOf(p, h), NEW q \in Planners,
         q # h, call'[q] = call[q]
  PROVE  /\ CallOK(q)' /\ MovesHeld(q)'
         /\ \A t \in Types : lock'[t] = q =>
              call'[q].at \in {"read", "gone", "write", "bump"}
<1>1. Scope(q)' = Scope(q) /\ Saves(q)' = Saves(q) /\ Moves(q)' = Moves(q)
  BY DEF StepOf, Scope, Group, Saves, Moves
<1>2. CallOK(q)'
  BY <1>1 DEF CallOK, IInv, PageOK
<1>3. q # None
  BY Names
<1>4. \A t \in Types : lock'[t] = q => lock[t] = q
  BY <1>3 DEF StepOf
<1>5. \A t \in Types : lock[t] = q => lock'[t] = q
  BY <1>3 DEF StepOf
<1>6. \A t \in Types : lock'[t] = q =>
              call'[q].at \in {"read", "gone", "write", "bump"}
  BY <1>4 DEF IInv, Owned
<1>7. MovesHeld(q)'
  <2> SUFFICES ASSUME call[q].at \in {"read", "write"}, NEW m \in Moves(q)
               PROVE  Found(m)' /\ lock'[OrderType[OrderOf(m)']] = q
    BY <1>1 DEF MovesHeld
  <2>1. Found(m) /\ lock[OrderType[OrderOf(m)]] = q
    BY DEF IInv, PageOK, MovesHeld
  <2>2. Found(m)' /\ OrderOf(m)' = OrderOf(m)
    BY <2>1 DEF StepOf
  <2>3. OrderType[OrderOf(m)] \in Types
    BY <2>1, PlanAssumption DEF Found
  <2> QED
    BY <1>5, <2>1, <2>2, <2>3
<1> QED
  BY <1>2, <1>6, <1>7

(* What a page has asked of the engine, and what it is being sent.         *)
LEMMA AskKept ==
  ASSUME IInv, NEW p \in Planners, NEW h, StepOf(p, h), NEW q \in Planners,
         Engine(q) # h, ask'[q] = ask[q]
  PROVE  AskOK(q)'
<1>1. \A t \in Types : lock[t] = Engine(q) => lock'[t] = Engine(q)
  BY Names DEF StepOf
<1>2. hist.silent \subseteq hist'.silent
  BY DEF StepOf, Grows
<1>3. PreviewOK(q)'
  BY DEF IInv, PageOK, AskOK, PreviewOK, PlanFits
<1>4. ActOK(q) /\ DOMAIN ask[q] = {"preview", "act"}
  BY DEF IInv, PageOK, AskOK
<1>5. ActOK(q)'
  <2> DEFINE r == ask[q].act
  <2>1. CASE r = NoAct
    BY <2>1 DEF ActOK
  <2>2. CASE /\ r.op = "apply" /\ r.at \in {"read", "lock", "commit"}
             /\ r = [op |-> "apply", at |-> r.at, shown |-> r.shown]
             /\ PlanFits(r.shown.kept.plan)
             /\ r.at = "commit" => lock[TypeAsked(r)] = Engine(q)
    <3>1. TypeAsked(r) \in Types
      BY <2>2 DEF TypeAsked, PlanFits
    <3> QED
      BY <1>1, <2>2, <3>1 DEF ActOK, PlanFits, TypeAsked
  <2>3. CASE /\ r.op = "run" /\ r.at \in {"lock", "commit"}
             /\ r = [op |-> "run", at |-> r.at, type |-> r.type, policy |-> r.policy]
             /\ r.type \in Types
             /\ r.at = "commit" => lock[TypeAsked(r)] = Engine(q)
    <3>1. TypeAsked(r) \in Types
      BY <2>3 DEF TypeAsked
    <3> QED
      BY <1>1, <2>3, <3>1 DEF ActOK, TypeAsked
  <2>4. CASE /\ r.at = "bump" /\ r.op \in {"apply", "run"}
             /\ r = [op |-> r.op, at |-> "bump", type |-> r.type,
                     counted |-> r.counted, changed |-> r.changed, kept |-> r.kept]
             /\ r.type \in Types /\ lock[r.type] = Engine(q)
             /\ (r.counted <=> r.op = "apply" \/ r.changed) /\ r.changed \in BOOLEAN
             /\ r.counted \/ r.type \in hist.silent
    <3>1. lock'[r.type] = Engine(q)
      BY <1>1, <2>4
    <3>2. r.counted \/ r.type \in hist'.silent
      BY <1>2, <2>4
    <3> QED
      BY <2>4, <3>1, <3>2 DEF ActOK
  <2> QED
    BY <1>4, <2>1, <2>2, <2>3, <2>4 DEF ActOK
<1> QED
  BY <1>3, <1>4, <1>5 DEF AskOK

LEMMA FetchKept ==
  ASSUME IInv, NEW p \in Planners, NEW h, StepOf(p, h), NEW q \in Planners,
         fetch'[q] = fetch[q]
  PROVE  FetchOK(q)'
<1> SUFFICES ASSUME fetch[q] # None
             PROVE  /\ fetch[q].marks \in [Types -> Nat]
                    /\ \A t \in Types : fetch[q].marks[t] <= hist'.marks[t]
  BY DEF FetchOK
<1>1. /\ fetch[q].marks \in [Types -> Nat]
      /\ \A t \in Types : fetch[q].marks[t] <= hist.marks[t]
  BY DEF IInv, PageOK, FetchOK
<1>2. hist.marks \in [Types -> Nat] /\ hist'.marks \in [Types -> Nat]
  BY DEF IInv, TablesOK, StepOf, Histories
<1>3. \A t \in Types : hist.marks[t] <= hist'.marks[t]
  BY DEF StepOf, Grows
<1> QED
  BY <1>1, <1>2, <1>3, SMT

(* The pages of the others.                                                *)
LEMMA OthersKept ==
  ASSUME IInv, NEW p \in Planners, NEW h, StepOf(p, h), NEW q \in Planners, q # p
  PROVE  /\ PageOK(q)'
         /\ \A t \in Types : lock'[t] = q =>
              call'[q].at \in {"read", "gone", "write", "bump"}
<1>1. /\ fetch'[q] = fetch[q] /\ board'[q] = board[q]
      /\ call'[q] = call[q] /\ ask'[q] = ask[q]
      /\ q \in hist.lopsided => q \in hist'.lopsided
  BY DEF StepOf
<1>2. q # h /\ Engine(q) # h
  BY Names DEF StepOf
<1>3. /\ CallOK(q)' /\ MovesHeld(q)'
      /\ \A t \in Types : lock'[t] = q =>
           call'[q].at \in {"read", "gone", "write", "bump"}
  BY <1>1, <1>2, CallKept
<1>4. AskOK(q)' /\ FetchOK(q)'
  BY <1>1, <1>2, AskKept, FetchKept
<1>5. DataTracks(q)' /\ EditTracks(q)'
  BY <1>1, <1>2, DataKept, EditKept
<1>6. Scope(q)' = Scope(q) /\ Saves(q)' = Saves(q)
  BY <1>1 DEF StepOf, Scope, Group, Saves
<1>7. BoardOK(q)'
  BY <1>1, <1>6 DEF IInv, PageOK, BoardOK, PlanFits
<1> QED
  BY <1>3, <1>4, <1>5, <1>7 DEF PageOK

LEMMA StepKeeps ==
  ASSUME IInv, NEW p \in Planners, NEW h, StepOf(p, h), PageOK(p)',
         \A t \in Types : lock'[t] = p =>
           call'[p].at \in {"read", "gone", "write", "bump"}
  PROVE  IInv'
<1>1. TablesOK'
  BY DEF StepOf
<1>2. \A q \in Planners : PageOK(q)'
  BY OthersKept
<1>3. Owned'
  BY OthersKept DEF Owned
<1> QED
  BY <1>1, <1>2, <1>3 DEF IInv

-------------------------------------------------------------------------------
(* A step that writes nothing and moves no version and no lock.            *)
Calm(p) ==
  /\ TablesOK'
  /\ scene' = scene /\ rows' = rows /\ version' = version /\ lock' = lock
  /\ hist'.marks = hist.marks /\ hist'.silent = hist.silent
  /\ \A q \in Planners \ {p} :
       /\ fetch'[q] = fetch[q] /\ board'[q] = board[q]
       /\ call'[q] = call[q] /\ ask'[q] = ask[q]
       /\ q \in hist.lopsided => q \in hist'.lopsided
  /\ call[p].at = "bump" => call'[p] = call[p]
  /\ ask[p].act.at = "bump" => ask'[p].act = ask[p].act

LEMMA CalmSteps ==
  ASSUME IInv, NEW p \in Planners, Calm(p)
  PROVE  StepOf(p, p) /\ StepOf(p, Engine(p))
<1> USE DEF Calm
<1>1. Ahead \subseteq Ahead'
  <2> SUFFICES ASSUME NEW t \in Types, t \in Ahead
               PROVE  t \in Ahead'
    BY DEF Ahead
  <2>1. CASE \E q \in Planners : lock[t] = q /\ call[q].at = "bump"
    <3>1. PICK q \in Planners : lock[t] = q /\ call[q].at = "bump"
      BY <2>1
    <3>2. call'[q] = call[q]
      BY <3>1
    <3>3. \E x \in Planners : lock'[t] = x /\ call'[x].at = "bump"
      BY <3>1, <3>2
    <3> QED
      BY <3>3 DEF Ahead
  <2>2. CASE \E q \in Planners :
               /\ lock[t] = Engine(q) /\ ask[q].act.at = "bump"
               /\ ask[q].act.type = t /\ ask[q].act.counted
    <3>1. PICK q \in Planners :
               /\ lock[t] = Engine(q) /\ ask[q].act.at = "bump"
               /\ ask[q].act.type = t /\ ask[q].act.counted
      BY <2>2
    <3>2. ask'[q].act = ask[q].act
      BY <3>1
    <3>3. \E x \in Planners :
               /\ lock'[t] = Engine(x) /\ ask'[x].act.at = "bump"
               /\ ask'[x].act.type = t /\ ask'[x].act.counted
      BY <3>1, <3>2
    <3> QED
      BY <3>3 DEF Ahead, Engine
  <2> QED
    BY <2>1, <2>2 DEF Ahead
<1>2. /\ \A t \in Types : hist.marks[t] <= hist'.marks[t]
      /\ \A t \in Types : version[t] <= version'[t]
  <2>1. hist.marks \in [Types -> Nat] /\ version \in [Types -> Nat]
    BY DEF IInv, TablesOK, Histories
  <2> QED
    BY <2>1, SMT
<1>3. \A h : Grows(h)
  BY <1>1, <1>2 DEF Grows
<1>4. \A m : Found(m)' = Found(m) /\ OrderOf(m)' = OrderOf(m)
  BY DEF Found, OrderOf
<1> QED
  BY <1>3, <1>4 DEF StepOf
-------------------------------------------------------------------------------
LEMMA Starts == Init => IInv
<1> SUFFICES ASSUME Init
             PROVE  IInv
  OBVIOUS
<1> USE DEF Init
<1>1. /\ scene \in DOMAIN Scenes
      /\ \A p \in Planners : Group(p) \in Types \cup {None}
      /\ \A p \in Planners : Scope(p) \subseteq Types
  BY PlanAssumption DEF Scene, Group, Scope
<1>2. TablesOK
  <2>1. "piece" \in DOMAIN rows
    BY <1>1, PlanAssumption
  <2>2. hist \in Histories
    BY DEF Histories
  <2>3. version \in [Types -> Nat] /\ lock \in [Types -> Holders \cup {None}]
    OBVIOUS
  <2> QED
    BY <2>1, <2>2, <2>3 DEF TablesOK
<1>3. Owned
  BY Names DEF Owned
<1>4. ASSUME NEW p \in Planners
      PROVE  PageOK(p)
  <2>1. /\ fetch[p] = None /\ call[p] = NoCall
        /\ ask[p] = [preview |-> None, act |-> NoAct]
        /\ ~Saves(p)
    BY DEF NoCall, Saves
  <2>2. board[p] =
       [data |-> [rows |-> rows, versions |-> [t \in Scope(p) |-> 0],
                  marks |-> [t \in Types |-> 0], torn |-> {}],
        tab |-> IF Group(p) = None THEN "A" ELSE Group(p),
        shown |-> None, edit |-> FALSE, ref |-> None, status |-> "idle",
        base |-> [t \in Types |-> 0], torn |-> {}, edits |-> NoEdits]
    OBVIOUS
  <2>3. BoardOK(p)
    BY <1>1, <2>1, <2>2, PlanAssumption DEF BoardOK, BoardShape
  <2>4. CallOK(p) /\ FetchOK(p) /\ MovesHeld(p)
    BY <2>1 DEF CallOK, FetchOK, MovesHeld, NoCall
  <2>5. AskOK(p)
    BY <2>1 DEF AskOK, PreviewOK, ActOK
  <2>6. DataTracks(p)
    BY <1>1, <2>2 DEF DataTracks, Tracks
  <2>7. EditTracks(p)
    BY <2>2 DEF EditTracks
  <2> QED
    BY <2>3, <2>4, <2>5, <2>6, <2>7 DEF PageOK
<1> QED
  BY <1>2, <1>3, <1>4 DEF IInv

-------------------------------------------------------------------------------
(* Steps that are seen on one page only: it keeps what it counts on.       *)
LEMMA PageSteps ==
  ASSUME IInv, NEW p \in Planners,
         UNCHANGED <<rows, room, version, lock, fetch, call, scene>>,
         DOMAIN board' = Planners, DOMAIN ask' = Planners,
         \A q \in Planners \ {p} : board'[q] = board[q] /\ ask'[q] = ask[q],
         hist' \in Histories,
         hist'.marks = hist.marks, hist'.silent = hist.silent,
         \A q \in Planners : q # p /\ q \in hist.lopsided => q \in hist'.lopsided,
         ask[p].act.at = "bump" => ask'[p].act = ask[p].act
  PROVE  /\ StepOf(p, p) /\ StepOf(p, Engine(p))
         /\ Scope(p)' = Scope(p) /\ Saves(p)' = Saves(p)
         /\ CallOK(p)' /\ FetchOK(p)' /\ MovesHeld(p)'
         /\ BoardOK(p)' /\ AskOK(p)' /\ DataTracks(p)' /\ EditTracks(p)' => IInv'
<1>1. TablesOK'
  BY DEF IInv, TablesOK
<1>2. Calm(p)
  BY <1>1 DEF Calm
<1>3. StepOf(p, p) /\ StepOf(p, Engine(p))
  BY <1>2, CalmSteps
<1>4. p # Engine(p)
  BY Names
<1>5. /\ CallOK(p)' /\ MovesHeld(p)'
      /\ \A t \in Types : lock'[t] = p =>
           call'[p].at \in {"read", "gone", "write", "bump"}
  BY <1>3, <1>4, CallKept
<1>6. FetchOK(p)'
  BY <1>3, FetchKept
<1>7. Scope(p)' = Scope(p) /\ Saves(p)' = Saves(p)
  BY DEF Scope, Group, Saves
<1>8. ASSUME BoardOK(p)', AskOK(p)', DataTracks(p)', EditTracks(p)'
      PROVE  IInv'
  <2>1. PageOK(p)'
    BY <1>5, <1>6, <1>8 DEF PageOK
  <2> QED
    BY <1>3, <1>5, <2>1, StepKeeps
<1> QED
  BY <1>3, <1>5, <1>6, <1>7, <1>8

(* What the page is counting on stays as it was, or it is forgotten.       *)
LEMMA BoardSteps ==
  ASSUME IInv, NEW p \in Planners,
         UNCHANGED <<rows, room, version, lock, fetch, call, scene, ask>>,
         NEW b, board' = [board EXCEPT ![p] = b],
         BoardShape(b), b.data = board[p].data, b.tab \in Types,
         b.shown # None => b.shown = board[p].shown,
         b.edit => board[p].edit /\ b.ref = board[p].ref
                   /\ b.base = board[p].base /\ b.torn = board[p].torn,
         b.base \in [Types -> Nat], b.edit \in BOOLEAN,
         Saves(p) => b.edit,
         hist' \in Histories,
         hist'.marks = hist.marks, hist'.silent = hist.silent,
         hist'.lopsided = hist.lopsided
  PROVE  IInv'
<1>1. DOMAIN board = Planners /\ DOMAIN ask = Planners
  BY DEF IInv, TablesOK
<1>2. board'[p] = b /\ \A q \in Planners \ {p} : board'[q] = board[q]
  BY <1>1
<1>3. /\ StepOf(p, p) /\ StepOf(p, Engine(p))
      /\ Scope(p)' = Scope(p) /\ Saves(p)' = Saves(p)
      /\ BoardOK(p)' /\ AskOK(p)' /\ DataTracks(p)' /\ EditTracks(p)' => IInv'
  BY <1>1, <1>2, PageSteps
<1>4. p # Engine(p)
  BY Names
<1>5. BoardOK(p)'
  BY <1>2, <1>3 DEF BoardOK, IInv, PageOK, PlanFits
<1>6. AskOK(p)'
  BY <1>3, <1>4, AskKept
<1>7. DataTracks(p)'
  BY <1>2, <1>3, DataKept
<1>8. EditTracks(p)'
  BY <1>2, <1>3, <1>4, EditKept
<1> QED
  BY <1>3, <1>5, <1>6, <1>7, <1>8
LEMMA DiscardingKeeps ==
  ASSUME IInv, NEW p \in Planners, DiscardEdits(p), UNCHANGED desk
  PROVE  IInv'
<1> DEFINE b == Left(board[p], "idle")
<1>1. board' = [board EXCEPT ![p] = b] /\ ~Saves(p)
  BY DEF DiscardEdits, IInv, TablesOK
<1>2. BoardOK(p) /\ hist \in Histories
  BY DEF IInv, PageOK, TablesOK
<1>3. /\ BoardShape(b) /\ b.data = board[p].data /\ b.tab = board[p].tab
      /\ b.shown = board[p].shown /\ b.edit = FALSE /\ b.base = board[p].base
  <2>1. BoardShape(board[p])
    BY <1>2 DEF BoardOK
  <2>2. b = [board[p] EXCEPT !.edit = FALSE, !.ref = None, !.status = "idle",
                             !.edits = NoEdits]
    BY DEF Left
  <2> HIDE DEF b
  <2> QED
    BY <2>1, <2>2 DEF BoardShape
<1>4. board[p].tab \in Types /\ board[p].base \in [Types -> Nat]
  BY <1>2 DEF BoardOK
<1> HIDE DEF b
<1> QED
  BY <1>1, <1>2, <1>3, <1>4, BoardSteps DEF DiscardEdits, desk

LEMMA EditingKeeps ==
  ASSUME IInv, NEW p \in Planners, NEW op, NEW edits, Edited(p, op, edits),
         UNCHANGED desk
  PROVE  IInv'
<1> DEFINE b == [board[p] EXCEPT !.edits = edits]
<1>1. board' = [board EXCEPT ![p] = b] /\ ~Saves(p)
  BY DEF Edited, IInv, TablesOK
<1>2. BoardOK(p) /\ hist \in Histories
  BY DEF IInv, PageOK, TablesOK
<1>3. /\ BoardShape(b) /\ b.data = board[p].data /\ b.tab = board[p].tab
      /\ b.shown = board[p].shown /\ b.edit = board[p].edit
      /\ b.base = board[p].base /\ b.ref = board[p].ref /\ b.torn = board[p].torn
  BY <1>2 DEF BoardOK, BoardShape
<1>4. /\ board[p].tab \in Types /\ board[p].base \in [Types -> Nat]
      /\ board[p].edit \in BOOLEAN
  BY <1>2 DEF BoardOK
<1>5. /\ hist' \in Histories /\ hist'.marks = hist.marks
      /\ hist'.silent = hist.silent /\ hist'.lopsided = hist.lopsided
  BY <1>2 DEF Edited, Histories
<1> HIDE DEF b
<1> QED
  BY <1>1, <1>3, <1>4, <1>5, BoardSteps DEF Edited, desk

LEMMA SwitchingKeeps ==
  ASSUME IInv, NEW p \in Planners,
         DiscardPreview(p) \/ \E t \in Types : SwitchTab(p, t)
  PROVE  IInv'
<1>1. PICK t \in Types \cup {board[p].tab} :
        board' = [board EXCEPT ![p] = AfterSwitch(board[p], t)]
  <2>1. BoardShape(board[p])
    BY DEF IInv, PageOK, BoardOK
  <2>2. CASE DiscardPreview(p)
    <3>1. board' = [board EXCEPT ![p] = [board[p] EXCEPT !.shown = None]]
      BY <2>2 DEF DiscardPreview
    <3>2. AfterSwitch(board[p], board[p].tab) = [board[p] EXCEPT !.shown = None]
      BY <2>1 DEF AfterSwitch, BoardShape
    <3> QED
      BY <3>1, <3>2
  <2>3. CASE \E t \in Types : SwitchTab(p, t)
    BY <2>3 DEF SwitchTab
  <2> QED
    BY <2>2, <2>3
<1> DEFINE b == AfterSwitch(board[p], t)
<1>2. BoardOK(p) /\ hist \in Histories
  BY DEF IInv, PageOK, TablesOK
<1>3. /\ BoardShape(b) /\ b.data = board[p].data /\ b.tab = t
      /\ b.shown = None /\ b.edit = board[p].edit
      /\ b.base = board[p].base /\ b.ref = board[p].ref /\ b.torn = board[p].torn
  <2>1. BoardShape(board[p])
    BY <1>2 DEF BoardOK
  <2>2. b = [board[p] EXCEPT !.tab = t, !.shown = None]
    BY DEF AfterSwitch
  <2> HIDE DEF b
  <2> QED
    BY <2>1, <2>2 DEF BoardShape
<1>4. /\ board[p].tab \in Types /\ board[p].base \in [Types -> Nat]
      /\ board[p].edit \in BOOLEAN
      /\ Saves(p) => board[p].edit
  BY <1>2 DEF BoardOK
<1>5. UNCHANGED <<rows, room, version, lock, fetch, call, scene, hist, ask>>
  BY DEF DiscardPreview, SwitchTab, desk
<1> HIDE DEF b
<1> QED
  BY <1>1, <1>2, <1>3, <1>4, <1>5, BoardSteps DEF b

LEMMA EnteringKeeps ==
  ASSUME IInv, NEW p \in Planners, EnterEdit(p), UNCHANGED desk
  PROVE  IInv'
<1>1. BoardOK(p) /\ hist \in Histories
  BY DEF IInv, PageOK, TablesOK
<1>2. /\ DOMAIN board = Planners /\ DOMAIN ask = Planners
      /\ DOMAIN board' = Planners /\ DOMAIN ask' = Planners
      /\ \A q \in Planners \ {p} : board'[q] = board[q] /\ ask'[q] = ask[q]
      /\ ask' = ask
  BY DEF IInv, TablesOK, EnterEdit, desk
<1>3. /\ hist' \in Histories /\ hist'.marks = hist.marks
      /\ hist'.silent = hist.silent /\ hist'.lopsided = hist.lopsided \ {p}
  BY <1>1 DEF EnterEdit, Histories
<1>4. /\ StepOf(p, p) /\ StepOf(p, Engine(p))
      /\ Scope(p)' = Scope(p) /\ Saves(p)' = Saves(p)
      /\ BoardOK(p)' /\ AskOK(p)' /\ DataTracks(p)' /\ EditTracks(p)' => IInv'
  <2>1. UNCHANGED <<rows, room, version, lock, fetch, call, scene>>
    BY DEF EnterEdit
  <2>2. \A q \in Planners : q # p /\ q \in hist.lopsided => q \in hist'.lopsided
    BY <1>3
  <2> QED
    BY <1>2, <1>3, <2>1, <2>2, PageSteps
<1>5. board'[p] = [board[p] EXCEPT !.edit = TRUE, !.ref = board[p].data.versions,
                     !.status = "idle", !.base = board[p].data.marks,
                     !.torn = board[p].data.torn, !.edits = NoEdits]
  BY <1>2 DEF EnterEdit
<1>6. /\ BoardShape(board'[p]) /\ board'[p].data = board[p].data
      /\ board'[p].tab = board[p].tab /\ board'[p].shown = board[p].shown
      /\ board'[p].edit = TRUE /\ board'[p].ref = board[p].data.versions
      /\ board'[p].base = board[p].data.marks
      /\ board'[p].torn = board[p].data.torn
  BY <1>1, <1>5 DEF BoardOK, BoardShape
<1>7. BoardOK(p)'
  BY <1>1, <1>4, <1>6 DEF BoardOK, PlanFits
<1>8. AskOK(p)'
  BY <1>2, <1>4, Names, AskKept
<1>9. DataTracks(p)'
  BY <1>4, <1>6, DataKept
<1>10. EditTracks(p)'
  <2>1. ~Saves(p)' /\ Ver(p)' = board[p].data.versions
    BY <1>4, <1>6 DEF Ver, Saves, EnterEdit
  <2>2. AheadBut(p)' = Ahead'
    <3>1. \A t \in Types : lock[t] # p
      BY DEF EnterEdit, Saves, IInv, Owned
    <3> QED
      BY <3>1 DEF EnterEdit, AheadBut, Ahead
  <2>3. board[p].data.versions \in [Scope(p) -> Nat]
    BY <1>1 DEF BoardOK
  <2> QED
    BY <1>4, <1>6, <1>9, <2>1, <2>2, <2>3 DEF EditTracks, DataTracks, Tracks
<1> QED
  BY <1>4, <1>7, <1>8, <1>9, <1>10

LEMMA FetchingKeeps ==
  ASSUME IInv, NEW p \in Planners, FetchRows(p) \/ FetchVersions(p), UNCHANGED desk
  PROVE  IInv'
<1>1. BoardOK(p) /\ FetchOK(p) /\ hist \in Histories /\ version \in [Types -> Nat]
  BY DEF IInv, PageOK, TablesOK
<1>2. /\ DOMAIN board = Planners /\ DOMAIN ask = Planners
      /\ DOMAIN fetch = Planners /\ DOMAIN call = Planners
  BY DEF IInv, TablesOK
<1>3. /\ UNCHANGED <<rows, room, version, lock, call, scene, ask>>
      /\ DOMAIN board' = Planners /\ DOMAIN fetch' = Planners
      /\ \A q \in Planners \ {p} : board'[q] = board[q] /\ fetch'[q] = fetch[q]
  BY <1>2 DEF FetchRows, FetchVersions, desk
<1>4. /\ hist' \in Histories /\ hist'.marks = hist.marks
      /\ hist'.silent = hist.silent /\ hist'.lopsided = hist.lopsided
  BY <1>1 DEF FetchRows, FetchVersions, Histories
<1>5. TablesOK'
  BY <1>3, <1>4 DEF IInv, TablesOK
<1>6. Calm(p)
  BY <1>3, <1>4, <1>5 DEF Calm
<1>7. StepOf(p, p) /\ StepOf(p, Engine(p)) /\ p # Engine(p)
  BY <1>6, CalmSteps, Names
<1>8. /\ CallOK(p)' /\ MovesHeld(p)' /\ AskOK(p)'
      /\ \A t \in Types : lock'[t] = p =>
           call'[p].at \in {"read", "gone", "write", "bump"}
  BY <1>3, <1>7, CallKept, AskKept
<1>9. Scope(p)' = Scope(p) /\ Saves(p)' = Saves(p) /\ Scope(p) \subseteq Types
  BY <1>3, PlanAssumption DEF Scope, Group, Saves, IInv, TablesOK, Scene
<1>10. CASE FetchRows(p)
  <2>1. board' = board /\ fetch'[p] = [rows |-> rows, marks |-> hist.marks]
    BY <1>2, <1>10 DEF FetchRows
  <2>2. FetchOK(p)'
    <3>1. hist.marks \in [Types -> Nat]
      BY <1>1 DEF Histories
    <3> QED
      BY <1>4, <2>1, <3>1 DEF FetchOK
  <2>3. BoardOK(p)'
    BY <1>1, <1>9, <2>1 DEF BoardOK, PlanFits
  <2>4. DataTracks(p)' /\ EditTracks(p)'
    BY <1>3, <1>4, <1>7, <2>1, DataKept, EditKept
  <2> QED
    BY <1>7, <1>8, <2>2, <2>3, <2>4, StepKeeps DEF PageOK
<1>11. CASE FetchVersions(p)
  <2> DEFINE d == [rows |-> fetch[p].rows,
                   versions |-> [t \in Scope(p) |-> version[t]],
                   marks |-> fetch[p].marks,
                   torn |-> {t \in Types : hist.marks[t] # fetch[p].marks[t]}]
  <2>1. /\ fetch[p] # None /\ fetch'[p] = None
        /\ board'[p] = [board[p] EXCEPT !.data = d] /\ hist' = hist
    BY <1>2, <1>11 DEF FetchVersions
  <2>2. /\ BoardShape(board'[p]) /\ board'[p].data = d
        /\ board'[p].tab = board[p].tab /\ board'[p].shown = board[p].shown
        /\ board'[p].edit = board[p].edit /\ board'[p].ref = board[p].ref
        /\ board'[p].base = board[p].base /\ board'[p].torn = board[p].torn
    BY <1>1, <2>1 DEF BoardOK, BoardShape
  <2>3. FetchOK(p)'
    BY <2>1 DEF FetchOK
  <2>4. /\ fetch[p].marks \in [Types -> Nat]
        /\ \A t \in Types : fetch[p].marks[t] <= hist.marks[t]
    BY <1>1, <2>1 DEF FetchOK
  <2>5. BoardOK(p)'
    BY <1>1, <1>9, <2>2, <2>4 DEF BoardOK, PlanFits
  <2>6. DataTracks(p)'
    BY <1>1, <1>3, <1>9, <2>1, <2>2, <2>4 DEF DataTracks, Tracks, Histories
  <2>7. EditTracks(p)'
    BY <1>3, <1>4, <1>7, <2>2, EditKept
  <2> QED
    BY <1>7, <1>8, <2>3, <2>5, <2>6, <2>7, StepKeeps DEF PageOK
<1> QED
  BY <1>10, <1>11
-------------------------------------------------------------------------------
(* What a page asks of the engine, and is answered, changes only what it   *)
(* shows.                                                                  *)
LEMMA DeskSteps ==
  ASSUME IInv, NEW p \in Planners,
         UNCHANGED <<rows, room, version, lock, fetch, call, scene>>,
         hist' = hist \/ hist' = [hist EXCEPT !.asks[p] = @ + 1],
         NEW shown, shown # None => PlanFits(shown.kept.plan),
         \/ board' = [board EXCEPT ![p].shown = shown]
         \/ board' = board /\ shown = board[p].shown,
         NEW r, ask' = [ask EXCEPT ![p] = r],
         ask[p].act.at = "bump" => r.act = ask[p].act,
         DOMAIN r = {"preview", "act"}, PreviewOK(p)', ActOK(p)'
  PROVE  IInv'
<1>1. BoardOK(p) /\ hist \in Histories
  BY DEF IInv, PageOK, TablesOK
<1>2. DOMAIN board = Planners /\ DOMAIN ask = Planners
  BY DEF IInv, TablesOK
<1>3. /\ DOMAIN board' = Planners /\ DOMAIN ask' = Planners /\ ask'[p] = r
      /\ \A q \in Planners \ {p} : board'[q] = board[q] /\ ask'[q] = ask[q]
      /\ board'[p] = [board[p] EXCEPT !.shown = shown]
  BY <1>1, <1>2 DEF BoardOK, BoardShape
<1>4. /\ hist' \in Histories /\ hist'.marks = hist.marks
      /\ hist'.silent = hist.silent /\ hist'.lopsided = hist.lopsided
  BY <1>1 DEF Histories
<1>5. /\ BoardShape(board'[p]) /\ board'[p].data = board[p].data
      /\ board'[p].tab = board[p].tab /\ board'[p].shown = shown
      /\ board'[p].edit = board[p].edit /\ board'[p].ref = board[p].ref
      /\ board'[p].base = board[p].base /\ board'[p].torn = board[p].torn
  BY <1>1, <1>3 DEF BoardOK, BoardShape
<1>6. /\ StepOf(p, p) /\ StepOf(p, Engine(p)) /\ p # Engine(p)
      /\ Scope(p)' = Scope(p) /\ Saves(p)' = Saves(p)
      /\ BoardOK(p)' /\ AskOK(p)' /\ DataTracks(p)' /\ EditTracks(p)' => IInv'
  BY <1>3, <1>4, Names, PageSteps
<1>7. BoardOK(p)'
  BY <1>1, <1>5, <1>6 DEF BoardOK, PlanFits
<1>8. AskOK(p)'
  BY <1>3 DEF AskOK
<1>9. DataTracks(p)' /\ EditTracks(p)'
  BY <1>4, <1>5, <1>6, DataKept, EditKept
<1> QED
  BY <1>6, <1>7, <1>8, <1>9

(* The plans that are made are about the orders of their type.             *)
LEMMA PlannedFits ==
  ASSUME NEW p, NEW t \in Types, NEW policy, NEW wanted
  PROVE  LET plan == Planned(p, t, Prepared(t, policy, wanted)) IN
         PlanFits(plan) /\ plan.type = t
<1> DEFINE in == Prepared(t, policy, wanted)
           plan == Planned(p, t, in)
<1>1. \A o \in DOMAIN in.rows : OrderType[o] = t
  BY DEF Prepared
<1> HIDE DEF in
<1>2. plan.type = t /\ plan.in = in
  BY DEF Planned
<1> QED
  BY <1>1, <1>2 DEF PlanFits, in

LEMMA ActSame ==
  ASSUME IInv, NEW p \in Planners, lock' = lock, hist'.silent = hist.silent,
         ask'[p].act = ask[p].act
  PROVE  ActOK(p)'
<1>1. ActOK(p)
  BY DEF IInv, PageOK, AskOK
<1> QED
  BY <1>1 DEF ActOK, TypeAsked, PlanFits, Engine

LEMMA PreviewSame ==
  ASSUME IInv, NEW p \in Planners, ask'[p].preview = ask[p].preview
  PROVE  PreviewOK(p)'
BY DEF PreviewOK, PlanFits, IInv, PageOK, AskOK

LEMMA AskShape ==
  ASSUME IInv, NEW p \in Planners
  PROVE  /\ DOMAIN ask = Planners /\ DOMAIN ask[p] = {"preview", "act"}
         /\ DOMAIN board = Planners /\ BoardShape(board[p])
         /\ board[p].shown # None => PlanFits(board[p].shown.kept.plan)
         /\ \A x : [ask[p] EXCEPT !.preview = x] = [preview |-> x, act |-> ask[p].act]
         /\ \A x : [ask[p] EXCEPT !.act = x] = [preview |-> ask[p].preview, act |-> x]
<1>1. /\ DOMAIN ask = Planners /\ DOMAIN ask[p] = {"preview", "act"}
      /\ DOMAIN board = Planners /\ BoardShape(board[p])
      /\ board[p].shown # None => PlanFits(board[p].shown.kept.plan)
  BY DEF IInv, TablesOK, PageOK, AskOK, BoardOK
<1> QED
  BY <1>1

(* A preview: asked for, read, stored and shown.                           *)
LEMMA PreviewingKeeps ==
  ASSUME IInv, NEW p \in Planners,
         \/ \E policy \in Scenes[scene].policies, selected \in BOOLEAN :
              PreviewAsk(p, policy, selected)
         \/ PreviewRead(p) \/ PreviewStore(p) \/ PreviewAnswer(p)
  PROVE  IInv'
<1> DEFINE r == ask[p].preview
<1>1. /\ DOMAIN ask = Planners /\ DOMAIN ask[p] = {"preview", "act"}
      /\ board[p].shown # None => PlanFits(board[p].shown.kept.plan)
      /\ \A x : [ask[p] EXCEPT !.preview = x] = [preview |-> x, act |-> ask[p].act]
  BY AskShape
<1>2. PreviewOK(p) /\ BoardOK(p) /\ hist \in Histories
  BY DEF IInv, PageOK, AskOK, TablesOK
<1>3. SUFFICES ASSUME NEW x, NEW shown,
                 ask' = [ask EXCEPT ![p].preview = x],
                 \/ board' = [board EXCEPT ![p].shown = shown]
                 \/ board' = board /\ shown = board[p].shown,
                 shown # None => PlanFits(shown.kept.plan),
                 hist' = hist \/ hist' = [hist EXCEPT !.asks[p] = @ + 1],
                 UNCHANGED <<rows, room, version, lock, fetch, call, scene>>,
                 x # None =>
                   /\ x.at = "read" => x.type \in Types
                   /\ x.at = "version" => PlanFits(x.plan)
                   /\ x.at = "answer" => PlanFits(x.kept.plan)
               PROVE  IInv'
  <2>1. CASE \E policy \in Scenes[scene].policies, selected \in BOOLEAN :
               PreviewAsk(p, policy, selected)
    <3>1. PICK policy \in Scenes[scene].policies, selected \in BOOLEAN :
            PreviewAsk(p, policy, selected)
      BY <2>1
    <3> DEFINE x == [at |-> "read", type |-> board[p].tab, policy |-> policy,
                     wanted |-> IF selected
                       THEN {o \in Waiting(p) : OrderType[o] = board[p].tab}
                       ELSE {},
                     base |-> board[p].data]
    <3>2. x.at = "read" /\ x.type \in Types
      BY <1>2 DEF BoardOK
    <3>3. /\ ask' = [ask EXCEPT ![p].preview = x] /\ board' = board
          /\ hist' = [hist EXCEPT !.asks[p] = @ + 1]
          /\ UNCHANGED <<rows, room, version, lock, fetch, call, scene>>
      BY <3>1 DEF PreviewAsk
    <3> HIDE DEF x
    <3> QED
      BY <1>1, <1>3, <3>2, <3>3
  <2>2. CASE PreviewRead(p)
    <3> DEFINE plan == Planned(p, r.type, Prepared(r.type, r.policy, r.wanted))
               x == [at |-> "version", base |-> r.base, plan |-> plan]
    <3>1. r.type \in Types
      BY <1>2, <2>2 DEF PreviewOK, PreviewRead
    <3>2. PlanFits(plan)
      BY <3>1, PlannedFits
    <3>3. /\ ask' = [ask EXCEPT ![p].preview = x] /\ board' = board /\ hist' = hist
          /\ UNCHANGED <<rows, room, version, lock, fetch, call, scene>>
      BY <2>2 DEF PreviewRead, vars
    <3> HIDE DEF plan
    <3>4. x.at = "version" /\ x.plan = plan
      OBVIOUS
    <3> HIDE DEF x
    <3> QED
      BY <1>1, <1>3, <3>2, <3>3, <3>4
  <2>3. CASE PreviewStore(p)
    <3> DEFINE kept == [version |-> version[r.plan.type], plan |-> r.plan,
                        torn |-> hist.marks[r.plan.type]
                                   # r.plan.marks[r.plan.type]]
               x == [at |-> "answer", base |-> r.base, kept |-> kept]
    <3>1. PlanFits(r.plan)
      BY <1>2, <2>3 DEF PreviewOK, PreviewStore
    <3>2. x.at = "answer" /\ x.kept.plan = r.plan
      OBVIOUS
    <3>3. /\ ask' = [ask EXCEPT ![p].preview = x] /\ board' = board /\ hist' = hist
          /\ UNCHANGED <<rows, room, version, lock, fetch, call, scene>>
      BY <2>3 DEF PreviewStore, vars
    <3> HIDE DEF x
    <3> QED
      BY <1>1, <1>3, <3>1, <3>2, <3>3
  <2>4. CASE PreviewAnswer(p)
    <3> DEFINE shown == Preview(p, r.base, r.kept)
    <3>1. PlanFits(r.kept.plan)
      BY <1>2, <2>4 DEF PreviewOK, PreviewAnswer
    <3>2. shown.kept = r.kept
      BY DEF Preview
    <3>3. /\ ask' = [ask EXCEPT ![p].preview = None]
          /\ board' = [board EXCEPT ![p].shown = shown] /\ hist' = hist
          /\ UNCHANGED <<rows, room, version, lock, fetch, call, scene>>
      BY <2>4 DEF PreviewAnswer
    <3> HIDE DEF shown
    <3> QED
      BY <1>3, <3>1, <3>2, <3>3
  <2> QED
    BY <2>1, <2>2, <2>3, <2>4
<1>4. ask' = [ask EXCEPT ![p] = [preview |-> x, act |-> ask[p].act]]
  BY <1>1, <1>3
<1>5. ask'[p] = [preview |-> x, act |-> ask[p].act]
  BY <1>1, <1>4
<1>6. PreviewOK(p)'
  BY <1>3, <1>5 DEF PreviewOK, PlanFits
<1>7. ActOK(p)'
  <2>1. hist'.silent = hist.silent
    BY <1>2, <1>3 DEF Histories
  <2> QED
    BY <1>3, <1>5, <2>1, ActSame
<1> QED
  BY <1>3, <1>4, <1>6, <1>7, DeskSteps
LEMMA AheadStays ==
  ASSUME NEW t \in Types, t \in Ahead, lock'[t] = lock[t],
         \A q \in Planners :
           /\ lock[t] = q /\ call[q].at = "bump" => call'[q] = call[q]
           /\ lock[t] = Engine(q) /\ ask[q].act.at = "bump" =>
                ask'[q].act = ask[q].act
  PROVE  t \in Ahead'
<1>1. CASE \E q \in Planners : lock[t] = q /\ call[q].at = "bump"
  <2>1. \E q \in Planners : lock'[t] = q /\ call'[q].at = "bump"
    BY <1>1
  <2> QED
    BY <2>1 DEF Ahead
<1>2. CASE \E q \in Planners :
             /\ lock[t] = Engine(q) /\ ask[q].act.at = "bump"
             /\ ask[q].act.type = t /\ ask[q].act.counted
  <2>1. \E q \in Planners :
          /\ lock'[t] = Engine(q) /\ ask'[q].act.at = "bump"
          /\ ask'[q].act.type = t /\ ask'[q].act.counted
    BY <1>2
  <2> QED
    BY <2>1 DEF Ahead, Engine
<1> QED
  BY <1>1, <1>2 DEF Ahead

(* What the engine does for a planner does not touch his save.             *)
LEMMA EngineSteps ==
  ASSUME IInv, NEW p \in Planners, StepOf(p, Engine(p)),
         fetch'[p] = fetch[p], call'[p] = call[p],
         NEW shown, shown # None => PlanFits(shown.kept.plan),
         board'[p] = [board[p] EXCEPT !.shown = shown],
         p \in hist.lopsided => p \in hist'.lopsided,
         AskOK(p)'
  PROVE  IInv'
<1>1. BoardOK(p) /\ p # Engine(p)
  BY Names DEF IInv, PageOK
<1>2. /\ BoardShape(board'[p]) /\ board'[p].data = board[p].data
      /\ board'[p].tab = board[p].tab /\ board'[p].shown = shown
      /\ board'[p].edit = board[p].edit /\ board'[p].ref = board[p].ref
      /\ board'[p].base = board[p].base /\ board'[p].torn = board[p].torn
  BY <1>1 DEF BoardOK, BoardShape
<1>3. Scope(p)' = Scope(p) /\ Saves(p)' = Saves(p)
  BY DEF StepOf, Scope, Group, Saves
<1>4. BoardOK(p)'
  BY <1>1, <1>2, <1>3 DEF BoardOK, PlanFits
<1>5. /\ CallOK(p)' /\ MovesHeld(p)' /\ FetchOK(p)'
      /\ \A t \in Types : lock'[t] = p =>
           call'[p].at \in {"read", "gone", "write", "bump"}
  BY <1>1, CallKept, FetchKept
<1>6. DataTracks(p)' /\ EditTracks(p)'
  BY <1>1, <1>2, DataKept, EditKept
<1> QED
  BY <1>4, <1>5, <1>6, StepKeeps DEF PageOK

(* An apply or a run: asked for, and turned down.                          *)
LEMMA AskingKeeps ==
  ASSUME IInv, NEW p \in Planners,
         ApplyAsk(p) \/ (\E policy \in Scenes[scene].policies : RunAsk(p, policy))
         \/ ApplyRead(p)
  PROVE  IInv'
<1> DEFINE r == ask[p].act
<1>1. /\ DOMAIN ask = Planners /\ DOMAIN ask[p] = {"preview", "act"}
      /\ board[p].shown # None => PlanFits(board[p].shown.kept.plan)
      /\ \A x : [ask[p] EXCEPT !.act = x] = [preview |-> ask[p].preview, act |-> x]
  BY AskShape
<1>2. ActOK(p) /\ BoardOK(p) /\ hist \in Histories
  BY DEF IInv, PageOK, AskOK, TablesOK
<1>3. SUFFICES ASSUME NEW x, NEW shown,
                 ask' = [ask EXCEPT ![p].act = x],
                 \/ board' = [board EXCEPT ![p].shown = shown]
                 \/ board' = board /\ shown = board[p].shown,
                 shown # None => PlanFits(shown.kept.plan),
                 hist' = hist \/ hist' = [hist EXCEPT !.asks[p] = @ + 1],
                 UNCHANGED <<rows, room, version, lock, fetch, call, scene>>,
                 r.at # "bump",
                 \/ x = NoAct
                 \/ /\ x = [op |-> "apply", at |-> x.at, shown |-> x.shown]
                    /\ x.at \in {"read", "lock"} /\ PlanFits(x.shown.kept.plan)
                 \/ /\ x = [op |-> "run", at |-> "lock", type |-> x.type,
                            policy |-> x.policy]
                    /\ x.type \in Types
               PROVE  IInv'
  <2>1. CASE ApplyAsk(p)
    <3> DEFINE x == [op |-> "apply", at |-> "read", shown |-> board[p].shown]
    <3>1. r.at # "bump"
      BY <1>2, <2>1 DEF ApplyAsk, Waits, ActOK, NoAct
    <3>2. /\ x = [op |-> "apply", at |-> x.at, shown |-> x.shown]
          /\ x.at = "read" /\ PlanFits(x.shown.kept.plan)
      BY <1>1, <2>1 DEF ApplyAsk
    <3>3. /\ ask' = [ask EXCEPT ![p].act = x] /\ board' = board /\ hist' = hist
          /\ UNCHANGED <<rows, room, version, lock, fetch, call, scene>>
      BY <2>1 DEF ApplyAsk, vars
    <3> HIDE DEF x
    <3> QED
      BY <1>1, <1>3, <3>1, <3>2, <3>3
  <2>2. CASE \E policy \in Scenes[scene].policies : RunAsk(p, policy)
    <3>0. PICK policy \in Scenes[scene].policies : RunAsk(p, policy)
      BY <2>2
    <3> DEFINE x == [op |-> "run", at |-> "lock", type |-> board[p].tab,
                     policy |-> policy]
    <3>1. r.at # "bump"
      BY <1>2, <3>0 DEF RunAsk, Waits, ActOK, NoAct
    <3>2. /\ x = [op |-> "run", at |-> "lock", type |-> x.type, policy |-> x.policy]
          /\ x.type \in Types
      BY <1>2 DEF BoardOK
    <3>3. /\ ask' = [ask EXCEPT ![p].act = x] /\ board' = board
          /\ hist' = [hist EXCEPT !.asks[p] = @ + 1]
          /\ UNCHANGED <<rows, room, version, lock, fetch, call, scene>>
      BY <3>0 DEF RunAsk
    <3> HIDE DEF x
    <3> QED
      BY <1>1, <1>3, <3>1, <3>2, <3>3
  <2>3. CASE ApplyRead(p)
    <3>1. r.op = "apply" /\ r.at = "read"
      BY <2>3 DEF ApplyRead
    <3>2. /\ r = [op |-> "apply", at |-> "read", shown |-> r.shown]
          /\ PlanFits(r.shown.kept.plan)
      BY <1>2, <3>1 DEF ActOK, NoAct
    <3>3. /\ UNCHANGED <<rows, room, version, lock, fetch, call, scene>>
          /\ hist' = hist
      BY <2>3 DEF ApplyRead
    <3>4. CASE r.shown.kept \in stored
      <4> DEFINE x == [op |-> "apply", at |-> "lock", shown |-> r.shown]
      <4>1. ask' = [ask EXCEPT ![p].act.at = "lock"] /\ board' = board
        BY <2>3, <3>4 DEF ApplyRead
      <4>2. [r EXCEPT !.at = "lock"] = x
        BY <3>2
      <4>3. ask' = [ask EXCEPT ![p].act = x]
        BY <4>1, <4>2
      <4>4. /\ x = [op |-> "apply", at |-> x.at, shown |-> x.shown]
            /\ x.at \in {"read", "lock"} /\ PlanFits(x.shown.kept.plan)
        BY <3>2
      <4>5. /\ board' = board
            /\ board[p].shown # None => PlanFits(board[p].shown.kept.plan)
        BY <1>1, <4>1
      <4> HIDE DEF x
      <4> QED
        BY <1>3, <3>1, <3>3, <4>3, <4>4, <4>5
    <3>5. CASE r.shown.kept \notin stored
      <4>1. /\ ask' = [ask EXCEPT ![p].act = NoAct]
            /\ board' = [board EXCEPT ![p].shown = None]
        BY <2>3, <3>1, <3>5 DEF ApplyRead, TurnedDown
      <4> QED
        BY <1>3, <3>1, <3>3, <4>1
    <3> QED
      BY <3>4, <3>5
  <2> QED
    BY <2>1, <2>2, <2>3
<1> DEFINE y == [preview |-> ask[p].preview, act |-> x]
<1>4. ask' = [ask EXCEPT ![p] = y]
  BY <1>1, <1>3
<1>5. ask'[p] = y
  BY <1>1, <1>4
<1>6. PreviewOK(p)'
  BY <1>5, PreviewSame
<1>7. ActOK(p)'
  BY <1>3, <1>5 DEF ActOK, NoAct, PlanFits
<1> QED
  BY <1>3, <1>4, <1>6, <1>7, DeskSteps
-------------------------------------------------------------------------------
(* The engine under the lock.                                              *)
LEMMA LockingKeeps ==
  ASSUME IInv, NEW p \in Planners, EngineLock(p)
  PROVE  IInv'
<1> DEFINE r == ask[p].act
           t == TypeAsked(r)
<1>1. /\ DOMAIN ask = Planners /\ DOMAIN ask[p] = {"preview", "act"}
      /\ DOMAIN board = Planners
      /\ board[p].shown # None => PlanFits(board[p].shown.kept.plan)
      /\ \A x : [ask[p] EXCEPT !.act = x] = [preview |-> ask[p].preview, act |-> x]
  BY AskShape
<1>2. ActOK(p) /\ BoardOK(p) /\ TablesOK
  BY DEF IInv, PageOK, AskOK
<1>3. /\ r.at = "lock"
      /\ UNCHANGED <<rows, room, version, fetch, call, scene, hist, stored>>
  BY DEF EngineLock
<1>4. t \in Types
  <2>1. ActOK(p) /\ r.at = "lock"
    BY <1>2, <1>3
  <2>2. CASE r.op = "apply"
    <3>1. PlanFits(r.shown.kept.plan)
      BY <2>1, <2>2 DEF ActOK, NoAct
    <3>2. t = r.shown.kept.plan.type
      BY <2>2 DEF TypeAsked
    <3> QED
      BY <3>1, <3>2 DEF PlanFits
  <2>3. CASE r.op # "apply"
    <3>1. r.type \in Types
      BY <2>1, <2>3 DEF ActOK, NoAct
    <3>2. t = r.type
      BY <2>3 DEF TypeAsked
    <3> QED
      BY <3>1, <3>2
  <2> QED
    BY <2>2, <2>3
<1>5. CASE lock[t] # None \/ (r.op = "apply" /\ ~Current(r.shown.kept))
  <2> DEFINE shown == IF r.op = "apply" THEN None ELSE board[p].shown
             y == [preview |-> ask[p].preview, act |-> NoAct]
  <2>1. /\ ask' = [ask EXCEPT ![p].act = NoAct] /\ lock' = lock
        /\ board' = [board EXCEPT ![p].shown = shown]
    BY <1>5 DEF EngineLock, TurnedDown
  <2>2. ask' = [ask EXCEPT ![p] = y] /\ ask'[p] = y
    BY <1>1, <2>1
  <2>3. PreviewOK(p)'
    BY <2>2, PreviewSame
  <2>4. ActOK(p)'
    BY <2>2 DEF ActOK
  <2>5. shown # None => PlanFits(shown.kept.plan)
    BY <1>1
  <2> HIDE DEF shown
  <2> QED
    BY <1>3, <2>1, <2>2, <2>3, <2>4, <2>5, DeskSteps
<1>6. CASE ~(lock[t] # None \/ (r.op = "apply" /\ ~Current(r.shown.kept)))
  <2> DEFINE x == [r EXCEPT !.at = "commit"]
             y == [preview |-> ask[p].preview, act |-> x]
  <2>1. /\ lock[t] = None /\ lock' = [lock EXCEPT ![t] = Engine(p)]
        /\ ask' = [ask EXCEPT ![p].act = x] /\ board' = board
    BY <1>6 DEF EngineLock
  <2>2. /\ ask' = [ask EXCEPT ![p] = y] /\ ask'[p] = y
        /\ \A q \in Planners \ {p} : ask'[q] = ask[q]
    BY <1>1, <2>1
  <2>3. /\ lock'[t] = Engine(p) /\ \A s \in Types \ {t} : lock'[s] = lock[s]
        /\ lock' \in [Types -> Holders \cup {None}]
    BY <1>2, <1>4, <2>1 DEF TablesOK, Holders
  <2>4. TablesOK'
    BY <1>1, <1>2, <1>3, <2>1, <2>2, <2>3 DEF TablesOK
  <2>5. \A s \in Types : s \in Ahead => s \in Ahead' /\ lock'[s] = lock[s]
    <3> SUFFICES ASSUME NEW s \in Types, s \in Ahead
                 PROVE  s \in Ahead' /\ lock'[s] = lock[s]
      OBVIOUS
    <3>1. lock[s] # None
      BY Names DEF Ahead
    <3>2. lock'[s] = lock[s]
      BY <2>1, <2>3, <3>1
    <3>3. \A q \in Planners :
            /\ lock[s] = q /\ call[q].at = "bump" => call'[q] = call[q]
            /\ lock[s] = Engine(q) /\ ask[q].act.at = "bump" =>
                 ask'[q].act = ask[q].act
      BY <1>3, <2>2
    <3> QED
      BY <3>2, <3>3, AheadStays
  <2>6. Grows(Engine(p))
    <3>1. hist.marks \in [Types -> Nat] /\ version \in [Types -> Nat]
      BY <1>2 DEF TablesOK, Histories
    <3> QED
      BY <1>3, <2>5, <3>1 DEF Grows
  <2>7. \A m : Found(m)' = Found(m) /\ OrderOf(m)' = OrderOf(m)
    BY <1>3 DEF Found, OrderOf
  <2>8. StepOf(p, Engine(p))
    BY <1>3, <2>1, <2>2, <2>3, <2>4, <2>6, <2>7 DEF StepOf
  <2>9. PreviewOK(p)'
    BY <2>2, PreviewSame
  <2>10. ActOK(p)'
    <3>1. CASE r.op = "apply"
      <4>1. /\ r = [op |-> "apply", at |-> "lock", shown |-> r.shown]
            /\ PlanFits(r.shown.kept.plan)
        BY <1>2, <1>3, <3>1 DEF ActOK, NoAct
      <4>2. x = [op |-> "apply", at |-> "commit", shown |-> r.shown]
        BY <4>1
      <4>3. PICK z : z = x
        OBVIOUS
      <4>4. ask'[p].act = z
        BY <2>2, <4>3
      <4>5. t = r.shown.kept.plan.type
        BY <3>1 DEF TypeAsked
      <4> HIDE DEF x, t
      <4>6. /\ z.op = "apply" /\ z.at = "commit" /\ z.shown = r.shown
            /\ z = [op |-> "apply", at |-> z.at, shown |-> z.shown]
        BY <4>2, <4>3
      <4>7. PlanFits(z.shown.kept.plan) /\ lock'[z.shown.kept.plan.type] = Engine(p)
        BY <2>3, <4>1, <4>5, <4>6
      <4> QED
        BY <4>4, <4>6, <4>7 DEF ActOK, PlanFits, TypeAsked, Engine
    <3>2. CASE r.op # "apply"
      <4>1. r = [op |-> "run", at |-> "lock", type |-> r.type, policy |-> r.policy]
        BY <1>2, <1>3, <3>2 DEF ActOK, NoAct
      <4>2. x = [op |-> "run", at |-> "commit", type |-> r.type, policy |-> r.policy]
        BY <4>1
      <4>3. TypeAsked(x) = t /\ x.type = t /\ t \in Types
        BY <1>4, <4>2, <3>2 DEF TypeAsked
      <4> HIDE DEF x, t
      <4> QED
        BY <2>2, <2>3, <4>2, <4>3 DEF ActOK, TypeAsked, Engine
    <3> QED
      BY <3>1, <3>2
  <2>11. AskOK(p)'
    BY <2>2, <2>9, <2>10 DEF AskOK
  <2>12. board'[p] = [board[p] EXCEPT !.shown = board[p].shown]
    BY <1>2, <2>1 DEF BoardOK, BoardShape
  <2> QED
    BY <1>1, <1>3, <2>8, <2>11, <2>12, EngineSteps
<1> QED
  BY <1>5, <1>6

(* An apply leaves alone what its plan does not delete.                    *)
LEMMA WrittenKeeps ==
  ASSUME NEW plan, "piece" \in DOMAIN rows
  PROVE  /\ "piece" \in DOMAIN Written(plan)
         /\ \A a \in Pieces : rows.piece[a] # None /\ a \notin Deleted(plan) =>
              Written(plan).piece[a] = rows.piece[a]
<1> DEFINE slots == {a \in Pieces : rows.piece[a] = None} \cup Deleted(plan)
           before(v, w) == \/ v.order < w.order
                           \/ v.order = w.order /\ v.day < w.day
                           \/ v.order = w.order /\ v.day = w.day
                              /\ v.factory < w.factory
           nth(d) == Cardinality({e \in plan.plan.new : before(e, d)})
           at(a) == {d \in plan.plan.new :
                       a \in slots /\ nth(d) = Cardinality({b \in slots : b < a})}
           piece == [a \in Pieces |->
             IF at(a) # {} THEN LET d == CHOOSE d \in at(a) : TRUE IN
               [order |-> d.order, cell |-> <<d.factory, d.day>>, qty |-> d.qty]
             ELSE IF a \in Deleted(plan) THEN None ELSE rows.piece[a]]
           status == [o \in Orders |-> IF o \in DOMAIN plan.in.rows
                                       THEN plan.plan.status[o]
                                       ELSE rows.status[o]]
<1>1. Written(plan) = [rows EXCEPT !.piece = piece, !.status = status]
  BY DEF Written
<1>2. \A a \in Pieces : rows.piece[a] # None /\ a \notin Deleted(plan) =>
                          piece[a] = rows.piece[a]
  <2> SUFFICES ASSUME NEW a \in Pieces, rows.piece[a] # None, a \notin Deleted(plan)
               PROVE  piece[a] = rows.piece[a]
    OBVIOUS
  <2>1. a \notin slots
    OBVIOUS
  <2> HIDE DEF slots, nth
  <2>2. at(a) = {}
    BY <2>1
  <2> HIDE DEF at
  <2> QED
    BY <2>2
<1> HIDE DEF piece, status
<1> QED
  BY <1>1, <1>2
LEMMA CommittingKeeps ==
  ASSUME IInv, NEW p \in Planners, EngineCommit(p)
  PROVE  IInv'
<1> DEFINE r == ask[p].act
           t == TypeAsked(r)
           plan == IF r.op = "apply" THEN r.shown.kept.plan
                   ELSE Planned(p, t, Prepared(t, r.policy, Orders))
           counted == r.op = "apply" \/ Changes(plan) # {}
           x == [op |-> r.op, at |-> "bump", type |-> t, counted |-> counted,
                 changed |-> Changes(plan) # {},
                 kept |-> IF r.op = "apply" THEN {r.shown.kept} ELSE {}]
           y == [preview |-> ask[p].preview, act |-> x]
<1>1. /\ DOMAIN ask = Planners /\ DOMAIN ask[p] = {"preview", "act"}
      /\ board[p].shown # None => PlanFits(board[p].shown.kept.plan)
      /\ \A z : [ask[p] EXCEPT !.act = z] = [preview |-> ask[p].preview, act |-> z]
  BY AskShape
<1>2. ActOK(p) /\ BoardOK(p) /\ TablesOK /\ hist \in Histories
  BY DEF IInv, PageOK, AskOK, TablesOK
<1>3. /\ r.at = "commit"
      /\ UNCHANGED <<version, lock, fetch, board, call, scene, stored>>
      /\ rows' = Written(plan)
      /\ ask' = [ask EXCEPT ![p].act = x]
      /\ hist' = [Marked(hist, {t}, 1) EXCEPT
           !.astray = @ \cup Elsewhere(plan)
                         \cup (IF plan.marks[t] # hist.marks[t]
                               THEN WrittenCells(plan) ELSE {}),
           !.silent = IF counted THEN @ ELSE @ \cup {t}]
  BY DEF EngineCommit
<1>4. /\ t \in Types /\ lock[t] = Engine(p) /\ r.op \in {"apply", "run"}
      /\ r.op = "apply" => PlanFits(plan) /\ plan.type = t
  <2>1. CASE r.op = "apply"
    <3>1. PlanFits(r.shown.kept.plan) /\ lock[TypeAsked(r)] = Engine(p)
      <4>1. r.at = "commit" /\ ActOK(p)
        BY <1>2, <1>3
      <4> QED
        BY <2>1, <4>1 DEF ActOK, NoAct
    <3>2. plan = r.shown.kept.plan
      BY <2>1
    <3>3. t = r.shown.kept.plan.type
      BY <2>1 DEF TypeAsked
    <3> QED
      BY <2>1, <3>1, <3>2, <3>3 DEF PlanFits
  <2>2. CASE r.op # "apply"
    <3>1. r.op = "run" /\ r.type \in Types /\ lock[TypeAsked(r)] = Engine(p)
      <4>1. r.at = "commit" /\ ActOK(p)
        BY <1>2, <1>3
      <4> QED
        BY <2>2, <4>1 DEF ActOK, NoAct
    <3>2. t = r.type
      BY <2>2 DEF TypeAsked
    <3> QED
      BY <2>2, <3>1, <3>2
  <2> QED
    BY <2>1, <2>2
<1>5. PlanFits(plan) /\ plan.type = t
  <2>1. LET z == Planned(p, t, Prepared(t, r.policy, Orders)) IN
        PlanFits(z) /\ z.type = t
    BY <1>4, PlannedFits
  <2> HIDE DEF t
  <2> QED
    BY <1>4, <2>1
<1> HIDE DEF plan
<1>6. /\ x.op = r.op /\ x.at = "bump" /\ x.type = t /\ (x.counted <=> counted)
      /\ x.changed \in BOOLEAN /\ (x.changed <=> Changes(plan) # {})
      /\ x = [op |-> x.op, at |-> "bump", type |-> x.type, counted |-> x.counted,
              changed |-> x.changed, kept |-> x.kept]
  OBVIOUS
<1> HIDE DEF x, t
<1>7. /\ ask' = [ask EXCEPT ![p] = y] /\ ask'[p] = y
      /\ \A q \in Planners \ {p} : ask'[q] = ask[q]
  BY <1>1, <1>3
<1>8. /\ hist' \in Histories
      /\ hist'.marks = [s \in Types |-> hist.marks[s] + (IF s = t THEN 1 ELSE 0)]
      /\ hist'.silent = IF counted THEN hist.silent ELSE hist.silent \cup {t}
      /\ hist'.lopsided = hist.lopsided
  <2> DEFINE marks == [s \in Types |-> hist.marks[s] + (IF s \in {t} THEN 1 ELSE 0)]
  <2>1. Marked(hist, {t}, 1) = [hist EXCEPT !.marks = marks]
    BY DEF Marked
  <2>2. /\ marks \in [Types -> Nat] /\ WrittenCells(plan) \subseteq Cells
        /\ Elsewhere(plan) \subseteq Cells
    BY <1>2 DEF Histories, OwnCells, WrittenCells, Elsewhere
  <2>3. marks = [s \in Types |-> hist.marks[s] + (IF s = t THEN 1 ELSE 0)]
    OBVIOUS
  <2> HIDE DEF marks, counted
  <2> QED
    BY <1>2, <1>3, <1>4, <2>1, <2>2, <2>3 DEF Histories
<1>9. \A a \in Pieces : rows.piece[a] # None
                        /\ lock[OrderType[rows.piece[a].order]] # Engine(p) =>
                          rows'.piece[a] = rows.piece[a]
  <2>1. \A a \in Deleted(plan) : OrderType[rows.piece[a].order] = t
    BY <1>5 DEF Deleted, PlanFits
  <2>2. "piece" \in DOMAIN rows
    BY <1>2 DEF TablesOK
  <2> QED
    BY <1>3, <1>4, <2>1, <2>2, WrittenKeeps
<1>10. \A q \in Planners : \A m :
         Found(m) /\ q # Engine(p) /\ lock[OrderType[OrderOf(m)]] = q =>
           Found(m)' /\ OrderOf(m)' = OrderOf(m)
  <2> SUFFICES ASSUME NEW q \in Planners, NEW m, Found(m),
                      lock[OrderType[OrderOf(m)]] = q
               PROVE  Found(m)' /\ OrderOf(m)' = OrderOf(m)
    OBVIOUS
  <2>1. q # Engine(p)
    BY Names
  <2>2. CASE m.piece = None
    BY <2>2 DEF Found, OrderOf
  <2>3. CASE m.piece # None
    <3>1. m.piece \in Pieces /\ rows.piece[m.piece] # None
          /\ lock[OrderType[rows.piece[m.piece].order]] # Engine(p)
      BY <2>1, <2>3 DEF Found, OrderOf
    <3>2. rows'.piece[m.piece] = rows.piece[m.piece]
      BY <1>9, <3>1
    <3> QED
      BY <3>2, <3>1 DEF Found, OrderOf
  <2> QED
    BY <2>2, <2>3
<1>11. TablesOK'
  <2>1. "piece" \in DOMAIN rows'
    BY <1>2, <1>3, WrittenKeeps DEF TablesOK
  <2> QED
    BY <1>1, <1>2, <1>3, <1>7, <1>8, <2>1 DEF TablesOK
<1>12. \A s \in Types : s \in Ahead => s \in Ahead'
  <2> SUFFICES ASSUME NEW s \in Types, s \in Ahead
               PROVE  s \in Ahead'
    OBVIOUS
  <2>1. \A q \in Planners :
          /\ lock[s] = q /\ call[q].at = "bump" => call'[q] = call[q]
          /\ lock[s] = Engine(q) /\ ask[q].act.at = "bump" =>
               ask'[q].act = ask[q].act
    BY <1>3, <1>7
  <2> QED
    BY <1>3, <2>1, AheadStays
<1>13. counted => t \in Ahead'
  <2> SUFFICES ASSUME counted
               PROVE  t \in Ahead'
    OBVIOUS
  <2>1. /\ lock'[t] = Engine(p) /\ ask'[p].act.at = "bump"
        /\ ask'[p].act.type = t /\ ask'[p].act.counted
    BY <1>3, <1>4, <1>6, <1>7
  <2>2. \E q \in Planners :
          /\ lock'[t] = Engine(q) /\ ask'[q].act.at = "bump"
          /\ ask'[q].act.type = t /\ ask'[q].act.counted
    BY <2>1
  <2> QED
    BY <1>4, <2>2 DEF Ahead, Engine
<1>14. Grows(Engine(p))
  <2>1. /\ hist.marks \in [Types -> Nat] /\ version \in [Types -> Nat]
        /\ version' = version /\ lock' = lock
    BY <1>2, <1>3 DEF TablesOK, Histories
  <2>2. hist.silent \subseteq hist'.silent
    BY <1>8
  <2>3. \A s \in Types : hist.marks[s] <= hist'.marks[s] /\ version[s] <= version'[s]
    BY <1>8, <2>1
  <2>4. \A s \in Types :
            \/ /\ hist'.marks[s] = hist.marks[s]
               /\ s \in Ahead => s \in Ahead' /\ lock'[s] = lock[s]
            \/ s \in hist'.silent
            \/ s \in Ahead' /\ lock'[s] = Engine(p)
    <3> SUFFICES ASSUME NEW s \in Types
                 PROVE  \/ /\ hist'.marks[s] = hist.marks[s]
                           /\ s \in Ahead => s \in Ahead' /\ lock'[s] = lock[s]
                        \/ s \in hist'.silent
                        \/ s \in Ahead' /\ lock'[s] = Engine(p)
      OBVIOUS
    <3>1. CASE s # t
      <4>1. hist'.marks[s] = hist.marks[s]
        BY <1>8, <2>1, <3>1
      <4> QED
        BY <1>12, <2>1, <4>1
    <3>2. CASE s = t
      BY <1>4, <1>8, <1>13, <2>1, <3>2
    <3> QED
      BY <3>1, <3>2
  <2> QED
    BY <2>1, <2>2, <2>3, <2>4 DEF Grows
<1>15. StepOf(p, Engine(p))
  BY <1>3, <1>7, <1>8, <1>10, <1>11, <1>14 DEF StepOf
<1>16. AskOK(p)'
  <2>1. PreviewOK(p)'
    BY <1>7, PreviewSame
  <2>2. ActOK(p)'
    <3>1. /\ ask'[p].act = x /\ x.at = "bump" /\ x.op \in {"apply", "run"}
          /\ x.type \in Types /\ lock'[x.type] = Engine(p)
          /\ (x.counted <=> x.op = "apply" \/ x.changed) /\ x.changed \in BOOLEAN
          /\ x.counted \/ x.type \in hist'.silent
      BY <1>3, <1>4, <1>6, <1>7, <1>8
    <3> QED
      BY <1>6, <3>1 DEF ActOK, Engine
  <2> QED
    BY <1>7, <2>1, <2>2 DEF AskOK
<1>17. board'[p] = [board[p] EXCEPT !.shown = board[p].shown]
  BY <1>2, <1>3 DEF BoardOK, BoardShape
<1> QED
  BY <1>1, <1>3, <1>8, <1>15, <1>16, <1>17, EngineSteps

LEMMA BumpingKeeps ==
  ASSUME IInv, NEW p \in Planners, NEW lost \in BOOLEAN, EngineBump(p, lost)
  PROVE  IInv'
<1> DEFINE r == ask[p].act
           n == (IF r.changed THEN 1 ELSE 0) + (IF r.op = "apply" THEN 1 ELSE 0)
           y == [preview |-> ask[p].preview, act |-> NoAct]
           shown == IF lost THEN board[p].shown ELSE None
<1>1. /\ DOMAIN ask = Planners /\ DOMAIN ask[p] = {"preview", "act"}
      /\ DOMAIN board = Planners
      /\ board[p].shown # None => PlanFits(board[p].shown.kept.plan)
      /\ \A z : [ask[p] EXCEPT !.act = z] = [preview |-> ask[p].preview, act |-> z]
  BY AskShape
<1>2. ActOK(p) /\ BoardOK(p) /\ TablesOK /\ hist \in Histories
  BY DEF IInv, PageOK, AskOK, TablesOK
<1>3. /\ r.at = "bump"
      /\ UNCHANGED <<rows, room, fetch, call, scene>>
      /\ version' = [version EXCEPT ![r.type] = @ + n]
      /\ lock' = [lock EXCEPT ![r.type] = None]
      /\ ask' = [ask EXCEPT ![p].act = NoAct]
      /\ board' = [board EXCEPT ![p].shown = shown]
      /\ hist' = IF n > 0 THEN Marked(hist, {r.type}, 1) ELSE hist
  BY DEF EngineBump
<1>4. /\ r.type \in Types /\ lock[r.type] = Engine(p)
      /\ (r.counted <=> r.op = "apply" \/ r.changed) /\ r.changed \in BOOLEAN
      /\ r.counted \/ r.type \in hist.silent
  BY <1>2, <1>3 DEF ActOK, NoAct
<1>5. n \in Nat /\ (n > 0 <=> r.counted)
  BY <1>4
<1> DEFINE t == r.type
<1> HIDE DEF n
<1>6. /\ ask' = [ask EXCEPT ![p] = y] /\ ask'[p] = y
      /\ \A q \in Planners \ {p} : ask'[q] = ask[q]
      /\ board'[p] = [board[p] EXCEPT !.shown = shown]
      /\ \A q \in Planners \ {p} : board'[q] = board[q]
  BY <1>1, <1>3
<1>7. /\ hist' \in Histories
      /\ hist'.marks = [s \in Types |->
           hist.marks[s] + (IF s = t /\ n > 0 THEN 1 ELSE 0)]
      /\ hist'.silent = hist.silent /\ hist'.lopsided = hist.lopsided
  <2> DEFINE marks == [s \in Types |-> hist.marks[s] + (IF s \in {t} THEN 1 ELSE 0)]
  <2>1. Marked(hist, {t}, 1) = [hist EXCEPT !.marks = marks]
    BY DEF Marked
  <2>2. marks \in [Types -> Nat] /\ hist.marks \in [Types -> Nat]
    BY <1>2 DEF Histories
  <2>3. CASE n > 0
    <3>1. marks = [s \in Types |-> hist.marks[s] + (IF s = t /\ n > 0 THEN 1 ELSE 0)]
      BY <2>3
    <3> HIDE DEF marks
    <3> QED
      BY <1>2, <1>3, <2>1, <2>2, <2>3, <3>1 DEF Histories
  <2>4. CASE ~(n > 0)
    <3>1. hist' = hist
      BY <1>3, <2>4
    <3>2. hist.marks = [s \in Types |->
                          hist.marks[s] + (IF s = t /\ n > 0 THEN 1 ELSE 0)]
      BY <2>2, <2>4
    <3> QED
      BY <1>2, <3>1, <3>2 DEF Histories
  <2> QED
    BY <2>3, <2>4
<1>8. /\ version \in [Types -> Nat] /\ version' \in [Types -> Nat]
      /\ version'[t] = version[t] + n
      /\ \A s \in Types \ {t} : version'[s] = version[s] /\ lock'[s] = lock[s]
      /\ lock'[t] = None /\ lock' \in [Types -> Holders \cup {None}]
  BY <1>2, <1>3, <1>4, <1>5 DEF TablesOK
<1>9. TablesOK'
  BY <1>1, <1>2, <1>3, <1>6, <1>7, <1>8 DEF TablesOK
<1>10. \A s \in Types \ {t} : s \in Ahead => s \in Ahead'
  <2> SUFFICES ASSUME NEW s \in Types \ {t}, s \in Ahead
               PROVE  s \in Ahead'
    OBVIOUS
  <2>1. CASE \E q \in Planners : lock[s] = q /\ call[q].at = "bump"
    <3>1. \E q \in Planners : lock'[s] = q /\ call'[q].at = "bump"
      BY <1>3, <1>8, <2>1
    <3> QED
      BY <3>1 DEF Ahead
  <2>2. CASE \E q \in Planners :
               /\ lock[s] = Engine(q) /\ ask[q].act.at = "bump"
               /\ ask[q].act.type = s /\ ask[q].act.counted
    <3>1. PICK q \in Planners :
               /\ lock[s] = Engine(q) /\ ask[q].act.at = "bump"
               /\ ask[q].act.type = s /\ ask[q].act.counted
      BY <2>2
    <3>2. q # p
      BY <3>1
    <3>3. ask'[q] = ask[q] /\ lock'[s] = lock[s]
      BY <1>6, <1>8, <3>2
    <3>4. \E z \in Planners :
               /\ lock'[s] = Engine(z) /\ ask'[z].act.at = "bump"
               /\ ask'[z].act.type = s /\ ask'[z].act.counted
      BY <3>1, <3>3
    <3> QED
      BY <3>4 DEF Ahead, Engine
  <2> QED
    BY <2>1, <2>2 DEF Ahead
<1>11. Grows(Engine(p))
  <2>1. hist.marks \in [Types -> Nat]
    BY <1>2 DEF Histories
  <2> SUFFICES ASSUME NEW s \in Types
               PROVE  /\ hist.marks[s] <= hist'.marks[s] /\ version[s] <= version'[s]
                      /\ version'[s] # version[s] => hist'.marks[s] # hist.marks[s]
                      /\ version'[s] = version[s] =>
                           \/ /\ hist'.marks[s] = hist.marks[s]
                              /\ s \in Ahead => s \in Ahead' /\ lock'[s] = lock[s]
                           \/ s \in hist'.silent
                           \/ s \in Ahead' /\ lock'[s] = Engine(p)
    BY <1>7 DEF Grows
  <2>2. CASE s # t
    <3>1. hist'.marks[s] = hist.marks[s] /\ version'[s] = version[s]
          /\ lock'[s] = lock[s] /\ hist.marks[s] \in Nat /\ version[s] \in Nat
      BY <1>7, <1>8, <2>1, <2>2
    <3> QED
      BY <1>10, <2>2, <3>1
  <2>3. CASE s = t
    <3>1. hist'.marks[t] = hist.marks[t] + (IF n > 0 THEN 1 ELSE 0)
          /\ version'[t] = version[t] + n
          /\ hist.marks[t] \in Nat /\ version[t] \in Nat
      BY <1>4, <1>7, <1>8, <2>1
    <3>2. n = 0 => t \in hist'.silent
      BY <1>4, <1>5, <1>7
    <3> HIDE DEF t
    <3> QED
      BY <1>5, <2>3, <3>1, <3>2
  <2> QED
    BY <2>2, <2>3
<1>12. \A m : Found(m)' = Found(m) /\ OrderOf(m)' = OrderOf(m)
  BY <1>3 DEF Found, OrderOf
<1>13. StepOf(p, Engine(p))
  BY <1>3, <1>4, <1>6, <1>7, <1>8, <1>9, <1>11, <1>12 DEF StepOf
<1>14. AskOK(p)'
  <2>1. PreviewOK(p)'
    BY <1>6, PreviewSame
  <2>2. ActOK(p)'
    BY <1>6 DEF ActOK
  <2> QED
    BY <1>6, <2>1, <2>2 DEF AskOK
<1>15. shown # None => PlanFits(shown.kept.plan)
  BY <1>1
<1> HIDE DEF shown
<1> QED
  BY <1>3, <1>6, <1>7, <1>13, <1>14, <1>15, EngineSteps
-------------------------------------------------------------------------------
LEMMA SameShift ==
  ASSUME NEW a \in Nat, NEW b \in Nat, NEW c \in Nat, NEW d \in Nat,
         a - b = c - d, b <= d
  PROVE  a <= c /\ (a = c <=> b = d)
OBVIOUS

(* A page keeps track while it counts what it writes, and only that.       *)
LEMMA TracksShift ==
  ASSUME NEW S, NEW ver, NEW ver2, NEW base, NEW base2, NEW Z, NEW A, NEW A2,
         NEW M \in [Types -> Nat], NEW M2 \in [Types -> Nat],
         NEW V \in [Types -> Nat], NEW V2 \in [Types -> Nat],
         S \subseteq Types, ver \in [S -> Nat], ver2 \in [S -> Nat],
         base \in [Types -> Nat], base2 \in [Types -> Nat],
         Tracks(S, ver, base, Z, M, V, A),
         \A t \in Types :
           /\ base2[t] - base[t] = M2[t] - M[t]
           /\ t \in S => ver2[t] - ver[t] = V2[t] - V[t]
           /\ t \in A => t \in A2
  PROVE  Tracks(S, ver2, base2, Z, M2, V2, A2)
<1> SUFFICES ASSUME NEW t \in Types
             PROVE  /\ base2[t] <= M2[t]
                    /\ t \in S =>
                         /\ ver2[t] <= V2[t]
                         /\ base2[t] = M2[t] => ver2[t] = V2[t]
                         /\ ver2[t] = V2[t] /\ t \notin Z =>
                              base2[t] = M2[t] \/ t \in A2
  BY DEF Tracks
<1>1. /\ base[t] \in Nat /\ base2[t] \in Nat /\ M[t] \in Nat /\ M2[t] \in Nat
      /\ V[t] \in Nat /\ V2[t] \in Nat
      /\ t \in S => ver[t] \in Nat /\ ver2[t] \in Nat
  OBVIOUS
<1>2. /\ base[t] <= M[t]
      /\ t \in S =>
           /\ ver[t] <= V[t]
           /\ base[t] = M[t] => ver[t] = V[t]
           /\ ver[t] = V[t] /\ t \notin Z => base[t] = M[t] \/ t \in A
  BY DEF Tracks
<1>3. /\ base2[t] - base[t] = M2[t] - M[t]
      /\ t \in S => ver2[t] - ver[t] = V2[t] - V[t]
      /\ t \in A => t \in A2
  OBVIOUS
<1>4. base2[t] <= M2[t] /\ (base2[t] = M2[t] <=> base[t] = M[t])
  <2>1. /\ base2[t] \in Nat /\ base[t] \in Nat /\ M2[t] \in Nat /\ M[t] \in Nat
        /\ base[t] <= M[t] /\ base2[t] - base[t] = M2[t] - M[t]
    BY <1>1, <1>2, <1>3
  <2> QED
    BY ONLY <2>1, SameShift
<1>5. CASE t \in S
  <2>1. ver2[t] <= V2[t] /\ (ver2[t] = V2[t] <=> ver[t] = V[t])
    <3>1. /\ ver[t] \in Nat /\ ver2[t] \in Nat /\ V[t] \in Nat /\ V2[t] \in Nat
          /\ ver[t] <= V[t] /\ ver2[t] - ver[t] = V2[t] - V[t]
      BY <1>1, <1>2, <1>3, <1>5
    <3> QED
      BY ONLY <3>1, SameShift
  <2> QED
    BY <1>2, <1>3, <1>4, <2>1
<1> QED
  BY <1>4, <1>5

(* What a page counts on, in a step of its own save.                       *)
LEMMA OwnTracks ==
  ASSUME IInv, NEW p \in Planners, StepOf(p, p), ask'[p] = ask[p],
         p \in hist.lopsided => p \in hist'.lopsided,
         hist'.silent = hist.silent,
         board[p].edit, board'[p].torn = board[p].torn,
         board'[p].base \in [Types -> Nat],
         p \notin hist'.lopsided =>
           /\ Ver(p)' \in [Scope(p) -> Nat]
           /\ \A t \in Types :
                /\ board'[p].base[t] - board[p].base[t]
                     = hist'.marks[t] - hist.marks[t]
                /\ t \in Scope(p) => Ver(p)'[t] - Ver(p)[t] = version'[t] - version[t]
           /\ Saves(p)' /\ ~call'[p].sent => call'[p].live = board'[p].ref
  PROVE  EditTracks(p)'
<1> SUFFICES ASSUME p \notin hist'.lopsided
             PROVE  EditTracks(p)'
  BY DEF EditTracks
<1>1. /\ hist.marks \in [Types -> Nat] /\ version \in [Types -> Nat]
      /\ hist'.marks \in [Types -> Nat] /\ version' \in [Types -> Nat]
  BY DEF IInv, StepOf, TablesOK, Histories
<1>2. Scope(p)' = Scope(p) /\ Scope(p) \subseteq Types
  BY PlanAssumption DEF StepOf, Scope, Group, IInv, TablesOK, Scene
<1>3. board[p].base \in [Types -> Nat]
  BY DEF IInv, PageOK, BoardOK
<1>4. /\ Ver(p) \in [Scope(p) -> Nat]
      /\ Tracks(Scope(p), Ver(p), board[p].base, board[p].torn \cup hist.silent,
                hist.marks, version, AheadBut(p))
  BY DEF IInv, PageOK, EditTracks
<1>5. \A t \in Types : t \in AheadBut(p) => t \in AheadBut(p)'
  <2> SUFFICES ASSUME NEW t \in Types, t \in AheadBut(p)
               PROVE  t \in AheadBut(p)'
    OBVIOUS
  <2>1. t \in Ahead /\ lock[t] # p /\ lock[t] # None
    BY Names DEF Ahead, AheadBut
  <2>2. lock'[t] = lock[t]
    BY <2>1 DEF StepOf
  <2>3. \A q \in Planners :
          /\ lock[t] = q /\ call[q].at = "bump" => call'[q] = call[q]
          /\ lock[t] = Engine(q) /\ ask[q].act.at = "bump" =>
               ask'[q].act = ask[q].act
    BY <2>1 DEF StepOf
  <2> QED
    BY <2>1, <2>2, <2>3, AheadStays DEF AheadBut
<1>6. Tracks(Scope(p), Ver(p)', board'[p].base, board[p].torn \cup hist.silent,
             hist'.marks, version', AheadBut(p)')
  BY <1>1, <1>2, <1>3, <1>4, <1>5, TracksShift
<1> QED
  BY <1>2, <1>6 DEF EditTracks, Tracks

(* A step of a save.                                                       *)
LEMMA SaveSteps ==
  ASSUME IInv, NEW p \in Planners, StepOf(p, p),
         fetch'[p] = fetch[p], ask'[p] = ask[p],
         BoardShape(board'[p]), board'[p].data = board[p].data,
         board'[p].tab = board[p].tab, board'[p].shown = board[p].shown,
         board'[p].edit \in BOOLEAN, board'[p].base \in [Types -> Nat],
         board'[p].edit => board[p].edit /\ board'[p].ref = board[p].ref,
         Saves(p)' => board'[p].edit,
         CallOK(p)', MovesHeld(p)', EditTracks(p)',
         \A t \in Types : lock'[t] = p =>
           call'[p].at \in {"read", "gone", "write", "bump"}
  PROVE  IInv'
<1>1. Engine(p) # p
  BY Names
<1>2. AskOK(p)' /\ FetchOK(p)' /\ DataTracks(p)'
  BY <1>1, AskKept, FetchKept, DataKept
<1>3. Scope(p)' = Scope(p)
  BY DEF StepOf, Scope, Group
<1>4. BoardOK(p)'
  BY <1>3 DEF BoardOK, IInv, PageOK, PlanFits
<1> QED
  BY <1>2, <1>4, StepKeeps DEF PageOK

(* What all steps of a save have in common.                                *)
LEMMA SaveFacts ==
  ASSUME IInv, NEW p \in Planners
  PROVE  /\ DOMAIN board = Planners /\ DOMAIN call = Planners
         /\ DOMAIN ask = Planners /\ DOMAIN fetch = Planners
         /\ BoardShape(board[p]) /\ board[p].base \in [Types -> Nat]
         /\ hist \in Histories /\ hist.marks \in [Types -> Nat]
         /\ version \in [Types -> Nat] /\ lock \in [Types -> Holders \cup {None}]
         /\ Saves(p) => /\ board[p].edit /\ CallOK(p)
                        /\ DOMAIN call[p].live = Scope(p)
                        /\ Ver(p) = call[p].live
         /\ Scope(p) \subseteq Types
         /\ p # None /\ p \in Holders
<1>1. TablesOK /\ BoardOK(p) /\ CallOK(p)
  BY DEF IInv, PageOK
<1>2. /\ DOMAIN board = Planners /\ DOMAIN call = Planners
      /\ DOMAIN ask = Planners /\ DOMAIN fetch = Planners
      /\ hist \in Histories /\ hist.marks \in [Types -> Nat]
      /\ version \in [Types -> Nat] /\ lock \in [Types -> Holders \cup {None}]
      /\ scene \in Scene
  BY <1>1 DEF TablesOK, Histories
<1>3. /\ BoardShape(board[p]) /\ board[p].base \in [Types -> Nat]
      /\ Saves(p) => board[p].edit
  BY <1>1 DEF BoardOK
<1>4. Saves(p) => DOMAIN call[p].live = Scope(p) /\ Ver(p) = call[p].live
  BY <1>1 DEF CallOK, Ver
<1>5. Scope(p) \subseteq Types
  BY <1>2, PlanAssumption DEF Scope, Group, Scene
<1>6. p # None /\ p \in Holders
  BY Names DEF Holders
<1> QED
  BY <1>1, <1>2, <1>3, <1>4, <1>5, <1>6
LEMMA BeginningKeeps ==
  ASSUME IInv, NEW p \in Planners, SaveBegin(p), UNCHANGED desk
  PROVE  IInv'
<1> DEFINE c == [queue |-> Calls(p), at |-> "next", live |-> Expected(p),
                 sent |-> FALSE, shown |-> [o \in Orders |-> ShownType(p, o)]]
<1>1. /\ DOMAIN board = Planners /\ DOMAIN call = Planners
      /\ BoardShape(board[p]) /\ board[p].base \in [Types -> Nat]
      /\ hist \in Histories /\ Scope(p) \subseteq Types
  BY SaveFacts
<1>2. /\ board[p].edit /\ ~Saves(p) /\ ask' = ask
      /\ UNCHANGED <<rows, room, version, lock, fetch, scene>>
      /\ board' = [board EXCEPT ![p].status = "saving"]
      /\ call' = [call EXCEPT ![p] = c]
      /\ hist' = [hist EXCEPT !.saves[p] = @ + 1]
  BY DEF SaveBegin, desk
<1>3. Expected(p) = board[p].ref /\ board[p].ref \in [Scope(p) -> Nat]
  <2>1. BoardOK(p)
    BY DEF IInv, PageOK
  <2>2. board[p].ref \in [Scope(p) -> Nat]
    BY <1>2, <2>1 DEF BoardOK
  <2>3. None \notin [Scope(p) -> Nat]
    BY <1>1, PlanAssumption
  <2> QED
    BY <2>2, <2>3 DEF Expected
<1>4. /\ c = [queue |-> c.queue, at |-> c.at, live |-> c.live, sent |-> c.sent,
              shown |-> c.shown]
      /\ c.at = "next" /\ c.live = board[p].ref /\ c.sent = FALSE
  BY <1>3
<1> HIDE DEF c
<1>5. /\ hist' \in Histories /\ hist'.marks = hist.marks
      /\ hist'.silent = hist.silent /\ hist'.lopsided = hist.lopsided
  <2> DEFINE n == [hist.saves EXCEPT ![p] = @ + 1]
  <2>1. hist' = [hist EXCEPT !.saves = n]
    BY <1>2
  <2>2. hist \in Histories
    BY <1>1
  <2>3. n \in [Planners -> Nat]
    BY <2>2 DEF Histories
  <2> HIDE DEF n
  <2> QED
    BY <2>1, <2>2, <2>3 DEF Histories
<1>6. /\ DOMAIN board' = Planners /\ DOMAIN call' = Planners
      /\ call'[p] = c /\ board'[p] = [board[p] EXCEPT !.status = "saving"]
      /\ \A q \in Planners \ {p} : call'[q] = call[q] /\ board'[q] = board[q]
  BY <1>1, <1>2
<1>7. /\ BoardShape(board'[p]) /\ board'[p].data = board[p].data
      /\ board'[p].tab = board[p].tab /\ board'[p].shown = board[p].shown
      /\ board'[p].edit = board[p].edit /\ board'[p].ref = board[p].ref
      /\ board'[p].base = board[p].base /\ board'[p].torn = board[p].torn
  BY <1>1, <1>6 DEF BoardShape
<1>8. TablesOK'
  BY <1>2, <1>5, <1>6 DEF IInv, TablesOK
<1>9. call[p].at = "idle"
  BY <1>2 DEF Saves
<1>10. StepOf(p, p)
  <2>1. Calm(p)
    BY <1>2, <1>5, <1>6, <1>8, <1>9 DEF Calm
  <2> QED
    BY <2>1, CalmSteps
<1>11. Scope(p)' = Scope(p) /\ Saves(p)'
  BY <1>2, <1>4, <1>6 DEF Scope, Group, Saves
<1>12. CallOK(p)' /\ MovesHeld(p)'
  BY <1>3, <1>4, <1>6, <1>11 DEF CallOK, MovesHeld
<1>13. EditTracks(p)'
  <2>1. Ver(p)' = board[p].ref /\ Ver(p) = board[p].ref
    BY <1>2, <1>4, <1>6, <1>11 DEF Ver
  <2>2. \A t \in Types : /\ board'[p].base[t] - board[p].base[t]
                              = hist'.marks[t] - hist.marks[t]
                         /\ t \in Scope(p) =>
                              Ver(p)'[t] - Ver(p)[t] = version'[t] - version[t]
    <3>1. /\ hist.marks \in [Types -> Nat] /\ version \in [Types -> Nat]
      BY SaveFacts
    <3> QED
      BY <1>1, <1>2, <1>3, <1>5, <1>7, <2>1, <3>1
  <2> QED
    BY <1>1, <1>2, <1>3, <1>4, <1>5, <1>6, <1>7, <1>10, <2>1, <2>2, OwnTracks
<1>14. \A t \in Types : lock'[t] # p
  BY <1>2, <1>9 DEF IInv, Owned
<1> QED
  BY <1>1, <1>2, <1>6, <1>7, <1>10, <1>12, <1>13, <1>14, SaveSteps

LEMMA EndingKeeps ==
  ASSUME IInv, NEW p \in Planners, SaveEnd(p), UNCHANGED desk
  PROVE  IInv'
<1>1. /\ DOMAIN board = Planners /\ DOMAIN call = Planners
      /\ BoardShape(board[p]) /\ board[p].base \in [Types -> Nat]
      /\ hist \in Histories
  BY SaveFacts
<1>2. /\ call[p].at = "next" /\ ask' = ask
      /\ UNCHANGED <<rows, room, version, lock, fetch, scene, hist>>
      /\ board' = [board EXCEPT ![p] = Left(board[p], "success")]
      /\ call' = [call EXCEPT ![p] = NoCall]
  BY DEF SaveEnd, desk
<1>3. /\ DOMAIN board' = Planners /\ DOMAIN call' = Planners
      /\ call'[p] = NoCall
      /\ board'[p] = [board[p] EXCEPT !.edit = FALSE, !.ref = None,
                        !.status = "success", !.edits = NoEdits]
      /\ \A q \in Planners \ {p} : call'[q] = call[q] /\ board'[q] = board[q]
  BY <1>1, <1>2 DEF Left
<1>4. /\ BoardShape(board'[p]) /\ board'[p].data = board[p].data
      /\ board'[p].tab = board[p].tab /\ board'[p].shown = board[p].shown
      /\ board'[p].edit = FALSE /\ board'[p].base = board[p].base
  BY <1>1, <1>3 DEF BoardShape
<1>5. TablesOK'
  BY <1>2, <1>3 DEF IInv, TablesOK
<1>6. StepOf(p, p)
  <2>1. Calm(p)
    BY <1>2, <1>3, <1>5 DEF Calm
  <2> QED
    BY <2>1, CalmSteps
<1>7. ~Saves(p)' /\ CallOK(p)' /\ MovesHeld(p)' /\ EditTracks(p)'
  BY <1>3, <1>4 DEF Saves, CallOK, MovesHeld, EditTracks, NoCall
<1>8. \A t \in Types : lock'[t] # p
  BY <1>2 DEF IInv, Owned
<1> QED
  BY <1>1, <1>2, <1>4, <1>6, <1>7, <1>8, SaveSteps

(* A save that is refused: the lock, if it was taken, is freed.            *)
LEMMA RefusingKeeps ==
  ASSUME IInv, NEW p \in Planners, NEW status, Refused(p, status),
         Saves(p), call[p].at # "bump",
         UNCHANGED <<rows, room, version, fetch, scene, desk>>,
         lock' = Unlocked(p) \/ (lock' = lock /\ call[p].at \in {"next", "lock"})
  PROVE  IInv'
<1>1. /\ DOMAIN board = Planners /\ DOMAIN call = Planners
      /\ BoardShape(board[p]) /\ board[p].base \in [Types -> Nat]
      /\ hist \in Histories /\ Scope(p) \subseteq Types
      /\ hist.marks \in [Types -> Nat] /\ version \in [Types -> Nat]
      /\ lock \in [Types -> Holders \cup {None}]
      /\ board[p].edit /\ Ver(p) = call[p].live /\ p # None
  BY SaveFacts
<1>2. /\ ask' = ask
      /\ board' = [board EXCEPT ![p].status = status]
      /\ call' = [call EXCEPT ![p] = NoCall]
      /\ hist' = [hist EXCEPT !.lopsided = IF call[p].sent THEN @ \cup {p} ELSE @]
  BY DEF Refused, desk
<1>3. /\ DOMAIN board' = Planners /\ DOMAIN call' = Planners
      /\ call'[p] = NoCall /\ board'[p] = [board[p] EXCEPT !.status = status]
      /\ \A q \in Planners \ {p} : call'[q] = call[q] /\ board'[q] = board[q]
  BY <1>1, <1>2
<1>4. /\ BoardShape(board'[p]) /\ board'[p].data = board[p].data
      /\ board'[p].tab = board[p].tab /\ board'[p].shown = board[p].shown
      /\ board'[p].edit = board[p].edit /\ board'[p].ref = board[p].ref
      /\ board'[p].base = board[p].base /\ board'[p].torn = board[p].torn
  BY <1>1, <1>3 DEF BoardShape
<1>5. /\ hist' \in Histories /\ hist'.marks = hist.marks
      /\ hist'.silent = hist.silent /\ hist.lopsided \subseteq hist'.lopsided
      /\ call[p].sent => p \in hist'.lopsided
  BY <1>1, <1>2 DEF Histories
<1>6. \A t \in Types : /\ lock[t] # p => lock'[t] = lock[t]
                       /\ lock[t] = p => lock'[t] = None
  BY DEF Unlocked, IInv, Owned
<1>7. lock' \in [Types -> Holders \cup {None}]
  BY <1>1 DEF Unlocked
<1>8. TablesOK'
  BY <1>2, <1>3, <1>5, <1>7 DEF IInv, TablesOK
<1>9. Grows(p)
  <2>1. \A s \in Types : s \in Ahead => s \in Ahead' /\ lock'[s] = lock[s]
    <3> SUFFICES ASSUME NEW s \in Types, s \in Ahead
                 PROVE  s \in Ahead' /\ lock'[s] = lock[s]
      OBVIOUS
    <3>1. lock[s] # p
      BY Names DEF Ahead
    <3>2. lock'[s] = lock[s]
      BY <1>6, <3>1
    <3>3. \A q \in Planners :
            /\ lock[s] = q /\ call[q].at = "bump" => call'[q] = call[q]
            /\ lock[s] = Engine(q) /\ ask[q].act.at = "bump" =>
                 ask'[q].act = ask[q].act
      BY <1>2, <1>3, <3>1
    <3> QED
      BY <3>2, <3>3, AheadStays
  <2> QED
    BY <1>1, <1>5, <2>1 DEF Grows
<1>10. StepOf(p, p)
  <2>1. \A m : Found(m)' = Found(m) /\ OrderOf(m)' = OrderOf(m)
    BY DEF Found, OrderOf
  <2> QED
    BY <1>2, <1>3, <1>5, <1>6, <1>8, <1>9, <2>1 DEF StepOf
<1>11. ~Saves(p)' /\ CallOK(p)' /\ MovesHeld(p)' /\ Scope(p)' = Scope(p)
  BY <1>3 DEF Saves, CallOK, MovesHeld, NoCall, Scope, Group
<1>12. EditTracks(p)'
  <2>1. ASSUME p \notin hist'.lopsided
        PROVE  /\ Ver(p)' \in [Scope(p) -> Nat]
               /\ \A t \in Types :
                    /\ board'[p].base[t] - board[p].base[t]
                         = hist'.marks[t] - hist.marks[t]
                    /\ t \in Scope(p) =>
                         Ver(p)'[t] - Ver(p)[t] = version'[t] - version[t]
    <3>1. ~call[p].sent /\ p \notin hist.lopsided
      BY <1>5, <2>1
    <3>2. Ver(p) \in [Scope(p) -> Nat] /\ call[p].live = board[p].ref
      BY <1>1, <3>1 DEF IInv, PageOK, EditTracks
    <3>3. Ver(p)' = Ver(p)
      BY <1>1, <1>4, <1>11, <3>2 DEF Ver
    <3> QED
      BY <1>1, <1>4, <1>5, <3>2, <3>3
  <2> QED
    BY <1>1, <1>2, <1>4, <1>5, <1>10, <1>11, <2>1, OwnTracks
<1>13. \A t \in Types : lock'[t] # p
  BY <1>1, <1>6
<1> QED
  BY <1>1, <1>2, <1>4, <1>10, <1>11, <1>12, <1>13, SaveSteps
(* A step of a save that writes nothing; it may take or free the locks.    *)
LEMMA CallSteps ==
  ASSUME IInv, NEW p \in Planners, Saves(p), call[p].at # "bump",
         UNCHANGED <<rows, room, version, fetch, board, scene, desk>>,
         NEW c, call' = [call EXCEPT ![p] = c],
         c = [queue |-> c.queue, at |-> c.at, live |-> c.live, sent |-> c.sent,
              shown |-> c.shown],
         c.at # "idle", DOMAIN c.live = Scope(p), c.sent \in BOOLEAN,
         \/ hist' = Lopsided(hist, p, TRUE)
         \/ hist' = hist /\ c.live = call[p].live /\ c.sent = call[p].sent,
         lock' \in [Types -> Holders \cup {None}],
         \A t \in Types : \/ lock'[t] = lock[t]
                          \/ lock[t] \in {None, p} /\ lock'[t] \in {None, p},
         \A t \in Types : lock'[t] = p => c.at \in {"read", "gone", "write", "bump"},
         MovesHeld(p)'
  PROVE  IInv'
<1>1. /\ DOMAIN board = Planners /\ DOMAIN call = Planners
      /\ BoardShape(board[p]) /\ board[p].base \in [Types -> Nat]
      /\ hist \in Histories /\ Scope(p) \subseteq Types
      /\ hist.marks \in [Types -> Nat] /\ version \in [Types -> Nat]
      /\ board[p].edit /\ Ver(p) = call[p].live /\ p # None
  BY SaveFacts
<1>2. ask' = ask /\ board' = board
  BY DEF desk
<1>3. /\ DOMAIN call' = Planners /\ call'[p] = c
      /\ \A q \in Planners \ {p} : call'[q] = call[q]
  BY <1>1
<1>4. /\ hist' \in Histories /\ hist'.marks = hist.marks
      /\ hist'.silent = hist.silent /\ hist.lopsided \subseteq hist'.lopsided
      /\ p \notin hist'.lopsided => c.live = call[p].live /\ c.sent = call[p].sent
  BY <1>1 DEF Histories, Lopsided
<1>5. TablesOK'
  BY <1>2, <1>3, <1>4 DEF IInv, TablesOK
<1>6. Grows(p)
  <2>1. \A s \in Types : s \in Ahead => s \in Ahead' /\ lock'[s] = lock[s]
    <3> SUFFICES ASSUME NEW s \in Types, s \in Ahead
                 PROVE  s \in Ahead' /\ lock'[s] = lock[s]
      OBVIOUS
    <3>1. lock[s] # p /\ lock[s] # None
      BY Names DEF Ahead
    <3>2. lock'[s] = lock[s]
      BY <3>1
    <3>3. \A q \in Planners :
            /\ lock[s] = q /\ call[q].at = "bump" => call'[q] = call[q]
            /\ lock[s] = Engine(q) /\ ask[q].act.at = "bump" =>
                 ask'[q].act = ask[q].act
      BY <1>2, <1>3, <3>1
    <3> QED
      BY <3>2, <3>3, AheadStays
  <2> QED
    BY <1>1, <1>4, <2>1 DEF Grows
<1>7. StepOf(p, p)
  <2>1. \A m : Found(m)' = Found(m) /\ OrderOf(m)' = OrderOf(m)
    BY DEF Found, OrderOf
  <2> QED
    BY <1>2, <1>3, <1>4, <1>5, <1>6, <2>1 DEF StepOf
<1>8. Saves(p)' /\ Scope(p)' = Scope(p)
  BY <1>3 DEF Saves, Scope, Group
<1>9. CallOK(p)'
  BY <1>3, <1>8 DEF CallOK
<1>10. EditTracks(p)'
  <2>1. ASSUME p \notin hist'.lopsided
        PROVE  /\ Ver(p)' \in [Scope(p) -> Nat]
               /\ \A t \in Types :
                    /\ board'[p].base[t] - board[p].base[t]
                         = hist'.marks[t] - hist.marks[t]
                    /\ t \in Scope(p) =>
                         Ver(p)'[t] - Ver(p)[t] = version'[t] - version[t]
               /\ Saves(p)' /\ ~call'[p].sent => call'[p].live = board'[p].ref
    <3>1. c.live = call[p].live /\ c.sent = call[p].sent /\ p \notin hist.lopsided
      BY <1>4, <2>1
    <3>2. /\ Ver(p) \in [Scope(p) -> Nat]
          /\ ~call[p].sent => call[p].live = board[p].ref
      BY <1>1, <3>1 DEF IInv, PageOK, EditTracks
    <3>3. Ver(p)' = Ver(p)
      BY <1>1, <1>3, <1>8, <3>1 DEF Ver
    <3> QED
      BY <1>1, <1>2, <1>3, <1>4, <3>1, <3>2, <3>3
  <2> QED
    BY <1>1, <1>2, <1>4, <1>7, <2>1, OwnTracks
<1> QED
  BY <1>1, <1>2, <1>3, <1>7, <1>8, <1>9, <1>10, SaveSteps

LEMMA CheckingKeeps ==
  ASSUME IInv, NEW p \in Planners, BulkCheck(p), UNCHANGED desk
  PROVE  IInv'
<1>1. /\ call[p].at = "next" /\ Saves(p)
      /\ UNCHANGED <<rows, room, version, lock, fetch, scene>>
  BY DEF BulkCheck, Doing, Saves
<1>2. CASE Refused(p, "conflict")
  BY <1>1, <1>2, RefusingKeeps
<1>3. CASE call' = [call EXCEPT ![p].at = "lock"] /\ UNCHANGED <<board, hist>>
  <2> DEFINE c == [call[p] EXCEPT !.at = "lock"]
  <2>1. CallOK(p) /\ DOMAIN call = Planners /\ lock \in [Types -> Holders \cup {None}]
    BY SaveFacts, <1>1
  <2>2. call' = [call EXCEPT ![p] = c] /\ call'[p] = c
    BY <1>3, <2>1
  <2>3. /\ c = [queue |-> c.queue, at |-> c.at, live |-> c.live, sent |-> c.sent,
                shown |-> c.shown]
        /\ c.at = "lock" /\ c.live = call[p].live /\ c.sent = call[p].sent
        /\ DOMAIN c.live = Scope(p) /\ c.sent \in BOOLEAN
    BY <1>1, <2>1 DEF CallOK
  <2> HIDE DEF c
  <2>4. MovesHeld(p)'
    BY <2>2, <2>3 DEF MovesHeld
  <2>5. \A t \in Types : lock[t] # p
    BY <1>1 DEF IInv, Owned
  <2> QED
    BY <1>1, <1>3, <2>1, <2>2, <2>3, <2>4, <2>5, CallSteps
<1> QED
  BY <1>2, <1>3 DEF BulkCheck

(* The answer to a call that has changed nothing.                          *)
LEMMA AnsweringKeeps ==
  ASSUME IInv, NEW p \in Planners, Saves(p), call[p].at # "bump",
         Answered(p, {}), hist' = Lopsided(hist, p, TRUE),
         UNCHANGED <<rows, room, version, fetch, board, scene, desk>>,
         lock' = Unlocked(p) \/ (lock' = lock /\ call[p].at = "lock")
  PROVE  IInv'
<1> DEFINE live == CountedMoves(call[p], Moves(p))
           sent == call[p].sent \/ {} # {}
           c == [call[p] EXCEPT !.queue = Tail(call[p].queue), !.at = "next",
                                !.sent = sent, !.live = live]
<1>1. /\ CallOK(p) /\ DOMAIN call = Planners
      /\ lock \in [Types -> Holders \cup {None}] /\ p # None
  BY SaveFacts
<1>2. DOMAIN live = DOMAIN call[p].live
  BY DEF CountedMoves
<1>3. call' = [call EXCEPT ![p] = c]
  BY Zenon DEF Answered
<1>4. sent \in BOOLEAN
  OBVIOUS
<1> HIDE DEF live, sent
<1>5. call'[p] = c
  BY <1>1, <1>3
<1>6. /\ c = [queue |-> c.queue, at |-> c.at, live |-> c.live, sent |-> c.sent,
              shown |-> c.shown]
      /\ c.at = "next" /\ DOMAIN c.live = Scope(p) /\ c.sent \in BOOLEAN
  <2>1. /\ call[p] = [queue |-> call[p].queue, at |-> call[p].at,
                      live |-> call[p].live, sent |-> call[p].sent,
                      shown |-> call[p].shown]
        /\ DOMAIN call[p].live = Scope(p)
    BY <1>1 DEF CallOK
  <2> DEFINE queue == Tail(call[p].queue)
  <2>2. c = [call[p] EXCEPT !.queue = queue, !.at = "next", !.sent = sent,
                            !.live = live]
    OBVIOUS
  <2> HIDE DEF c, queue
  <2>3. c = [queue |-> queue, at |-> "next", live |-> live, sent |-> sent,
             shown |-> call[p].shown]
    BY <2>1, <2>2
  <2> QED
    BY <1>2, <1>4, <2>1, <2>3
<1> HIDE DEF c
<1>7. MovesHeld(p)'
  BY <1>5, <1>6 DEF MovesHeld
<1>8. /\ \A t \in Types : \/ lock'[t] = lock[t]
                          \/ lock[t] \in {None, p} /\ lock'[t] \in {None, p}
      /\ \A t \in Types : lock'[t] # p
      /\ lock' \in [Types -> Holders \cup {None}]
  BY <1>1 DEF Unlocked, IInv, Owned
<1> QED
  BY <1>3, <1>6, <1>7, <1>8, CallSteps

LEMMA TakingKeeps ==
  ASSUME IInv, NEW p \in Planners, BulkLock(p), UNCHANGED desk
  PROVE  IInv'
<1> DEFINE M == Moves(p)
           T == TypesOf(M)
<1>1. /\ call[p].at = "lock" /\ Saves(p)
      /\ UNCHANGED <<rows, room, version, fetch, scene>>
  BY DEF BulkLock, Doing, Saves
<1>2. /\ CallOK(p) /\ DOMAIN call = Planners /\ p \in Holders
      /\ lock \in [Types -> Holders \cup {None}]
  BY SaveFacts, <1>1
<1>3. CASE T = {}
  <2>1. /\ Answered(p, {}) /\ hist' = Lopsided(hist, p, TRUE)
        /\ UNCHANGED <<board, lock>>
    BY <1>3 DEF BulkLock
  <2> QED
    BY <1>1, <2>1, AnsweringKeeps
<1>4. CASE T # {} /\ \A t \in T : lock[t] = None
  <2> DEFINE at == IF \A m \in M : Found(m) THEN "read" ELSE "gone"
             c == [call[p] EXCEPT !.at = at]
  <2>1. /\ lock' = [t \in Types |-> IF t \in T THEN p ELSE lock[t]]
        /\ call' = [call EXCEPT ![p].at = at]
        /\ UNCHANGED <<board, hist>>
    BY <1>4 DEF BulkLock
  <2>2. at \in {"read", "gone"} /\ (at = "read" => \A m \in M : Found(m))
    OBVIOUS
  <2> HIDE DEF at, M, T
  <2>3. call' = [call EXCEPT ![p] = c] /\ call'[p] = c
    BY <1>2, <2>1
  <2>4. /\ c = [queue |-> c.queue, at |-> c.at, live |-> c.live, sent |-> c.sent,
                shown |-> c.shown]
        /\ c.at = at /\ c.live = call[p].live /\ c.sent = call[p].sent
        /\ c.queue = call[p].queue
        /\ DOMAIN c.live = Scope(p) /\ c.sent \in BOOLEAN
    BY <1>1, <1>2 DEF CallOK
  <2> HIDE DEF c
  <2>5. MovesHeld(p)'
    <3> SUFFICES ASSUME at = "read", NEW m \in M
                 PROVE  Found(m)' /\ lock'[OrderType[OrderOf(m)']] = p
      BY <2>2, <2>3, <2>4 DEF MovesHeld, Moves, M
    <3>1. Found(m)
      BY <2>2
    <3>2. Found(m)' /\ OrderOf(m)' = OrderOf(m)
      BY <1>1, <3>1 DEF Found, OrderOf
    <3>3. OrderType[OrderOf(m)] \in T /\ OrderType[OrderOf(m)] \in Types
      BY <3>1, PlanAssumption DEF T, TypesOf, Found
    <3> QED
      BY <2>1, <3>2, <3>3
  <2>6. /\ \A t \in Types : \/ lock'[t] = lock[t]
                            \/ lock[t] \in {None, p} /\ lock'[t] \in {None, p}
        /\ lock' \in [Types -> Holders \cup {None}]
    BY <1>2, <1>4, <2>1
  <2> QED
    BY <1>1, <2>1, <2>2, <2>3, <2>4, <2>5, <2>6, CallSteps
<1>5. CASE T # {} /\ ~ \A t \in T : lock[t] = None
  <2>1. Refused(p, "conflict") /\ UNCHANGED lock
    BY <1>5 DEF BulkLock
  <2> QED
    BY <1>1, <2>1, RefusingKeeps
<1> QED
  BY <1>3, <1>4, <1>5

LEMMA ReadingKeeps ==
  ASSUME IInv, NEW p \in Planners, BulkRead(p), UNCHANGED desk
  PROVE  IInv'
<1>1. /\ call[p].at \in {"read", "gone"} /\ Saves(p)
      /\ UNCHANGED <<rows, room, version, fetch, scene>>
  BY DEF BulkRead, Doing, Saves
<1>2. /\ CallOK(p) /\ DOMAIN call = Planners
      /\ lock \in [Types -> Holders \cup {None}]
  BY SaveFacts, <1>1
<1>3. CASE Refused(p, "error") /\ lock' = Unlocked(p)
  BY <1>1, <1>3, RefusingKeeps
<1>4. CASE /\ Answered(p, {}) /\ lock' = Unlocked(p)
           /\ hist' = Lopsided(hist, p, TRUE) /\ UNCHANGED board
  BY <1>1, <1>4, AnsweringKeeps
<1>5. CASE /\ call[p].at # "gone" /\ call' = [call EXCEPT ![p].at = "write"]
           /\ UNCHANGED <<board, lock, hist>>
  <2> DEFINE c == [call[p] EXCEPT !.at = "write"]
  <2>1. call' = [call EXCEPT ![p] = c] /\ call'[p] = c
    BY <1>2, <1>5
  <2>2. /\ c = [queue |-> c.queue, at |-> c.at, live |-> c.live, sent |-> c.sent,
                shown |-> c.shown]
        /\ c.at = "write" /\ c.live = call[p].live /\ c.sent = call[p].sent
        /\ c.queue = call[p].queue
        /\ DOMAIN c.live = Scope(p) /\ c.sent \in BOOLEAN
    BY <1>1, <1>2 DEF CallOK
  <2> HIDE DEF c
  <2>3. MovesHeld(p)'
    <3>1. \A m \in Moves(p) : Found(m) /\ lock[OrderType[OrderOf(m)]] = p
      BY <1>1, <1>5 DEF IInv, PageOK, MovesHeld
    <3>2. Moves(p)' = Moves(p)
      BY <2>1, <2>2 DEF Moves
    <3> QED
      BY <1>1, <1>5, <3>1, <3>2 DEF MovesHeld, Found, OrderOf
  <2> QED
    BY <1>1, <1>2, <1>5, <2>1, <2>2, <2>3, CallSteps
<1> QED
  BY <1>3, <1>4, <1>5 DEF BulkRead
LEMMA MarkedHistory ==
  ASSUME NEW h \in Histories, NEW T, NEW n \in Nat
  PROVE  Marked(h, T, n) =
           [marks |-> [t \in Types |-> h.marks[t] + (IF t \in T THEN n ELSE 0)],
            astray |-> h.astray, lopsided |-> h.lopsided, silent |-> h.silent,
            asks |-> h.asks, edits |-> h.edits, saves |-> h.saves,
            fetches |-> h.fetches]
         /\ Marked(h, T, n) \in Histories
<1> DEFINE marks == [t \in Types |-> h.marks[t] + (IF t \in T THEN n ELSE 0)]
<1>1. Marked(h, T, n) = [h EXCEPT !.marks = marks]
  BY Zenon DEF Marked
<1>2. marks \in [Types -> Nat]
  BY DEF Histories
<1> HIDE DEF marks
<1>3. Marked(h, T, n) =
           [marks |-> marks,
            astray |-> h.astray, lopsided |-> h.lopsided, silent |-> h.silent,
            asks |-> h.asks, edits |-> h.edits, saves |-> h.saves,
            fetches |-> h.fetches]
  BY <1>1 DEF Histories
<1>4. Marked(h, T, n) \in Histories
  BY <1>2, <1>3 DEF Histories
<1> QED
  BY <1>3, <1>4 DEF marks

(* A step of a save that writes to the types T: the page counts with it.   *)
LEMMA WriteSteps ==
  ASSUME IInv, NEW p \in Planners, Saves(p), StepOf(p, p),
         fetch'[p] = fetch[p], ask'[p] = ask[p],
         NEW T, NEW n \in Nat, board'[p] = Seen(board[p], T, n),
         hist'.marks = Marked(hist, T, n).marks, hist'.silent = hist.silent,
         p \in hist.lopsided => p \in hist'.lopsided,
         NEW c, call'[p] = c,
         c = [queue |-> c.queue, at |-> c.at, live |-> c.live, sent |-> c.sent,
              shown |-> c.shown],
         c.at # "idle", DOMAIN c.live = Scope(p), c.sent \in BOOLEAN,
         p \notin hist'.lopsided =>
           /\ c.live \in [Scope(p) -> Nat]
           /\ \A t \in Scope(p) :
                c.live[t] - call[p].live[t] = version'[t] - version[t]
           /\ ~c.sent => c.live = call[p].live /\ ~call[p].sent,
         MovesHeld(p)',
         \A t \in Types : lock'[t] = p => c.at \in {"read", "gone", "write", "bump"}
  PROVE  IInv'
<1>1. /\ BoardShape(board[p]) /\ board[p].base \in [Types -> Nat]
      /\ hist.marks \in [Types -> Nat] /\ Scope(p) \subseteq Types
      /\ board[p].edit /\ Ver(p) = call[p].live /\ hist \in Histories
  BY SaveFacts
<1>0. hist'.marks = [t \in Types |-> hist.marks[t] + (IF t \in T THEN n ELSE 0)]
  BY <1>1, MarkedHistory
<1> DEFINE base == [t \in Types |-> board[p].base[t] + (IF t \in T THEN n ELSE 0)]
<1>2. base \in [Types -> Nat]
  BY <1>1
<1>3. \A t \in Types : base[t] - board[p].base[t] = hist'.marks[t] - hist.marks[t]
  <2> SUFFICES ASSUME NEW t \in Types
               PROVE  base[t] - board[p].base[t] = hist'.marks[t] - hist.marks[t]
    OBVIOUS
  <2> DEFINE d == IF t \in T THEN n ELSE 0
  <2>1. /\ base[t] = board[p].base[t] + d /\ hist'.marks[t] = hist.marks[t] + d
        /\ board[p].base[t] \in Nat /\ hist.marks[t] \in Nat /\ d \in Nat
    BY <1>0, <1>1
  <2> HIDE DEF base, d
  <2> QED
    BY ONLY <2>1, SMT
<1>4. board'[p] = [board[p] EXCEPT !.base = base]
  BY Zenon DEF Seen
<1> HIDE DEF base
<1>5. /\ BoardShape(board'[p]) /\ board'[p].data = board[p].data
      /\ board'[p].tab = board[p].tab /\ board'[p].shown = board[p].shown
      /\ board'[p].edit = board[p].edit /\ board'[p].ref = board[p].ref
      /\ board'[p].base = base /\ board'[p].torn = board[p].torn
  BY <1>1, <1>4 DEF BoardShape
<1>6. Saves(p)' /\ Scope(p)' = Scope(p)
  BY DEF StepOf, Saves, Scope, Group
<1>7. CallOK(p)'
  BY <1>6 DEF CallOK
<1>8. EditTracks(p)'
  <2>1. ASSUME p \notin hist'.lopsided
        PROVE  /\ Ver(p)' \in [Scope(p) -> Nat]
               /\ \A t \in Types :
                    /\ board'[p].base[t] - board[p].base[t]
                         = hist'.marks[t] - hist.marks[t]
                    /\ t \in Scope(p) =>
                         Ver(p)'[t] - Ver(p)[t] = version'[t] - version[t]
               /\ Saves(p)' /\ ~call'[p].sent => call'[p].live = board'[p].ref
    <3>1. Ver(p)' = c.live
      BY <1>6 DEF Ver
    <3>2. ~call[p].sent => call[p].live = board[p].ref
      BY <1>1, <2>1 DEF IInv, PageOK, EditTracks
    <3> QED
      BY <1>1, <1>3, <1>5, <2>1, <3>1, <3>2
  <2> QED
    BY <1>1, <1>2, <1>5, <2>1, OwnTracks
<1> QED
  BY <1>1, <1>2, <1>5, <1>6, <1>7, <1>8, SaveSteps

LEMMA FlaggingKeeps ==
  ASSUME IInv, NEW p \in Planners, FlagCall(p), UNCHANGED desk
  PROVE  IInv'
<1> DEFINE f == Head(call[p].queue)
           t == OrderType[f.order]
           s == call[p].shown[f.order]
<1>1. /\ call[p].at = "next" /\ Saves(p) /\ f \in FlagRequest
      /\ UNCHANGED <<room, lock, fetch, scene>> /\ ask' = ask
  BY DEF FlagCall, Doing, Saves, desk
<1>2. CASE /\ UNCHANGED <<rows, version>>
           /\ Refused(p, "error") \/ Refused(p, "conflict")
  BY <1>1, <1>2, RefusingKeeps
<1>3. CASE /\ Group(p) = t
           /\ ~(lock[t] # None
                \/ (s \in DOMAIN call[p].live /\ call[p].live[s] # version[t]))
  <2> DEFINE live == CountedFlag(call[p], f.order)
             queue == Tail(call[p].queue)
             c == [call[p] EXCEPT !.queue = queue, !.sent = TRUE, !.live = live]
  <2>1. /\ DOMAIN board = Planners /\ DOMAIN call = Planners
        /\ hist \in Histories /\ hist.marks \in [Types -> Nat]
        /\ version \in [Types -> Nat] /\ CallOK(p) /\ Scope(p) \subseteq Types
        /\ DOMAIN call[p].live = Scope(p) /\ Ver(p) = call[p].live
        /\ board[p].edit
    BY <1>1, SaveFacts
  <2>2. t \in Types
    BY <1>1, PlanAssumption DEF FlagRequest
  <2>3. /\ rows' = [rows EXCEPT ![f.field][f.order] = f.value]
        /\ version' = [version EXCEPT ![t] = @ + 1]
        /\ board' = [board EXCEPT ![p] = Seen(board[p], {t}, 2)]
        /\ hist' = Lopsided(Marked(hist, {t}, 2), p, s # t)
    BY <1>3 DEF FlagCall
  <2>4. call' = [call EXCEPT ![p] = c]
    <3>1. call' = [call EXCEPT ![p] =
                    [call[p] EXCEPT !.queue = Tail(@), !.sent = TRUE,
                                    !.live = CountedFlag(call[p], f.order)]]
      BY <1>3 DEF FlagCall
    <3> QED
      BY <3>1
  <2>5. /\ live = [x \in Scope(p) |-> call[p].live[x] + (IF s = x THEN 1 ELSE 0)]
        /\ DOMAIN live = Scope(p)
    BY <2>1 DEF CountedFlag
  <2>6. c = [queue |-> queue, at |-> "next", live |-> live, sent |-> TRUE,
             shown |-> call[p].shown]
    <3>1. call[p] = [queue |-> call[p].queue, at |-> call[p].at,
                     live |-> call[p].live, sent |-> call[p].sent,
                     shown |-> call[p].shown]
      BY <1>1, <2>1 DEF CallOK
    <3>2. c = [call[p] EXCEPT !.queue = queue, !.sent = TRUE, !.live = live]
      OBVIOUS
    <3>3. call[p].at = "next"
      BY <1>1
    <3> HIDE DEF live, queue, c
    <3> QED
      BY ONLY <3>1, <3>2, <3>3
  <2> HIDE DEF c, live, queue
  <2>7. /\ DOMAIN board' = Planners /\ DOMAIN call' = Planners
        /\ call'[p] = c /\ board'[p] = Seen(board[p], {t}, 2)
        /\ \A q \in Planners \ {p} : call'[q] = call[q] /\ board'[q] = board[q]
    BY <2>1, <2>3, <2>4
  <2>8. /\ hist' \in Histories
        /\ hist'.marks = [x \in Types |-> hist.marks[x] + (IF x \in {t} THEN 2 ELSE 0)]
        /\ hist'.silent = hist.silent /\ hist.lopsided \subseteq hist'.lopsided
        /\ s # t => p \in hist'.lopsided
        /\ hist'.marks = Marked(hist, {t}, 2).marks
    <3> DEFINE marks == [x \in Types |-> hist.marks[x] + (IF x \in {t} THEN 2 ELSE 0)]
               h == Marked(hist, {t}, 2)
    <3>1. /\ h = [marks |-> marks, astray |-> hist.astray,
                  lopsided |-> hist.lopsided, silent |-> hist.silent,
                  asks |-> hist.asks, edits |-> hist.edits, saves |-> hist.saves,
                  fetches |-> hist.fetches]
          /\ h \in Histories
      BY <2>1, MarkedHistory
    <3>2. hist' = [h EXCEPT !.lopsided = IF s # t THEN h.lopsided \cup {p} ELSE h.lopsided]
      BY <2>3 DEF Lopsided
    <3> HIDE DEF marks, h
    <3>3. /\ hist' \in Histories /\ hist'.marks = marks
          /\ hist'.silent = hist.silent /\ hist.lopsided \subseteq hist'.lopsided
          /\ s # t => p \in hist'.lopsided
          /\ h.marks = marks
      BY <3>1, <3>2 DEF Histories
    <3> QED
      BY <3>3 DEF marks, h
  <2>9. "piece" \in DOMAIN rows /\ "piece" \in DOMAIN rows' /\ rows'.piece = rows.piece
    BY <1>1, <2>3 DEF IInv, TablesOK, FlagRequest
  <2> HIDE DEF t, s, f
  <2>10. /\ version' \in [Types -> Nat] /\ version'[t] = version[t] + 1
         /\ \A x \in Types \ {t} : version'[x] = version[x]
    BY <2>1, <2>2, <2>3
  <2>11. TablesOK'
    BY <1>1, <2>7, <2>8, <2>9, <2>10 DEF IInv, TablesOK
  <2>12. Grows(p)
    <3> SUFFICES ASSUME NEW x \in Types
                 PROVE  /\ hist.marks[x] <= hist'.marks[x] /\ version[x] <= version'[x]
                        /\ version'[x] # version[x] => hist'.marks[x] # hist.marks[x]
                        /\ version'[x] = version[x] =>
                             \/ /\ hist'.marks[x] = hist.marks[x]
                                /\ x \in Ahead => x \in Ahead' /\ lock'[x] = lock[x]
                             \/ x \in hist'.silent
                             \/ x \in Ahead' /\ lock'[x] = p
      BY <2>8 DEF Grows
    <3>1. hist.marks[x] \in Nat /\ version[x] \in Nat
      BY <2>1
    <3>2. CASE x = t
      BY <2>8, <2>10, <3>1, <3>2
    <3>3. CASE x # t
      <4>1. hist'.marks[x] = hist.marks[x] /\ version'[x] = version[x]
        BY <2>8, <2>10, <3>1, <3>3
      <4>2. \A q \in Planners :
              /\ lock[x] = q /\ call[q].at = "bump" => call'[q] = call[q]
              /\ lock[x] = Engine(q) /\ ask[q].act.at = "bump" =>
                   ask'[q].act = ask[q].act
        BY <1>1, <2>7
      <4> QED
        BY <1>1, <3>1, <4>1, <4>2, AheadStays
    <3> QED
      BY <3>2, <3>3
  <2>13. StepOf(p, p)
    <3>1. \A m : Found(m)' = Found(m) /\ OrderOf(m)' = OrderOf(m)
      BY <2>9 DEF Found, OrderOf
    <3> QED
      BY <1>1, <2>7, <2>8, <2>11, <2>12, <3>1 DEF StepOf
  <2>14. ASSUME p \notin hist'.lopsided
         PROVE  /\ live \in [Scope(p) -> Nat]
                /\ \A x \in Scope(p) :
                     live[x] - call[p].live[x] = version'[x] - version[x]
                /\ ~c.sent => live = call[p].live /\ ~call[p].sent
    <3>1. s = t /\ p \notin hist.lopsided
      BY <2>8, <2>14
    <3>2. call[p].live \in [Scope(p) -> Nat]
      BY <2>1, <3>1 DEF IInv, PageOK, EditTracks
    <3>3. ASSUME NEW x \in Scope(p)
          PROVE  live[x] - call[p].live[x] = version'[x] - version[x]
      <4> DEFINE d == IF x = t THEN 1 ELSE 0
      <4>1. /\ call[p].live[x] \in Nat /\ version[x] \in Nat /\ d \in Nat
            /\ live[x] = call[p].live[x] + d /\ version'[x] = version[x] + d
        BY <2>1, <2>5, <2>10, <3>1, <3>2
      <4> HIDE DEF d
      <4> QED
        BY ONLY <4>1, SMT
    <3> QED
      BY <2>5, <2>6, <3>2, <3>3
  <2>15. MovesHeld(p)'
    BY <2>6, <2>7 DEF MovesHeld
  <2>16. \A x \in Types : lock'[x] # p
    BY <1>1 DEF IInv, Owned
  <2>17. /\ c = [queue |-> c.queue, at |-> c.at, live |-> c.live, sent |-> c.sent,
                 shown |-> c.shown]
         /\ c.at = "next" /\ c.live = live /\ c.sent = TRUE
    BY <2>6
  <2>18. p \notin hist'.lopsided =>
           /\ c.live \in [Scope(p) -> Nat]
           /\ \A x \in Scope(p) :
                c.live[x] - call[p].live[x] = version'[x] - version[x]
           /\ ~c.sent => c.live = call[p].live /\ ~call[p].sent
    BY <2>14, <2>17
  <2>19. /\ DOMAIN c.live = Scope(p) /\ c.sent \in BOOLEAN /\ c.at # "idle"
         /\ fetch'[p] = fetch[p] /\ ask'[p] = ask[p]
         /\ p \in hist.lopsided => p \in hist'.lopsided
         /\ \A x \in Types : lock'[x] = p =>
              c.at \in {"read", "gone", "write", "bump"}
    BY <1>1, <2>5, <2>8, <2>16, <2>17
  <2>20. 2 \in Nat
    OBVIOUS
  <2> QED
    BY <1>1, <2>7, <2>8, <2>13, <2>15, <2>17, <2>18, <2>19, <2>20, WriteSteps
<1> QED
  BY <1>2, <1>3 DEF FlagCall
(* A save leaves alone the work it has no move for.                        *)
LEMMA MovedKeeps ==
  ASSUME NEW p \in Planners, BulkWrite(p), "piece" \in DOMAIN rows
  PROVE  /\ "piece" \in DOMAIN rows'
         /\ \A a \in Pieces : rows.piece[a] # None
                              /\ (\A m \in Moves(p) : m.piece # a) =>
              rows'.piece[a] = rows.piece[a]
<1> DEFINE M == {m \in Moves(p) : ~InPlace(m)}
           moved(a) == {m \in M : m.piece = a}
           new == SetToSeq(Placed(M))
           free == {a \in Pieces : rows.piece[a] = None}
           at(a) == {k \in DOMAIN new :
                       a \in free /\ k = Cardinality({b \in free : b <= a})}
           piece == [a \in Pieces |->
              IF moved(a) # {}
              THEN [rows.piece[a] EXCEPT !.cell = (CHOOSE m \in moved(a) : TRUE).cell]
              ELSE IF at(a) # {}
              THEN LET m == new[CHOOSE k \in at(a) : TRUE] IN
                   [order |-> m.order, cell |-> m.cell, qty |-> m.qty]
              ELSE rows.piece[a]]
           status == [o \in Orders |-> IF PlacedFor(M, o) # {} THEN "SCHEDULED"
                                       ELSE rows.status[o]]
<1>1. rows' = [rows EXCEPT !.piece = piece, !.status = status]
  BY DEF BulkWrite
<1>2. \A a \in Pieces : rows.piece[a] # None
                        /\ (\A m \in Moves(p) : m.piece # a) =>
                          piece[a] = rows.piece[a]
  <2> SUFFICES ASSUME NEW a \in Pieces, rows.piece[a] # None,
                      \A m \in Moves(p) : m.piece # a
               PROVE  piece[a] = rows.piece[a]
    OBVIOUS
  <2>1. moved(a) = {} /\ a \notin free
    OBVIOUS
  <2> HIDE DEF M, new, free
  <2>2. at(a) = {}
    BY <2>1
  <2> HIDE DEF at, moved
  <2> QED
    BY <2>1, <2>2
<1> HIDE DEF piece, status
<1> QED
  BY <1>1, <1>2

LEMMA WritingKeeps ==
  ASSUME IInv, NEW p \in Planners, BulkWrite(p), UNCHANGED desk
  PROVE  IInv'
<1> DEFINE M == {m \in Moves(p) : ~InPlace(m)}
           T == TypesOf(M)
           c == [call[p] EXCEPT !.at = "bump"]
<1>1. /\ call[p].at = "write" /\ Saves(p) /\ ask' = ask
      /\ UNCHANGED <<version, lock, fetch, scene>>
      /\ board' = [board EXCEPT ![p] = Seen(board[p], T, 1)]
      /\ call' = [call EXCEPT ![p] = c]
  BY DEF BulkWrite, Doing, Saves, desk
<1>2. /\ DOMAIN board = Planners /\ DOMAIN call = Planners
      /\ hist \in Histories /\ hist.marks \in [Types -> Nat]
      /\ version \in [Types -> Nat] /\ Scope(p) \subseteq Types
      /\ CallOK(p) /\ Ver(p) = call[p].live /\ board[p].edit
  BY <1>1, SaveFacts
<1>3. /\ c = [queue |-> c.queue, at |-> c.at, live |-> c.live, sent |-> c.sent,
              shown |-> c.shown]
      /\ c.at = "bump" /\ c.live = call[p].live /\ c.sent = call[p].sent
      /\ DOMAIN c.live = Scope(p) /\ c.sent \in BOOLEAN
  BY <1>1, <1>2 DEF CallOK
<1> HIDE DEF c
<1>4. \A m \in Moves(p) : Found(m) /\ lock[OrderType[OrderOf(m)]] = p
  BY <1>1 DEF IInv, PageOK, MovesHeld
<1>5. \A t \in T : t \in Types /\ lock[t] = p
  BY <1>4, PlanAssumption DEF TypesOf, Found
<1>6. /\ hist' \in Histories
      /\ hist'.marks = [t \in Types |-> hist.marks[t] + (IF t \in T THEN 1 ELSE 0)]
      /\ hist'.marks = Marked(hist, T, 1).marks
      /\ hist'.silent = hist.silent /\ hist'.lopsided = hist.lopsided
  <2> DEFINE h == Marked(hist, T, 1)
             marks == [t \in Types |-> hist.marks[t] + (IF t \in T THEN 1 ELSE 0)]
             touched == {x \in Cells : \/ \E m \in M : m.cell = x
                                       \/ \E m \in M \ Placed(M) :
                                            rows.piece[m.piece].cell = x}
             more == {x \in touched : FactoryType[x[1]] \notin T}
  <2>1. /\ h = [marks |-> marks, astray |-> hist.astray,
                lopsided |-> hist.lopsided, silent |-> hist.silent,
                asks |-> hist.asks, edits |-> hist.edits, saves |-> hist.saves,
                fetches |-> hist.fetches]
        /\ h \in Histories
    BY <1>2, MarkedHistory
  <2>2. hist' = [h EXCEPT !.astray = h.astray \cup more]
    BY DEF BulkWrite
  <2>3. more \subseteq Cells
    OBVIOUS
  <2> HIDE DEF h, marks, more, M
  <2>4. /\ hist' \in Histories /\ hist'.marks = marks /\ h.marks = marks
        /\ hist'.silent = hist.silent /\ hist'.lopsided = hist.lopsided
    BY <2>1, <2>2, <2>3 DEF Histories
  <2> QED
    BY <2>4 DEF h, marks
<1> HIDE DEF T, M
<1>7. /\ DOMAIN board' = Planners /\ DOMAIN call' = Planners
      /\ call'[p] = c /\ board'[p] = Seen(board[p], T, 1)
      /\ \A q \in Planners \ {p} : call'[q] = call[q] /\ board'[q] = board[q]
  BY <1>1, <1>2
<1>8. "piece" \in DOMAIN rows
  BY DEF IInv, TablesOK
<1>9. TablesOK'
  <2>1. "piece" \in DOMAIN rows'
    BY <1>8, MovedKeeps
  <2> QED
    BY <1>1, <1>6, <1>7, <2>1 DEF IInv, TablesOK
<1>10. \A t \in T : t \in Ahead'
  <2> SUFFICES ASSUME NEW t \in T
               PROVE  t \in Ahead'
    OBVIOUS
  <2>1. \E q \in Planners : lock'[t] = q /\ call'[q].at = "bump"
    BY <1>1, <1>3, <1>5, <1>7
  <2> QED
    BY <1>5, <2>1 DEF Ahead
<1>11. Grows(p)
  <2> SUFFICES ASSUME NEW t \in Types
               PROVE  /\ hist.marks[t] <= hist'.marks[t] /\ version[t] <= version'[t]
                      /\ version'[t] # version[t] => hist'.marks[t] # hist.marks[t]
                      /\ version'[t] = version[t] =>
                           \/ /\ hist'.marks[t] = hist.marks[t]
                              /\ t \in Ahead => t \in Ahead' /\ lock'[t] = lock[t]
                           \/ t \in hist'.silent
                           \/ t \in Ahead' /\ lock'[t] = p
    BY <1>6 DEF Grows
  <2>1. hist.marks[t] \in Nat /\ version[t] \in Nat /\ version'[t] = version[t]
    BY <1>1, <1>2
  <2>2. CASE t \in T
    BY <1>1, <1>5, <1>6, <1>10, <2>1, <2>2
  <2>3. CASE t \notin T
    <3>1. hist'.marks[t] = hist.marks[t]
      BY <1>6, <2>1, <2>3
    <3>2. \A q \in Planners :
            /\ lock[t] = q /\ call[q].at = "bump" => call'[q] = call[q]
            /\ lock[t] = Engine(q) /\ ask[q].act.at = "bump" =>
                 ask'[q].act = ask[q].act
      BY <1>1, <1>7
    <3> QED
      BY <1>1, <2>1, <3>1, <3>2, AheadStays
  <2> QED
    BY <2>2, <2>3
<1>12. \A q \in Planners : \A m :
         Found(m) /\ q # p /\ lock[OrderType[OrderOf(m)]] = q =>
           Found(m)' /\ OrderOf(m)' = OrderOf(m)
  <2> SUFFICES ASSUME NEW q \in Planners, NEW m, Found(m), q # p,
                      lock[OrderType[OrderOf(m)]] = q
               PROVE  Found(m)' /\ OrderOf(m)' = OrderOf(m)
    OBVIOUS
  <2>1. CASE m.piece = None
    BY <2>1 DEF Found, OrderOf
  <2>2. CASE m.piece # None
    <3>1. /\ m.piece \in Pieces /\ rows.piece[m.piece] # None
          /\ lock[OrderType[rows.piece[m.piece].order]] = q
      BY <2>2 DEF Found, OrderOf
    <3>2. \A x \in Moves(p) : x.piece # m.piece
      <4> SUFFICES ASSUME NEW x \in Moves(p), x.piece = m.piece
                   PROVE  FALSE
        OBVIOUS
      <4>1. lock[OrderType[rows.piece[m.piece].order]] = p
        BY <1>4, <2>2 DEF OrderOf
      <4> QED
        BY <3>1, <4>1
    <3>3. rows'.piece[m.piece] = rows.piece[m.piece]
      BY <1>8, <3>1, <3>2, MovedKeeps
    <3> QED
      BY <3>1, <3>3 DEF Found, OrderOf
  <2> QED
    BY <2>1, <2>2
<1>13. StepOf(p, p)
  BY <1>1, <1>6, <1>7, <1>9, <1>11, <1>12 DEF StepOf
<1>14. p \notin hist'.lopsided =>
           /\ c.live \in [Scope(p) -> Nat]
           /\ \A t \in Scope(p) :
                c.live[t] - call[p].live[t] = version'[t] - version[t]
           /\ ~c.sent => c.live = call[p].live /\ ~call[p].sent
  <2> SUFFICES ASSUME p \notin hist'.lopsided
               PROVE  /\ c.live \in [Scope(p) -> Nat]
                      /\ \A t \in Scope(p) :
                           c.live[t] - call[p].live[t] = version'[t] - version[t]
    BY <1>3
  <2>1. call[p].live \in [Scope(p) -> Nat]
    BY <1>2, <1>6 DEF IInv, PageOK, EditTracks
  <2> QED
    BY <1>1, <1>2, <1>3, <2>1
<1>15. MovesHeld(p)'
  BY <1>3, <1>7 DEF MovesHeld
<1>16. /\ c.at # "idle" /\ fetch'[p] = fetch[p] /\ ask'[p] = ask[p]
       /\ p \in hist.lopsided => p \in hist'.lopsided
       /\ \A t \in Types : lock'[t] = p =>
            c.at \in {"read", "gone", "write", "bump"}
       /\ 1 \in Nat
  BY <1>1, <1>3, <1>6
<1> QED
  BY <1>1, <1>3, <1>6, <1>7, <1>13, <1>14, <1>15, <1>16, WriteSteps

LEMMA FinishingKeeps ==
  ASSUME IInv, NEW p \in Planners, BulkBump(p), UNCHANGED desk
  PROVE  IInv'
<1> DEFINE T == {t \in Types : lock[t] = p}
           M == Moves(p)
           live == CountedMoves(call[p], M)
           queue == Tail(call[p].queue)
           sent == call[p].sent \/ T # {}
           c == [call[p] EXCEPT !.queue = queue, !.at = "next", !.sent = sent,
                                !.live = live]
<1>1. /\ call[p].at = "bump" /\ Saves(p) /\ ask' = ask
      /\ UNCHANGED <<rows, room, fetch, scene>>
      /\ version' = [t \in Types |-> version[t] + (IF t \in T THEN 1 ELSE 0)]
      /\ lock' = Unlocked(p)
      /\ board' = [board EXCEPT ![p] = Seen(board[p], T, 1)]
      /\ hist' = Lopsided(Marked(hist, T, 1), p, Uneven(M, T))
  BY DEF BulkBump, Doing, Saves, desk
<1>2. call' = [call EXCEPT ![p] = c]
  BY Zenon DEF BulkBump, Answered
<1>3. /\ DOMAIN board = Planners /\ DOMAIN call = Planners
      /\ hist \in Histories /\ hist.marks \in [Types -> Nat]
      /\ version \in [Types -> Nat] /\ Scope(p) \subseteq Types
      /\ lock \in [Types -> Holders \cup {None}] /\ p # None
      /\ CallOK(p) /\ Ver(p) = call[p].live /\ board[p].edit
      /\ DOMAIN call[p].live = Scope(p)
  BY <1>1, SaveFacts
<1>4. /\ live = [t \in Scope(p) |->
            call[p].live[t] + Cardinality({m \in M : FactoryType[m.cell[1]] = t})]
      /\ DOMAIN live = Scope(p)
  BY <1>3 DEF CountedMoves
<1>5. sent \in BOOLEAN /\ (~sent => T = {} /\ ~call[p].sent)
  OBVIOUS
<1>6. c = [queue |-> queue, at |-> "next", live |-> live, sent |-> sent,
           shown |-> call[p].shown]
  <2>1. call[p] = [queue |-> call[p].queue, at |-> call[p].at,
                   live |-> call[p].live, sent |-> call[p].sent,
                   shown |-> call[p].shown]
    BY <1>1, <1>3 DEF CallOK
  <2>2. c = [call[p] EXCEPT !.queue = queue, !.at = "next", !.sent = sent,
                            !.live = live]
    OBVIOUS
  <2> HIDE DEF live, queue, sent, c
  <2> QED
    BY ONLY <2>1, <2>2
<1> HIDE DEF live, queue, sent, c
<1>7. /\ DOMAIN board' = Planners /\ DOMAIN call' = Planners
      /\ call'[p] = c /\ board'[p] = Seen(board[p], T, 1)
      /\ \A q \in Planners \ {p} : call'[q] = call[q] /\ board'[q] = board[q]
  BY <1>1, <1>2, <1>3
<1>8. \A t \in Types : /\ t \in T <=> lock[t] = p
                       /\ t \notin T => lock'[t] = lock[t]
                       /\ t \in T => lock'[t] = None
  BY <1>1 DEF Unlocked
<1> HIDE DEF T
<1>9. /\ hist' \in Histories
      /\ hist'.marks = [t \in Types |-> hist.marks[t] + (IF t \in T THEN 1 ELSE 0)]
      /\ hist'.marks = Marked(hist, T, 1).marks
      /\ hist'.silent = hist.silent /\ hist.lopsided \subseteq hist'.lopsided
      /\ p \notin hist'.lopsided => ~Uneven(M, T)
  <2> DEFINE h == Marked(hist, T, 1)
             marks == [t \in Types |-> hist.marks[t] + (IF t \in T THEN 1 ELSE 0)]
  <2>1. /\ h = [marks |-> marks, astray |-> hist.astray,
                lopsided |-> hist.lopsided, silent |-> hist.silent,
                asks |-> hist.asks, edits |-> hist.edits, saves |-> hist.saves,
                fetches |-> hist.fetches]
        /\ h \in Histories
    BY <1>3, MarkedHistory
  <2>2. hist' = [h EXCEPT !.lopsided = IF Uneven(M, T) THEN h.lopsided \cup {p}
                                       ELSE h.lopsided]
    BY <1>1 DEF Lopsided
  <2> HIDE DEF h, marks, M
  <2>3. /\ hist' \in Histories /\ hist'.marks = marks /\ h.marks = marks
        /\ hist'.silent = hist.silent /\ hist.lopsided \subseteq hist'.lopsided
        /\ p \notin hist'.lopsided => ~Uneven(M, T)
    BY <2>1, <2>2 DEF Histories
  <2> QED
    BY <2>3 DEF h, marks
<1>10. version' \in [Types -> Nat] /\ lock' \in [Types -> Holders \cup {None}]
  BY <1>1, <1>3 DEF Unlocked
<1>11. TablesOK'
  BY <1>1, <1>7, <1>9, <1>10 DEF IInv, TablesOK
<1>12. Grows(p)
  <2> SUFFICES ASSUME NEW t \in Types
               PROVE  /\ hist.marks[t] <= hist'.marks[t] /\ version[t] <= version'[t]
                      /\ version'[t] # version[t] => hist'.marks[t] # hist.marks[t]
                      /\ version'[t] = version[t] =>
                           \/ /\ hist'.marks[t] = hist.marks[t]
                              /\ t \in Ahead => t \in Ahead' /\ lock'[t] = lock[t]
                           \/ t \in hist'.silent
                           \/ t \in Ahead' /\ lock'[t] = p
    BY <1>9 DEF Grows
  <2>1. hist.marks[t] \in Nat /\ version[t] \in Nat
    BY <1>3
  <2>2. CASE t \in T
    BY <1>1, <1>9, <2>1, <2>2
  <2>3. CASE t \notin T
    <3>1. hist'.marks[t] = hist.marks[t] /\ version'[t] = version[t]
      BY <1>1, <1>9, <2>1, <2>3
    <3>2. \A q \in Planners :
            /\ lock[t] = q /\ call[q].at = "bump" => call'[q] = call[q]
            /\ lock[t] = Engine(q) /\ ask[q].act.at = "bump" =>
                 ask'[q].act = ask[q].act
      BY <1>1, <1>7, <1>8, <2>3
    <3> QED
      BY <1>8, <2>1, <2>3, <3>1, <3>2, AheadStays
  <2> QED
    BY <2>2, <2>3
<1>13. StepOf(p, p)
  <2>1. \A m : Found(m)' = Found(m) /\ OrderOf(m)' = OrderOf(m)
    BY <1>1 DEF Found, OrderOf
  <2> QED
    BY <1>1, <1>7, <1>8, <1>9, <1>11, <1>12, <2>1 DEF StepOf
<1>14. /\ c = [queue |-> c.queue, at |-> c.at, live |-> c.live, sent |-> c.sent,
               shown |-> c.shown]
       /\ c.at = "next" /\ c.live = live /\ c.sent = sent
       /\ DOMAIN c.live = Scope(p) /\ c.sent \in BOOLEAN
  BY <1>4, <1>5, <1>6
<1>15. p \notin hist'.lopsided =>
           /\ c.live \in [Scope(p) -> Nat]
           /\ \A t \in Scope(p) :
                c.live[t] - call[p].live[t] = version'[t] - version[t]
           /\ ~c.sent => c.live = call[p].live /\ ~call[p].sent
  <2> SUFFICES ASSUME p \notin hist'.lopsided
               PROVE  /\ live \in [Scope(p) -> Nat]
                      /\ \A t \in Scope(p) :
                           live[t] - call[p].live[t] = version'[t] - version[t]
                      /\ ~sent => live = call[p].live /\ ~call[p].sent
    BY <1>14
  <2>1. call[p].live \in [Scope(p) -> Nat]
    BY <1>3, <1>9 DEF IInv, PageOK, EditTracks
  <2>2. \A t \in Types : Cardinality({m \in M : FactoryType[m.cell[1]] = t})
                           = (IF t \in T THEN 1 ELSE 0)
    BY <1>9 DEF Uneven
  <2>3. \A t \in Scope(p) : /\ live[t] = call[p].live[t] + (IF t \in T THEN 1 ELSE 0)
                            /\ call[p].live[t] \in Nat
    BY <1>3, <1>4, <2>1, <2>2
  <2>4. live = [t \in Scope(p) |-> live[t]]
    BY <1>4
  <2>5. live \in [Scope(p) -> Nat]
    BY <2>3, <2>4
  <2>6. ASSUME NEW t \in Scope(p)
        PROVE  live[t] - call[p].live[t] = version'[t] - version[t]
    <3> DEFINE d == IF t \in T THEN 1 ELSE 0
    <3>1. /\ live[t] = call[p].live[t] + d /\ call[p].live[t] \in Nat /\ d \in Nat
          /\ version'[t] = version[t] + d /\ version[t] \in Nat
      BY <1>1, <1>3, <2>3
    <3> HIDE DEF d
    <3> QED
      BY ONLY <3>1, SMT
  <2>7. ASSUME ~sent
        PROVE  live = call[p].live /\ ~call[p].sent
    <3>1. T = {} /\ ~call[p].sent
      BY <1>5, <2>7
    <3>2. \A t \in Scope(p) : live[t] = call[p].live[t]
      BY <2>3, <3>1
    <3> QED
      BY <2>1, <2>5, <3>1, <3>2
  <2> QED
    BY <2>5, <2>6, <2>7
<1>16. MovesHeld(p)'
  BY <1>7, <1>14 DEF MovesHeld
<1>17. /\ c.at # "idle" /\ fetch'[p] = fetch[p] /\ ask'[p] = ask[p]
       /\ p \in hist.lopsided => p \in hist'.lopsided
       /\ \A t \in Types : lock'[t] = p =>
            c.at \in {"read", "gone", "write", "bump"}
       /\ 1 \in Nat
  BY <1>1, <1>3, <1>8, <1>9, <1>14
<1> QED
  BY <1>1, <1>7, <1>9, <1>13, <1>14, <1>15, <1>16, <1>17, WriteSteps
(* Every edit of a page.                                                   *)
LEMMA EditsKeep ==
  ASSUME IInv, NEW p \in Planners, UNCHANGED desk,
         \/ \E a \in Pieces : Stage(p, a) \/ \E c \in Scenes[scene].targets : Drag(p, a, c)
         \/ \E o \in Orders :
              \/ UndoSplit(p, o)
              \/ \E c \in Scenes[scene].targets : Place(p, o, c)
              \/ \E parts \in Scenes[scene].parts : ConfirmSplit(p, o, parts)
              \/ \E i \in 1 .. MaxParts, c \in Scenes[scene].targets :
                   PlacePart(p, o, i, c)
              \/ \E field \in {"fixed", "prio"} : Toggle(p, field, o)
  PROVE  IInv'
<1>1. \E op, edits : Edited(p, op, edits)
  BY DEF Stage, Drag, UndoSplit, Place, ConfirmSplit, PlacePart, Toggle
<1> QED
  BY <1>1, EditingKeeps

(* Nothing but the previews that are kept changes.                         *)
LEMMA SameKept ==
  ASSUME IInv, UNCHANGED <<vars, ask>>
  PROVE  IInv'
<1>1. UNCHANGED <<rows, room, version, lock, fetch, board, call, scene, hist, ask>>
  BY DEF vars
<1>2. TablesOK' /\ Owned'
  BY <1>1 DEF IInv, TablesOK, Owned
<1>3. ASSUME NEW p \in Planners
      PROVE  PageOK(p)'
  <2>1. PageOK(p)
    BY DEF IInv
  <2>2. Scope(p)' = Scope(p) /\ Ahead' = Ahead
    BY <1>1 DEF Scope, Group, Ahead
  <2>3. BoardOK(p)' /\ CallOK(p)' /\ FetchOK(p)'
    BY <1>1, <2>1, <2>2 DEF PageOK, BoardOK, CallOK, FetchOK, Saves
  <2>4. MovesHeld(p)'
    BY <1>1, <2>1 DEF PageOK, MovesHeld, Moves, Found, OrderOf
  <2>5. AskOK(p)'
    BY <1>1, <2>1 DEF PageOK, AskOK, PreviewOK, ActOK
  <2>6. DataTracks(p)' /\ EditTracks(p)'
    <3>1. AheadBut(p)' = AheadBut(p) /\ Saves(p)' = Saves(p) /\ Ver(p)' = Ver(p)
      BY <1>1, <2>2 DEF AheadBut, Saves, Ver
    <3> QED
      BY <1>1, <2>1, <2>2, <3>1 DEF PageOK, DataTracks, EditTracks, Tracks
  <2> QED
    BY <2>3, <2>4, <2>5, <2>6 DEF PageOK
<1> QED
  BY <1>2, <1>3 DEF IInv

(* Every step keeps what the pages and their saves rely on.                *)
LEMMA NextKeeps == IInv /\ [Next]_<<vars, desk>> => IInv'
<1> SUFFICES ASSUME IInv, [Next]_<<vars, desk>>
             PROVE  IInv'
  OBVIOUS
<1>1. CASE UNCHANGED <<vars, desk>>
  BY <1>1, SameKept DEF desk
<1>2. CASE PreviewExpire
  BY <1>2, SameKept DEF PreviewExpire
<1>3. ASSUME NEW p \in Planners, Saving(p), UNCHANGED desk
      PROVE  IInv'
  <2>1. CASE FetchRows(p) \/ FetchVersions(p)
    BY <1>3, <2>1, FetchingKeeps
  <2>2. CASE CallStep(p)
    BY <1>3, <2>2, FlaggingKeeps, CheckingKeeps, TakingKeeps, ReadingKeeps,
       WritingKeeps, FinishingKeeps DEF CallStep
  <2>3. CASE BoardStep(p)
    BY <1>3, <2>3, EnteringKeeps, DiscardingKeeps, BeginningKeeps, EndingKeeps,
       EditsKeep DEF BoardStep
  <2> QED
    BY <1>3, <2>1, <2>2, <2>3 DEF Saving
<1>4. ASSUME NEW p \in Planners, DeskStep(p)
      PROVE  IInv'
  BY <1>4, PreviewingKeeps, SwitchingKeeps, AskingKeeps, LockingKeeps,
     CommittingKeeps, BumpingKeeps DEF DeskStep
<1> QED
  BY <1>1, <1>2, <1>3, <1>4 DEF Next

-------------------------------------------------------------------------------
(* What a page counts on holds in every state: where its versions are      *)
(* those of the tables, its rows are too, or are about to be counted.      *)
THEOREM PagesKeepTrack == Spec => []IInv
<1> QED
  BY Starts, NextKeeps, PTL DEF Spec
-------------------------------------------------------------------------------
(* What most steps leave alone of a page: what it has seen, its tab, and   *)
(* that it is not told of a conflict or put into edit mode.                *)
Quiet(p) ==
  /\ board'[p].base = board[p].base /\ board'[p].tab = board[p].tab
  /\ board'[p].edit => board[p].edit
  /\ board'[p].status = board[p].status \/ board'[p].status # "conflict"

(* What is shown on a page is apart from the rest of it.                   *)
LEMMA PageFacts ==
  ASSUME IInv
  PROVE  /\ DOMAIN board = Planners
         /\ \A q \in Planners :
              /\ BoardShape(board[q])
              /\ \A x : /\ [board[q] EXCEPT !.shown = x].base = board[q].base
                        /\ [board[q] EXCEPT !.shown = x].tab = board[q].tab
                        /\ [board[q] EXCEPT !.shown = x].edit = board[q].edit
                        /\ [board[q] EXCEPT !.shown = x].status = board[q].status
<1>1. DOMAIN board = Planners /\ \A q \in Planners : BoardShape(board[q])
  BY DEF IInv, TablesOK, PageOK, BoardOK
<1>2. ASSUME NEW q \in Planners, NEW x
      PROVE  /\ [board[q] EXCEPT !.shown = x].base = board[q].base
             /\ [board[q] EXCEPT !.shown = x].tab = board[q].tab
             /\ [board[q] EXCEPT !.shown = x].edit = board[q].edit
             /\ [board[q] EXCEPT !.shown = x].status = board[q].status
  BY <1>1 DEF BoardShape
<1> QED
  BY <1>1, <1>2

(* A step on the page of q, as it is for p.                                *)
LEMMA OthersQuiet ==
  ASSUME IInv, NEW p \in Planners, NEW q \in Planners, NEW b,
         board' = [board EXCEPT ![q] = b],
         p = q => /\ b.base = board[q].base /\ b.tab = board[q].tab
                  /\ b.edit => board[q].edit
                  /\ b.status = board[q].status \/ b.status # "conflict"
  PROVE  Quiet(p)
<1>1. DOMAIN board = Planners
  BY PageFacts
<1>2. CASE p = q
  BY <1>1, <1>2 DEF Quiet
<1>3. CASE p # q
  BY <1>1, <1>3 DEF Quiet
<1> QED
  BY <1>2, <1>3

(* The steps of a preview, an apply or a run, but for the choice of a tab. *)
LEMMA DeskQuiet ==
  ASSUME IInv, NEW p \in Planners, NEW q \in Planners, DeskStep(q),
         \A t \in Types : ~SwitchTab(q, t)
  PROVE  Quiet(p)
<1>1. board' = board \/ \E x : board' = [board EXCEPT ![q].shown = x]
  <2>1. CASE \E policy \in Scenes[scene].policies :
               RunAsk(q, policy) \/ \E selected \in BOOLEAN : PreviewAsk(q, policy, selected)
    BY <2>1 DEF RunAsk, PreviewAsk
  <2>2. CASE PreviewRead(q) \/ PreviewStore(q) \/ ApplyAsk(q)
    BY <2>2 DEF PreviewRead, PreviewStore, ApplyAsk, vars
  <2>3. CASE PreviewAnswer(q) \/ DiscardPreview(q) \/ EngineCommit(q)
    BY <2>3 DEF PreviewAnswer, DiscardPreview, EngineCommit
  <2>4. CASE ApplyRead(q) \/ EngineLock(q)
    BY <2>4 DEF ApplyRead, EngineLock, TurnedDown
  <2>5. CASE \E lost \in BOOLEAN : EngineBump(q, lost)
    BY <2>5 DEF EngineBump
  <2> QED
    BY <2>1, <2>2, <2>3, <2>4, <2>5 DEF DeskStep
<1>2. CASE board' = board
  BY <1>2 DEF Quiet
<1>3. ASSUME NEW x, board' = [board EXCEPT ![q].shown = x]
      PROVE  Quiet(p)
  <2> DEFINE b == [board[q] EXCEPT !.shown = x]
  <2>1. board' = [board EXCEPT ![q] = b]
    BY <1>3
  <2>2. /\ b.base = board[q].base /\ b.tab = board[q].tab
        /\ b.edit => board[q].edit
        /\ b.status = board[q].status
    BY PageFacts
  <2> HIDE DEF b
  <2> QED
    BY <2>1, <2>2, OthersQuiet
<1> QED
  BY <1>1, <1>2, <1>3

(* The steps of the page and of the refresh, but for the way into the edit *)
(* mode.                                                                   *)
LEMMA BoardQuiet ==
  ASSUME IInv, NEW p \in Planners, NEW q \in Planners,
         FetchRows(q) \/ FetchVersions(q) \/ BoardStep(q), ~EnterEdit(q)
  PROVE  Quiet(p)
<1>1. DOMAIN board = Planners /\ BoardShape(board[q])
  BY PageFacts
<1>2. CASE FetchRows(q)
  BY <1>2 DEF FetchRows, Quiet
<1>3. CASE FetchVersions(q)
  <2>1. PICK x : board' = [board EXCEPT ![q].data = x]
    BY <1>3 DEF FetchVersions
  <2> DEFINE b == [board[q] EXCEPT !.data = x]
  <2>2. b.base = board[q].base /\ b.tab = board[q].tab /\ (b.edit <=> board[q].edit)
        /\ b.status = board[q].status
    BY <1>1 DEF BoardShape
  <2>3. board' = [board EXCEPT ![q] = b]
    BY <2>1
  <2> HIDE DEF b
  <2> QED
    BY <2>2, <2>3, OthersQuiet
<1>4. CASE DiscardEdits(q) \/ SaveEnd(q)
  <2>1. PICK status \in {"idle", "success"} : board' = [board EXCEPT ![q] = Left(@, status)]
    BY <1>4 DEF DiscardEdits, SaveEnd
  <2> DEFINE b == Left(board[q], status)
  <2>2. b.base = board[q].base /\ b.tab = board[q].tab /\ b.edit = FALSE
        /\ b.status = status
    BY <1>1 DEF BoardShape, Left
  <2>3. board' = [board EXCEPT ![q] = b]
    BY <2>1
  <2> HIDE DEF b
  <2> QED
    BY <2>1, <2>2, <2>3, OthersQuiet
<1>5. CASE SaveBegin(q)
  <2> DEFINE b == [board[q] EXCEPT !.status = "saving"]
  <2>2. b.base = board[q].base /\ b.tab = board[q].tab /\ (b.edit <=> board[q].edit)
        /\ b.status = "saving"
    BY <1>1 DEF BoardShape
  <2>3. board' = [board EXCEPT ![q] = b]
    BY <1>5 DEF SaveBegin
  <2> HIDE DEF b
  <2> QED
    BY <2>2, <2>3, OthersQuiet
<1>6. ASSUME NEW op, NEW edits, Edited(q, op, edits)
      PROVE  Quiet(p)
  <2> DEFINE b == [board[q] EXCEPT !.edits = edits]
  <2>2. b.base = board[q].base /\ b.tab = board[q].tab /\ (b.edit <=> board[q].edit)
        /\ b.status = board[q].status
    BY <1>1 DEF BoardShape
  <2>3. board' = [board EXCEPT ![q] = b]
    BY <1>6 DEF Edited
  <2> HIDE DEF b
  <2> QED
    BY <2>2, <2>3, OthersQuiet
<1>7. FetchRows(q) \/ FetchVersions(q) \/ DiscardEdits(q) \/ SaveEnd(q) \/ SaveBegin(q)
      \/ \E op, edits : Edited(q, op, edits)
  BY DEF BoardStep, Stage, Drag, UndoSplit, Place, ConfirmSplit, PlacePart, Toggle
<1> QED
  BY <1>2, <1>3, <1>4, <1>5, <1>6, <1>7
(* The calls of a save leave the tab and the edit mode alone, and what the *)
(* page has seen changes under locks of its own, or under none.            *)
LEMMA CallChanges ==
  ASSUME IInv, NEW p \in Planners, NEW q \in Planners, CallStep(q)
  PROVE  /\ p # q => Quiet(p)
         /\ board'[p].tab = board[p].tab /\ (board'[p].edit => board[p].edit)
         /\ \A t \in Types : Saves(p) /\ board'[p].base[t] # board[p].base[t] =>
              /\ p = q /\ lock[t] \in {None, p}
              /\ \/ BulkWrite(p) \/ BulkBump(p)
                 \/ FlagCall(p) /\ OrderType[Head(call[p].queue).order] = t
         /\ board[p].status # "conflict" /\ board'[p].status = "conflict" =>
              p = q /\ Refused(p, "conflict")
<1>1. /\ DOMAIN board = Planners /\ BoardShape(board[q])
      /\ board[q].base \in [Types -> Nat] /\ lock \in [Types -> Holders \cup {None}]
  BY SaveFacts
<1> DEFINE Goal ==
         /\ p # q => Quiet(p)
         /\ board'[p].tab = board[p].tab /\ (board'[p].edit => board[p].edit)
         /\ \A t \in Types : Saves(p) /\ board'[p].base[t] # board[p].base[t] =>
              /\ p = q /\ lock[t] \in {None, p}
              /\ \/ BulkWrite(p) \/ BulkBump(p)
                 \/ FlagCall(p) /\ OrderType[Head(call[p].queue).order] = t
         /\ board[p].status # "conflict" /\ board'[p].status = "conflict" =>
              p = q /\ Refused(p, "conflict")
<1> SUFFICES Goal
  OBVIOUS
<1>2. ASSUME board' = board
      PROVE  Goal
  BY <1>2 DEF Quiet
<1>3. ASSUME NEW status \in {"error", "conflict"}, Refused(q, status)
      PROVE  Goal
  <2> DEFINE b == [board[q] EXCEPT !.status = status]
  <2>1. /\ b.tab = board[q].tab /\ (b.edit <=> board[q].edit)
        /\ b.base = board[q].base /\ b.status = status
    BY <1>1 DEF BoardShape
  <2>2. board' = [board EXCEPT ![q] = b]
    BY <1>3 DEF Refused
  <2> HIDE DEF b
  <2>3. CASE p = q
    BY <1>1, <1>3, <2>1, <2>2, <2>3
  <2>4. CASE p # q
    BY <1>1, <2>2, <2>4 DEF Quiet
  <2> QED
    BY <2>3, <2>4
<1>4. ASSUME NEW T, NEW n \in Nat, board' = [board EXCEPT ![q] = Seen(@, T, n)],
             \A t \in Types \cap T :
               /\ lock[t] \in {None, q}
               /\ \/ BulkWrite(q) \/ BulkBump(q)
                  \/ FlagCall(q) /\ OrderType[Head(call[q].queue).order] = t
      PROVE  Goal
  <2> DEFINE b == Seen(board[q], T, n)
  <2>1. /\ b.tab = board[q].tab /\ (b.edit <=> board[q].edit)
        /\ b.status = board[q].status
        /\ \A t \in Types : b.base[t] = board[q].base[t] + (IF t \in T THEN n ELSE 0)
    BY <1>1 DEF BoardShape, Seen
  <2>2. \A t \in Types : t \notin T => b.base[t] = board[q].base[t]
    BY <1>1, <2>1
  <2>3. board' = [board EXCEPT ![q] = b]
    BY <1>4
  <2> HIDE DEF b
  <2>4. CASE p = q
    <3>1. board'[p] = b
      BY <1>1, <2>3, <2>4
    <3>2. \A t \in Types : board'[p].base[t] # board[p].base[t] => t \in T
      BY <2>2, <2>4, <3>1
    <3> QED
      BY <1>4, <2>1, <2>4, <3>1, <3>2
  <2>5. CASE p # q
    BY <1>1, <2>3, <2>5 DEF Quiet
  <2> QED
    BY <2>4, <2>5
<1>5. CASE FlagCall(q)
  <2> DEFINE t == OrderType[Head(call[q].queue).order]
             s == call[q].shown[Head(call[q].queue).order]
  <2>1. \/ Refused(q, "error") \/ Refused(q, "conflict")
        \/ lock[t] = None /\ board' = [board EXCEPT ![q] = Seen(@, {t}, 2)]
    BY <1>5 DEF FlagCall
  <2>2. CASE lock[t] = None /\ board' = [board EXCEPT ![q] = Seen(@, {t}, 2)]
    <3>1. \A x \in Types \cap {t} :
               /\ lock[x] \in {None, q}
               /\ \/ BulkWrite(q) \/ BulkBump(q)
                  \/ FlagCall(q) /\ OrderType[Head(call[q].queue).order] = x
      BY <1>5, <2>2
    <3>2. 2 \in Nat
      OBVIOUS
    <3> HIDE DEF t, Goal
    <3> QED
      BY <1>4, <2>2, <3>1, <3>2
  <2> HIDE DEF Goal
  <2> QED
    BY <1>3, <2>1, <2>2
<1>6. CASE BulkCheck(q)
  <2>1. board' = board \/ Refused(q, "conflict")
    BY <1>6 DEF BulkCheck
  <2> HIDE DEF Goal
  <2> QED
    BY <1>2, <1>3, <2>1
<1>7. CASE BulkLock(q)
  <2>1. board' = board \/ Refused(q, "conflict")
    BY <1>7 DEF BulkLock
  <2> HIDE DEF Goal
  <2> QED
    BY <1>2, <1>3, <2>1
<1>8. CASE BulkRead(q)
  <2>1. board' = board \/ Refused(q, "error")
    BY <1>8 DEF BulkRead
  <2> HIDE DEF Goal
  <2> QED
    BY <1>2, <1>3, <2>1
<1>9. CASE BulkWrite(q)
  <2> DEFINE T == TypesOf({m \in Moves(q) : ~InPlace(m)})
  <2>1. board' = [board EXCEPT ![q] = Seen(@, T, 1)] /\ call[q].at = "write"
    BY <1>9 DEF BulkWrite, Doing
  <2>2. \A m \in Moves(q) : lock[OrderType[OrderOf(m)]] = q
    BY <2>1 DEF IInv, PageOK, MovesHeld
  <2>3. \A t \in Types \cap T :
               /\ lock[t] \in {None, q}
               /\ \/ BulkWrite(q) \/ BulkBump(q)
                  \/ FlagCall(q) /\ OrderType[Head(call[q].queue).order] = t
    BY <1>9, <2>2 DEF TypesOf
  <2>4. 1 \in Nat
    OBVIOUS
  <2> HIDE DEF Goal, T
  <2> QED
    BY <1>4, <2>1, <2>3, <2>4
<1>10. CASE BulkBump(q)
  <2> DEFINE T == {t \in Types : lock[t] = q}
  <2>1. board' = [board EXCEPT ![q] = Seen(@, T, 1)]
    BY <1>10 DEF BulkBump
  <2>2. \A t \in Types \cap T :
               /\ lock[t] \in {None, q}
               /\ \/ BulkWrite(q) \/ BulkBump(q)
                  \/ FlagCall(q) /\ OrderType[Head(call[q].queue).order] = t
    BY <1>10
  <2>3. 1 \in Nat
    OBVIOUS
  <2> HIDE DEF Goal, T
  <2> QED
    BY <1>4, <2>1, <2>2, <2>3
<1> QED
  BY <1>5, <1>6, <1>7, <1>8, <1>9, <1>10 DEF CallStep

(* Where the versions of a page are still those of the tables and nobody   *)
(* else is at work, its rows are too: but for the gaps.                    *)
LEMMA SeenWhereCurrent ==
  ASSUME IInv, NEW p \in Planners, Saves(p), NEW t \in Types,
         lock[t] \in {None, p}, t \in DOMAIN call[p].live,
         call[p].live[t] = version[t], p \notin hist.lopsided,
         t \notin board[p].torn, t \notin hist.silent
  PROVE  hist.marks[t] = board[p].base[t]
<1>1. t \notin AheadBut(p)
  BY Names DEF AheadBut, Ahead
<1>2. board[p].edit /\ Ver(p) = call[p].live /\ DOMAIN call[p].live = Scope(p)
  BY SaveFacts
<1> QED
  BY <1>1, <1>2 DEF IInv, PageOK, EditTracks, Tracks

(* NothingUnseenOverwritten for every instance: a save writes to a type    *)
(* only where the page has seen all that was written, or one of the five   *)
(* gaps is open (page.tsx:2736, manual-edit-service.ts:101).               *)
THEOREM SavesSeeAll == Spec => NothingUnseenOverwritten
<1>1. ASSUME IInv, [Next]_<<vars, desk>>, NEW p \in Planners, NEW t \in Types,
             Saves(p), board'[p].base[t] # board[p].base[t]
      PROVE  LET c == call[p]
                 flag == Head(c.queue)
                 compared == /\ t \in DOMAIN c.live /\ c.live[t] = version[t]
                             /\ flag.kind = "flag" => c.shown[flag.order] = t
             IN \/ hist.marks[t] = board[p].base[t]
                \/ t \in board[p].torn
                \/ ~compared
                \/ p \in hist.lopsided
                \/ t \in hist.silent
  <2>1. lock[t] \in {None, p}
    <3>1. CASE \E q \in Planners : CallStep(q)
      BY <1>1, <3>1, CallChanges
    <3>2. CASE Quiet(p)
      BY <1>1, <3>2 DEF Quiet
    <3>3. CASE EnterEdit(p)
      BY <1>1, <3>3 DEF EnterEdit
    <3>4. ASSUME NEW q \in Planners, q # p, EnterEdit(q)
          PROVE  Quiet(p)
      BY <3>4, PageFacts DEF EnterEdit, Quiet
    <3>5. ASSUME NEW q \in Planners, NEW x \in Types, SwitchTab(q, x)
          PROVE  board'[p].base = board[p].base
      <4>1. AfterSwitch(board[q], x).base = board[q].base /\ DOMAIN board = Planners
        BY <1>1, PageFacts DEF AfterSwitch, BoardShape
      <4>2. board' = [board EXCEPT ![q] = AfterSwitch(board[q], x)]
        BY <3>5 DEF SwitchTab
      <4> QED
        BY <4>1, <4>2
    <3>6. CASE PreviewExpire \/ UNCHANGED <<vars, desk>>
      <4>1. board' = board
        BY <3>6 DEF PreviewExpire, vars
      <4> QED
        BY <1>1, <4>1
    <3> QED
      BY <1>1, <3>1, <3>2, <3>3, <3>4, <3>5, <3>6, DeskQuiet, BoardQuiet
         DEF Next, Saving
  <2> QED
    BY <1>1, <2>1, SeenWhereCurrent
<1>2. IInv /\ [Next]_<<vars, desk>> =>
        [\A p \in Planners : \A t \in Types :
           LET c == call[p]
               flag == Head(c.queue)
               compared == /\ t \in DOMAIN c.live /\ c.live[t] = version[t]
                           /\ flag.kind = "flag" => c.shown[flag.order] = t
           IN Saves(p) /\ board'[p].base[t] # board[p].base[t] =>
                \/ hist.marks[t] = board[p].base[t]
                \/ t \in board[p].torn
                \/ ~compared
                \/ p \in hist.lopsided
                \/ t \in hist.silent]_vars
  BY <1>1
<1> QED
  BY <1>2, Starts, NextKeeps, PTL DEF Spec, NothingUnseenOverwritten
-------------------------------------------------------------------------------
(* Who holds no lock for a save has none.                                  *)
LEMMA NotHeld ==
  ASSUME IInv, NEW p \in Planners, NEW t \in Types,
         call[p].at \in {"next", "lock"}, lock[t] \in {None, p}
  PROVE  lock[t] = None
BY DEF IInv, Owned

(* What a page counts on is the version of the tables where it has seen    *)
(* all that was written to them.                                           *)
LEMMA CurrentWhereSeen ==
  ASSUME IInv, NEW p \in Planners, Saves(p), p \notin hist.lopsided,
         hist.marks = board[p].base
  PROVE  /\ DOMAIN call[p].live \subseteq Types
         /\ \A t \in DOMAIN call[p].live : call[p].live[t] = version[t]
<1>1. /\ board[p].edit /\ Ver(p) = call[p].live /\ DOMAIN call[p].live = Scope(p)
      /\ Scope(p) \subseteq Types
  BY SaveFacts
<1>2. Tracks(Scope(p), call[p].live, board[p].base,
             board[p].torn \cup hist.silent, hist.marks, version, AheadBut(p))
  BY <1>1 DEF IInv, PageOK, EditTracks
<1> QED
  BY <1>1, <1>2 DEF Tracks

(* ConflictHasCause for every instance: a save is told of a conflict only  *)
(* if something was written that its page has not seen, somebody holds a   *)
(* lock, or the page has miscounted (manual-edit-service.ts:101,           *)
(* page.tsx:2840).                                                         *)
THEOREM ConflictsAreReal == Spec => ConflictHasCause
<1>1. ASSUME IInv, NEW p \in Planners, CallStep(p), Refused(p, "conflict"),
             board[p].status = "saving", board'[p].status = "conflict",
             hist.marks = board[p].base, p \notin hist.lopsided,
             \A t \in Types : lock[t] \in {None, p}
      PROVE  FALSE
  <2>1. \A status : Refused(p, status) => status = "conflict"
    <3>1. DOMAIN board = Planners /\ BoardShape(board[p])
      BY <1>1, PageFacts
    <3>2. \A status : [board[p] EXCEPT !.status = status].status = status
      BY <3>1 DEF BoardShape
    <3> QED
      BY <1>1, <3>1, <3>2 DEF Refused
  <2>2. \A T, n : board' # [board EXCEPT ![p] = Seen(@, T, n)]
    <3>1. DOMAIN board = Planners /\ BoardShape(board[p])
      BY <1>1, PageFacts
    <3>2. \A T, n : Seen(board[p], T, n).status = board[p].status
      BY <3>1 DEF BoardShape, Seen
    <3> QED
      BY <1>1, <3>1, <3>2
  <2>3. board' # board
    BY <1>1
  <2>4. CASE FlagCall(p)
    <3> DEFINE f == Head(call[p].queue)
               t == OrderType[f.order]
               s == call[p].shown[f.order]
    <3>1. call[p].at = "next" /\ f.order \in Orders /\ t \in Types
      BY <2>4, PlanAssumption DEF FlagCall, Doing, FlagRequest
    <3>2. Group(p) = t /\ (lock[t] # None \/ (s \in DOMAIN call[p].live
                                              /\ call[p].live[s] # version[t]))
      BY <2>1, <2>2, <2>4 DEF FlagCall
    <3>3. lock[t] = None
      BY <1>1, <3>1, NotHeld
    <3>4. Saves(p)
      BY <3>1 DEF Saves
    <3>5. DOMAIN call[p].live = Scope(p)
      BY <1>1, <3>4, SaveFacts
    <3>6. s = t
      <4>1. None \notin Types
        BY PlanAssumption
      <4> QED
        BY <3>1, <3>2, <3>3, <3>5, <4>1 DEF Scope
    <3> QED
      BY <1>1, <3>2, <3>3, <3>4, <3>6, CurrentWhereSeen
  <2>5. CASE BulkCheck(p)
    <3>1. call[p].at = "next" /\ \E t \in DOMAIN call[p].live : call[p].live[t] # version[t]
      BY <2>3, <2>5 DEF BulkCheck, Doing
    <3>2. Saves(p)
      BY <3>1 DEF Saves
    <3> QED
      BY <1>1, <3>1, <3>2, CurrentWhereSeen
  <2>6. CASE BulkLock(p)
    <3>1. call[p].at = "lock" /\ \E t \in TypesOf(Moves(p)) : lock[t] # None
      BY <2>3, <2>6 DEF BulkLock, Doing
    <3>2. TypesOf(Moves(p)) \subseteq Types
      BY PlanAssumption DEF TypesOf, Found
    <3> QED
      BY <1>1, <3>1, <3>2, NotHeld
  <2>7. CASE BulkRead(p)
    BY <2>1, <2>3, <2>7 DEF BulkRead
  <2>8. CASE BulkWrite(p)
    BY <2>2, <2>8 DEF BulkWrite
  <2>9. CASE BulkBump(p)
    BY <2>2, <2>9 DEF BulkBump
  <2> QED
    BY <1>1, <2>4, <2>5, <2>6, <2>7, <2>8, <2>9 DEF CallStep
<1>2. ASSUME IInv, [Next]_<<vars, desk>>, NEW p \in Planners,
             board[p].status = "saving", board'[p].status = "conflict"
      PROVE  /\ CallStep(p) /\ Refused(p, "conflict")
  <2>1. ASSUME NEW q \in Planners, CallStep(q)
        PROVE  CallStep(p) /\ Refused(p, "conflict")
    BY <1>2, <2>1, CallChanges
  <2>2. ~Quiet(p)
    BY <1>2 DEF Quiet
  <2>3. ASSUME NEW q \in Planners, EnterEdit(q)
        PROVE  FALSE
    <3>1. CASE p # q
      BY <2>2, <2>3, <3>1, <1>2, PageFacts DEF EnterEdit, Quiet
    <3>2. CASE p = q
      <4>1. PICK ref, base, torn, edits :
              board' = [board EXCEPT ![p] =
                [@ EXCEPT !.edit = TRUE, !.ref = ref, !.status = "idle",
                          !.base = base, !.torn = torn, !.edits = edits]]
        BY <2>3, <3>2 DEF EnterEdit
      <4>2. [board[p] EXCEPT !.edit = TRUE, !.ref = ref, !.status = "idle",
               !.base = base, !.torn = torn, !.edits = edits].status = "idle"
        BY <1>2, PageFacts DEF BoardShape
      <4> QED
        BY <1>2, <4>1, <4>2, PageFacts
    <3> QED
      BY <3>1, <3>2
  <2>4. ASSUME NEW q \in Planners, NEW x \in Types, SwitchTab(q, x)
        PROVE  FALSE
    <3>1. AfterSwitch(board[q], x).status = board[q].status /\ DOMAIN board = Planners
      BY <1>2, PageFacts DEF AfterSwitch, BoardShape
    <3>2. board' = [board EXCEPT ![q] = AfterSwitch(board[q], x)]
      BY <2>4 DEF SwitchTab
    <3> QED
      BY <1>2, <3>1, <3>2
  <2>5. board' # board
    BY <1>2
  <2>6. ~PreviewExpire /\ ~UNCHANGED <<vars, desk>>
    BY <2>5 DEF PreviewExpire, vars
  <2> QED
    BY <1>2, <2>1, <2>2, <2>3, <2>4, <2>6, DeskQuiet, BoardQuiet DEF Next, Saving
<1>3. IInv /\ [Next]_<<vars, desk>> =>
        [\A p \in Planners :
           board[p].status = "saving" /\ board'[p].status = "conflict" =>
             \/ hist.marks # board[p].base
             \/ \E t \in Types : lock[t] \notin {None, p}
             \/ p \in hist.lopsided]_vars
  BY <1>1, <1>2
<1> QED
  BY <1>3, Starts, NextKeeps, PTL DEF Spec, ConflictHasCause

(* PreviewBelongs for every instance: a preview is shown for another type  *)
(* than that of the page, or over an edit, only from the moment its answer *)
(* comes (page.tsx:2447).                                                  *)
THEOREM PreviewsBelong == Spec => PreviewBelongs
<1>1. ASSUME IInv, [Next]_<<vars, desk>>, NEW p \in Planners,
             Belongs(board[p]), ~Belongs(board'[p]),
             board'[p].shown = board[p].shown
      PROVE  FALSE
  <2>1. /\ board'[p].shown # None
        /\ board'[p].tab # board[p].tab \/ ~(board'[p].edit => board[p].edit)
    BY <1>1 DEF Belongs
  <2>2. ~Quiet(p)
    BY <2>1 DEF Quiet
  <2>3. ASSUME NEW q \in Planners, EnterEdit(q)
        PROVE  FALSE
    <3>1. CASE p # q
      BY <2>2, <2>3, <3>1, <1>1, PageFacts DEF EnterEdit, Quiet
    <3>2. CASE p = q
      BY <1>1, <2>1, <2>3, <3>2 DEF EnterEdit
    <3> QED
      BY <3>1, <3>2
  <2>4. ASSUME NEW q \in Planners, NEW x \in Types, SwitchTab(q, x)
        PROVE  FALSE
    <3>1. board' = [board EXCEPT ![q] = AfterSwitch(board[q], x)]
      BY <2>4 DEF SwitchTab
    <3>2. CASE p # q
      BY <1>1, <2>2, <3>1, <3>2, PageFacts DEF Quiet
    <3>3. CASE p = q
      <4>1. AfterSwitch(board[p], x).shown = None /\ DOMAIN board = Planners
        BY <1>1, PageFacts DEF AfterSwitch, BoardShape
      <4> QED
        BY <2>1, <3>1, <3>3, <4>1
    <3> QED
      BY <3>2, <3>3
  <2>5. ASSUME NEW q \in Planners, CallStep(q)
        PROVE  FALSE
    BY <1>1, <2>1, <2>5, CallChanges
  <2>6. board' # board
    BY <2>1
  <2>7. ~PreviewExpire /\ ~UNCHANGED <<vars, desk>>
    BY <2>6 DEF PreviewExpire, vars
  <2> QED
    BY <1>1, <2>2, <2>3, <2>4, <2>5, <2>7, DeskQuiet, BoardQuiet DEF Next, Saving
<1>2. IInv /\ [Next]_<<vars, desk>> =>
        [\A p \in Planners :
           Belongs(board[p]) /\ ~Belongs(board'[p]) =>
             board'[p].shown # board[p].shown]_<<vars, desk>>
  BY <1>1
<1> QED
  BY <1>2, Starts, NextKeeps, PTL DEF Spec, PreviewBelongs
===============================================================================
