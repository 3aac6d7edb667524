--------------------------- MODULE DisplayProofs ----------------------------
(***************************************************************************)
(* Proofs about module Display, for any number of windows of any size.     *)
(***************************************************************************)
EXTENDS Display, TLAPS

USE WindowsAssumption

(* Cells, as the places of the windows.                                    *)
LEMMA CellsAre ==
    /\ \A w \in Painters : \A k \in 1 .. Size[w] : <<w, k>> \in Cells
    /\ \A c \in Cells : c = <<c[1], c[2]>> /\ c[1] \in Painters /\ c[2] \in 1 .. Size[c[1]]
  BY DEF Cells, Painters

(* Every window has a first place, and there is a first window.            *)
LEMMA FirstPlaces == 1 \in Painters /\ \A w \in Painters : <<w, 1>> \in Cells
  BY CellsAre DEF Painters

(* Moving painter p to a cell leaves every painter at one.                 *)
LEMMA GoTypes ==
  ASSUME TypeOK, NEW p \in Painters, NEW ph \in Phases, NEW w \in Painters,
         NEW k \in Nat, <<w, k>> \in Cells, Go(p, ph, w, k)
  PROVE  /\ phase' \in [Painters -> Phases]
         /\ win' \in [Painters -> Painters] /\ pos' \in [Painters -> Nat]
         /\ \A q \in Painters : At(q)' \in Cells
  <1>1. \A q \in Painters : At(q)' \in Cells
    <2>1. TAKE q \in Painters
    <2>2. CASE q = p
      BY <2>2 DEF TypeOK, Go, At
    <2>3. CASE q # p
      BY <2>3 DEF TypeOK, Go, At
    <2> QED BY <2>2, <2>3
  <1> QED BY <1>1 DEF TypeOK, Go

(* Painting keeps the screen a screen.                                     *)
LEMMA PaintTypes ==
  ASSUME TypeOK, NEW p \in Painters, NEW v \in Chars \cup {Desktop}, Paint(p, v)
  PROVE  screen' \in [Cells -> Chars \cup {Desktop}]
  BY DEF TypeOK, Paint

(* The place after a cell is a cell, too.                                  *)
LEMMA NextPlaces ==
  ASSUME TypeOK, NEW p \in Painters
  PROVE  /\ MoreHere(p) => <<win[p], pos[p] + 1>> \in Cells
         /\ MoreWindows(p) => win[p] + 1 \in Painters
  <1>1. win[p] \in Painters /\ pos[p] \in Nat /\ Size[win[p]] \in Nat
    BY DEF TypeOK, Painters
  <1>2. MoreHere(p) => pos[p] + 1 \in 1 .. Size[win[p]]
    BY <1>1 DEF MoreHere
  <1> QED BY <1>1, <1>2, CellsAre DEF MoreWindows, Painters

(* One round of a loop over all cells.                                     *)
LEMMA LoopTypes ==
  ASSUME TypeOK, NEW p \in Painters, NEW a \in Phases, NEW b \in Phases, NEW e \in Phases,
         \/ MoreHere(p) /\ Go(p, a, win[p], pos[p] + 1)
         \/ ~ MoreHere(p) /\ MoreWindows(p) /\ Go(p, b, win[p] + 1, 1)
         \/ ~ MoreHere(p) /\ ~ MoreWindows(p) /\ Go(p, e, 1, 1)
  PROVE  /\ phase' \in [Painters -> Phases]
         /\ win' \in [Painters -> Painters] /\ pos' \in [Painters -> Nat]
         /\ \A q \in Painters : At(q)' \in Cells
  <1>1. win[p] \in Painters /\ pos[p] \in Nat /\ pos[p] + 1 \in Nat /\ 1 \in Nat
    BY DEF TypeOK
  <1>2. CASE MoreHere(p) /\ Go(p, a, win[p], pos[p] + 1)
    BY <1>1, <1>2, NextPlaces, GoTypes
  <1>3. CASE MoreWindows(p) /\ Go(p, b, win[p] + 1, 1)
    BY <1>1, <1>3, NextPlaces, FirstPlaces, GoTypes
  <1>4. CASE Go(p, e, 1, 1)
    BY <1>1, <1>4, FirstPlaces, GoTypes
  <1> QED BY <1>2, <1>3, <1>4

(* Each variable stays in its range; in particular each painter's loops,   *)
(* fb_clear's and draw_window's, stay on the windows' cells.               *)
THEOREM DisplayTypes == Spec => []TypeOK
  <1>1. Init => TypeOK
    BY FirstPlaces DEF Init, TypeOK, Phases, At
  <1>2. ASSUME TypeOK, [Next]_vars  PROVE TypeOK'
    <2> USE <1>2
    <2>1. ASSUME NEW p \in Painters, NEW k \in 1 .. Size[p], NEW v \in Chars, Put(p, k, v)
          PROVE  TypeOK'
      <3>1. <<p, k>> \in Cells
        BY CellsAre
      <3>2. UNCHANGED <<win, pos>> /\ \A q \in Painters : At(q)' = At(q)
        BY <2>1 DEF Put, At
      <3> QED BY <2>1, <3>1, <3>2 DEF TypeOK, Put, Phases
    <2>2. ASSUME NEW p \in Painters, wm_render_all(p)  PROVE TypeOK'
      <3>1. text' = text /\ screen' = screen /\ held' = held
        BY <2>2 DEF wm_render_all
      <3>2. PICK ph \in Phases, w \in Painters, k \in Nat :
                <<w, k>> \in Cells /\ Go(p, ph, w, k)
        BY <2>2, FirstPlaces DEF wm_render_all, Phases
      <3>3. /\ phase' \in [Painters -> Phases]
            /\ win' \in [Painters -> Painters] /\ pos' \in [Painters -> Nat]
            /\ \A q \in Painters : At(q)' \in Cells
        BY <3>2, GoTypes
      <3> QED BY <3>1, <3>3 DEF TypeOK
    <2>3. ASSUME NEW p \in Painters, Clear(p)  PROVE TypeOK'
      <3>1. screen' \in [Cells -> Chars \cup {Desktop}]
        BY <2>3, PaintTypes DEF Clear
      <3>2. {"clear", "fill", "read", "rest"} \subseteq Phases
        BY DEF Phases
      <3>3. /\ phase' \in [Painters -> Phases]
            /\ win' \in [Painters -> Painters] /\ pos' \in [Painters -> Nat]
            /\ \A q \in Painters : At(q)' \in Cells
        BY <2>3, <3>2, LoopTypes DEF Clear
      <3> QED BY <2>3, <3>1, <3>3 DEF TypeOK, Clear
    <2>4. ASSUME NEW p \in Painters, Fill(p)  PROVE TypeOK'
      <3>1. screen' \in [Cells -> Chars \cup {Desktop}]
        BY <2>4, PaintTypes DEF Fill
      <3>2. PICK ph \in Phases, w \in Painters, k \in Nat :
                <<w, k>> \in Cells /\ Go(p, ph, w, k)
        BY <2>4, FirstPlaces, NextPlaces DEF Fill, Phases, TypeOK
      <3> QED BY <2>4, <3>1, <3>2, GoTypes DEF TypeOK, Fill
    <2>5. ASSUME NEW p \in Painters, Read(p)  PROVE TypeOK'
      <3>1. \A q \in Painters : At(q)' = At(q)
        BY <2>5 DEF Read, At
      <3>2. held' \in [Painters -> Chars]
        BY <2>5 DEF Read, TypeOK
      <3>3. /\ phase' \in [Painters -> Phases]
            /\ text' = text /\ screen' = screen /\ win' = win /\ pos' = pos
        BY <2>5 DEF Read, TypeOK, Phases
      <3>4. \A q \in Painters : At(q)' \in Cells
        BY <3>1 DEF TypeOK
      <3> QED BY <3>2, <3>3, <3>4 DEF TypeOK
    <2>6. ASSUME NEW p \in Painters, Draw(p)  PROVE TypeOK'
      <3>1. screen' \in [Cells -> Chars \cup {Desktop}]
        <4>1. held[p] \in Chars \cup {Desktop}
          BY DEF TypeOK
        <4> QED BY <2>6, <4>1, PaintTypes DEF Draw
      <3>2. {"clear", "fill", "read", "rest"} \subseteq Phases
        BY DEF Phases
      <3>3. /\ phase' \in [Painters -> Phases]
            /\ win' \in [Painters -> Painters] /\ pos' \in [Painters -> Nat]
            /\ \A q \in Painters : At(q)' \in Cells
        BY <2>6, <3>2, LoopTypes DEF Draw
      <3> QED BY <2>6, <3>1, <3>3 DEF TypeOK, Draw
    <2>7. CASE UNCHANGED vars
      BY <2>7 DEF TypeOK, vars, At
    <2> QED BY <2>1, <2>2, <2>3, <2>4, <2>5, <2>6, <2>7 DEF Next, Painting
  <1> QED BY <1>1, <1>2, PTL DEF Spec

----------------------------------------------------------------------------
(* A painter that does not move, for a cell that is not written, is as     *)
(* pending as it was.                                                      *)
LEMMA OthersPending ==
  ASSUME NEW q, NEW c, phase'[q] = phase[q], win'[q] = win[q], pos'[q] = pos[q],
         held'[q] = held[q], text'[c] = text[c]
  PROVE  Pending(q, c)' = Pending(q, c)
  BY DEF Pending, Ahead, At

(* A wrong character that nobody is about to correct comes only from a     *)
(* painter that read the cell before its owner wrote to it.                *)
THEOREM OnlyStaleReads == Spec => OnlyAStaleReadMisleads
  <1>1. ASSUME TypeOK, Next, NEW c \in Cells, Right(c), ~ Right(c)'
        PROVE  \E q \in Painters : phase[q] = "draw" /\ At(q) = c /\ held[q] # text[c]
    <2> USE <1>1
    <2>0. /\ c[1] \in Painters /\ c[1] \in Int /\ c[2] \in Int
          /\ c[2] \in 1 .. Size[c[1]] /\ c = <<c[1], c[2]>>
      BY CellsAre DEF Painters
    (* What is left as it was: a step of p that does not touch the cell.   *)
    <2>a. ASSUME NEW p \in Painters, text'[c] = text[c], screen'[c] = screen[c],
                 \A q \in Painters \ {p} :
                    /\ phase'[q] = phase[q] /\ win'[q] = win[q]
                    /\ pos'[q] = pos[q] /\ held'[q] = held[q],
                 Pending(p, c) => Pending(p, c)'
          PROVE  FALSE
      BY <2>a, OthersPending DEF Right
    <2>1. ASSUME NEW p \in Painters, NEW k \in 1 .. Size[p], NEW v \in Chars, Put(p, k, v)
          PROVE  FALSE
      <3>1. Pending(p, c)'
        BY <2>1 DEF Put, Pending, TypeOK
      <3> QED BY <3>1 DEF Right
    <2>2. ASSUME NEW p \in Painters, wm_render_all(p)  PROVE FALSE
      <3>1. Pending(p, c)'
        BY <2>2 DEF wm_render_all, Go, Pending, TypeOK
      <3> QED BY <3>1 DEF Right
    <2>3. ASSUME NEW p \in Painters, Clear(p)  PROVE FALSE
      <3>1. phase'[p] = "clear" \/ (phase'[p] = "fill" /\ win'[p] = 1)
        BY <2>3 DEF Clear, Go, TypeOK
      <3>2. Pending(p, c)'
        BY <3>1, <2>0 DEF Pending, Painters
      <3> QED BY <3>2 DEF Right
    <2>4. ASSUME NEW p \in Painters, Fill(p)  PROVE FALSE
      <3>1. /\ phase[p] = "fill" /\ win[p] \in Int
            /\ win'[p] = win[p]
            /\ phase'[p] = "fill" \/ (phase'[p] = "read" /\ pos'[p] = 1)
        <4>1. phase[p] = "fill" /\ win[p] \in Int
          BY <2>4 DEF Fill, TypeOK, Painters
        <4>2. CASE Go(p, "fill", win[p], pos[p] + 1)
          BY <4>1, <4>2 DEF Go, TypeOK
        <4>3. CASE Go(p, "read", win[p], 1)
          BY <4>1, <4>3 DEF Go, TypeOK
        <4> QED BY <2>4, <4>1, <4>2, <4>3 DEF Fill
      <3>2. CASE c[1] >= win[p]
        <4>1. Pending(p, c)'
          <5>1. CASE phase'[p] = "fill"
            BY <3>1, <3>2, <5>1, <2>0 DEF Pending
          <5>2. CASE phase'[p] = "read" /\ pos'[p] = 1
            <6>1. Ahead(p, c)' \/ (c[1] = win'[p] /\ c[2] = pos'[p])
              BY <3>1, <3>2, <5>2, <2>0, CellsAre DEF Ahead, TypeOK, Painters
            <6> QED BY <6>1, <5>2, <2>0 DEF Pending, At
          <5> QED BY <3>1, <5>1, <5>2
        <4> QED BY <4>1 DEF Right
      <3>3. CASE ~ (c[1] >= win[p])
        <4>1. c # At(p) /\ ~ Pending(p, c)
          BY <3>1, <3>3, <2>0 DEF Pending, At
        <4>2. text'[c] = text[c] /\ screen'[c] = screen[c]
          BY <2>4, <4>1 DEF Fill, Paint, TypeOK
        <4>3. \A q \in Painters \ {p} :
                 /\ phase'[q] = phase[q] /\ win'[q] = win[q]
                 /\ pos'[q] = pos[q] /\ held'[q] = held[q]
          BY <2>4 DEF Fill, Go, TypeOK
        <4> QED BY <2>a, <4>1, <4>2, <4>3
      <3> QED BY <3>2, <3>3
    <2>5. ASSUME NEW p \in Painters, Read(p)  PROVE FALSE
      <3>1. /\ phase[p] = "read" /\ phase'[p] = "draw"
            /\ win' = win /\ pos' = pos /\ text' = text /\ screen' = screen
            /\ held'[p] = text[At(p)]
        BY <2>5 DEF Read, TypeOK
      <3>2. Pending(p, c) => Pending(p, c)'
        BY <3>1 DEF Pending, Ahead, At
      <3>3. \A q \in Painters \ {p} :
               /\ phase'[q] = phase[q] /\ win'[q] = win[q]
               /\ pos'[q] = pos[q] /\ held'[q] = held[q]
        BY <2>5 DEF Read, TypeOK
      <3> QED BY <2>a, <3>1, <3>2, <3>3
    <2>6. ASSUME NEW p \in Painters, Draw(p), ~ (At(p) = c /\ held[p] # text[c])
          PROVE  FALSE
      <3>1. text' = text
        BY <2>6 DEF Draw
      <3>2. CASE At(p) = c
        <4>1. screen'[c] = text[c]
          BY <2>6, <3>2 DEF Draw, Paint, TypeOK
        <4> QED BY <4>1, <3>1 DEF Right
      <3>3. CASE At(p) # c
        <4>1. screen'[c] = screen[c]
          BY <2>6, <3>3 DEF Draw, Paint, TypeOK
        <4>2. /\ win[p] \in 1 .. Windows /\ Windows \in Nat /\ pos[p] \in Nat
              /\ Size[win[p]] \in Nat /\ c[1] \in 1 .. Windows /\ c[2] \in Nat
          BY <2>0 DEF TypeOK, Painters
        <4>3. ASSUME Pending(p, c)  PROVE Pending(p, c)'
          <5>1. Ahead(p, c)
            BY <2>6, <3>3, <4>3 DEF Pending, Draw
          <5>2. CASE MoreHere(p)
            <6>1. phase'[p] = "read" /\ win'[p] = win[p] /\ pos'[p] = pos[p] + 1
              BY <2>6, <5>2 DEF Draw, Go, TypeOK
            <6>2. Ahead(p, c)' \/ (c[1] = win'[p] /\ c[2] = pos'[p])
              BY <6>1, <5>1, <4>2 DEF Ahead
            <6> QED BY <6>1, <6>2, <2>0 DEF Pending, At
          <5>3. CASE ~ MoreHere(p)
            <6>1. c[1] > win[p]
              BY <5>1, <5>3, <4>2, <2>0 DEF Ahead, MoreHere
            <6>2. MoreWindows(p)
              BY <6>1, <4>2 DEF MoreWindows
            <6>3. phase'[p] = "fill" /\ win'[p] = win[p] + 1
              BY <2>6, <5>3, <6>2 DEF Draw, Go, TypeOK
            <6> QED BY <6>1, <6>3, <4>2 DEF Pending
          <5> QED BY <5>2, <5>3
        <4>4. \A q \in Painters \ {p} :
                 /\ phase'[q] = phase[q] /\ win'[q] = win[q]
                 /\ pos'[q] = pos[q] /\ held'[q] = held[q]
          BY <2>6 DEF Draw, Go, TypeOK
        <4> QED BY <2>a, <3>1, <4>1, <4>3, <4>4
      <3> QED BY <3>2, <3>3
    <2>7. PICK p \in Painters : Draw(p)
      BY <2>1, <2>2, <2>3, <2>4, <2>5 DEF Next, Painting
    <2> QED BY <2>6, <2>7 DEF Draw
  <1>2. TypeOK /\ [Next]_vars =>
          [\A c \in Cells : Right(c) /\ ~ Right(c)' =>
             \E q \in Painters : phase[q] = "draw" /\ At(q) = c /\ held[q] # text[c]]_vars
    BY <1>1
  <1> QED BY <1>2, DisplayTypes, PTL DEF Spec, OnlyAStaleReadMisleads
=============================================================================
