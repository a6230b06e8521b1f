--------------------------- MODULE ConsoleProofs ---------------------------
(***************************************************************************)
(* Proofs about module Console: where the cursor may be, what the screen   *)
(* shows and what vprintk prints, for every size of the screen, every      *)
(* width of a number and every text.                                       *)
(***************************************************************************)
EXTENDS Console, NatLemmas

-----------------------------------------------------------------------------
(* What is common to both: the registers of the writers.                   *)

OrdinaryPcs == {"arg_row", "arg_col", "store_cell", "load_col", "store_col", "test_col"}
RowPcs == {"store_row", "test_row", "shift", "load_row_up", "store_row_up"}
Pcs == {"idle", "reset_col", "load_row"} \cup OrdinaryPcs \cup RowPcs

Regs(w) == regs[w] = [pc |-> regs[w].pc, c |-> regs[w].c, row |-> regs[w].row, col |-> regs[w].col,
                      y |-> regs[w].y]

(* A character that takes the cursor on is neither a newline nor a return. *)
RegsInv ==
  /\ regs = [w \in Writers |-> regs[w]]
  /\ \A w \in Writers :
       /\ Regs(w) /\ regs[w].pc \in Pcs
       /\ regs[w].pc \in OrdinaryPcs => regs[w].c \notin {"\n", "\r"}
  /\ torn \in BOOLEAN /\ met \in BOOLEAN

-----------------------------------------------------------------------------
(* The cursor.                                                             *)

(* w has moved terminal_row on, or is about to with what it has loaded.    *)
InRow(w) == regs[w].pc \in RowPcs \/ (regs[w].pc = "reset_col" /\ regs[w].c = "\n")

(* w has taken terminal_column to the edge and will see it. *)
AtEdge(w) ==
  \/ regs[w].pc = "test_col"
  \/ regs[w].pc = "reset_col" /\ regs[w].c \notin {"\n", "\r"}

ColumnInv ==
  /\ terminal_column \in 0 .. VGA_WIDTH
  /\ terminal_column = VGA_WIDTH => \E w \in Writers : AtEdge(w)
  /\ \A w \in Writers : regs[w].pc = "store_col" => regs[w].col \in Columns

(* One writer at a time is in a line break, and terminal_row is its.       *)
RowInv ==
  /\ \A v, w \in Writers : InRow(v) /\ InRow(w) => v = w
  /\ terminal_row \in 0 .. VGA_HEIGHT
  /\ terminal_row = VGA_HEIGHT => \E w \in Writers : InRow(w) /\ regs[w].pc # "store_row"
  /\ \A w \in Writers :
       /\ regs[w].pc = "store_row" => regs[w].row = terminal_row
       /\ regs[w].pc \in {"shift", "load_row_up", "store_row_up"} => terminal_row = VGA_HEIGHT
       /\ regs[w].pc = "store_row_up" => regs[w].row = VGA_HEIGHT

CursorInv == ~met => ColumnInv /\ RowInv

-----------------------------------------------------------------------------
(* What the actions do to the registers.                                   *)

LEMMA Sizes == VGA_WIDTH \in Nat \ {0} /\ VGA_HEIGHT \in Nat \ {0}
BY TerminalAssumption

(* Only w has moved. *)
Moves(w) ==
  /\ regs' = [v \in Writers |-> regs'[v]] /\ Regs(w)'
  /\ \A v \in Writers : v # w => regs'[v] = regs[v]

LEMMA GoFacts ==
  ASSUME RegsInv, NEW w \in Writers, NEW label, Go(w, label)
  PROVE  /\ Moves(w) /\ regs'[w].pc = label /\ (label = "idle" => regs'[w].y = 1)
         /\ label # "idle" => /\ regs'[w].c = regs[w].c /\ regs'[w].row = regs[w].row
                              /\ regs'[w].col = regs[w].col /\ regs'[w].y = regs[w].y
<1>1. regs = [v \in Writers |-> regs[v]] /\ Regs(w)
  BY DEF RegsInv
<1>2. regs' = [regs EXCEPT ![w] = IF label = "idle" THEN IdleRegs ELSE [regs[w] EXCEPT !.pc = label]]
  BY DEF Go
<1>3. regs'[w] = IF label = "idle" THEN IdleRegs ELSE [regs[w] EXCEPT !.pc = label]
  BY <1>1, <1>2
<1>4. /\ regs' = [v \in Writers |-> regs'[v]]
      /\ \A v \in Writers : v # w => regs'[v] = regs[v]
  BY <1>1, <1>2
<1>5. CASE label = "idle"
  BY <1>3, <1>4, <1>5 DEF Moves, Regs, IdleRegs
<1>6. CASE label # "idle"
  <2>1. regs'[w] = [pc |-> label, c |-> regs[w].c, row |-> regs[w].row, col |-> regs[w].col, y |-> regs[w].y]
    BY <1>1, <1>3, <1>6 DEF Regs
  <2>2. QED
    BY <1>4, <1>6, <2>1 DEF Moves, Regs
<1>7. QED
  BY <1>5, <1>6

SetRow(w, r, label) == regs' = [regs EXCEPT ![w].row = r, ![w].pc = label]

LEMMA LoadRowFacts ==
  ASSUME RegsInv, NEW w \in Writers, NEW r, NEW label, SetRow(w, r, label)
  PROVE  /\ Moves(w) /\ regs'[w].pc = label /\ regs'[w].row = r
         /\ regs'[w].c = regs[w].c /\ regs'[w].col = regs[w].col /\ regs'[w].y = regs[w].y
<1>1. regs = [v \in Writers |-> regs[v]] /\ Regs(w)
  BY DEF RegsInv
<1>2. regs'[w] = [[regs[w] EXCEPT !.row = r] EXCEPT !.pc = label]
  BY <1>1 DEF SetRow
<1>3. regs'[w] = [pc |-> label, c |-> regs[w].c, row |-> r, col |-> regs[w].col, y |-> regs[w].y]
  BY <1>1, <1>2 DEF Regs
<1>4. /\ regs' = [v \in Writers |-> regs'[v]]
      /\ \A v \in Writers : v # w => regs'[v] = regs[v]
  BY <1>1 DEF SetRow
<1>5. regs'[w].pc = label /\ regs'[w].c = regs[w].c /\ regs'[w].y = regs[w].y
  BY <1>3
<1>6. regs'[w].row = r /\ regs'[w].col = regs[w].col
  BY <1>3
<1>7. Regs(w)'
  BY <1>3, <1>5, <1>6 DEF Regs
<1>8. QED
  BY <1>4, <1>5, <1>6, <1>7, Zenon DEF Moves

SetCol(w, r, label) == regs' = [regs EXCEPT ![w].col = r, ![w].pc = label]

LEMMA LoadColFacts ==
  ASSUME RegsInv, NEW w \in Writers, NEW r, NEW label, SetCol(w, r, label)
  PROVE  /\ Moves(w) /\ regs'[w].pc = label /\ regs'[w].col = r
         /\ regs'[w].c = regs[w].c /\ regs'[w].row = regs[w].row /\ regs'[w].y = regs[w].y
<1>1. regs = [v \in Writers |-> regs[v]] /\ Regs(w)
  BY DEF RegsInv
<1>2. regs'[w] = [[regs[w] EXCEPT !.col = r] EXCEPT !.pc = label]
  BY <1>1 DEF SetCol
<1>3. regs'[w] = [pc |-> label, c |-> regs[w].c, row |-> regs[w].row, col |-> r, y |-> regs[w].y]
  BY <1>1, <1>2 DEF Regs
<1>4. /\ regs' = [v \in Writers |-> regs'[v]]
      /\ \A v \in Writers : v # w => regs'[v] = regs[v]
  BY <1>1 DEF SetCol
<1>5. regs'[w].pc = label /\ regs'[w].c = regs[w].c /\ regs'[w].y = regs[w].y
  BY <1>3
<1>6. regs'[w].row = regs[w].row /\ regs'[w].col = r
  BY <1>3
<1>7. Regs(w)'
  BY <1>3, <1>5, <1>6 DEF Regs
<1>8. QED
  BY <1>4, <1>5, <1>6, <1>7, Zenon DEF Moves

LEMMA ShiftFacts ==
  ASSUME RegsInv, NEW w \in Writers, Shift(w)
  PROVE  /\ Moves(w) /\ regs'[w].y = regs[w].y + 1 /\ regs'[w].c = regs[w].c
         /\ regs'[w].row = regs[w].row /\ regs'[w].col = regs[w].col
         /\ regs'[w].pc = IF regs[w].y = VGA_HEIGHT THEN "load_row_up" ELSE "shift"
<1> DEFINE label == IF regs[w].y = VGA_HEIGHT THEN "load_row_up" ELSE "shift"
<1>1. regs = [v \in Writers |-> regs[v]] /\ Regs(w)
  BY DEF RegsInv
<1>2. regs' = [regs EXCEPT ![w].y = @ + 1, ![w].pc = label]
  BY DEF Shift
<1> HIDE DEF label
<1>3. regs'[w] = [[regs[w] EXCEPT !.y = @ + 1] EXCEPT !.pc = label]
  BY <1>1, <1>2
<1>4. regs'[w] = [pc |-> label, c |-> regs[w].c, row |-> regs[w].row, col |-> regs[w].col,
                  y |-> regs[w].y + 1]
  BY <1>1, <1>3 DEF Regs
<1>5. /\ regs' = [v \in Writers |-> regs'[v]]
      /\ \A v \in Writers : v # w => regs'[v] = regs[v]
  BY <1>1, <1>2
<1>6. QED
  BY <1>4, <1>5 DEF Moves, Regs, label

StartLabel(c) == IF c = "\n" THEN "load_row" ELSE IF c = "\r" THEN "reset_col" ELSE "arg_row"

LEMMA StartFacts ==
  ASSUME RegsInv, NEW w \in Writers, NEW ch, StartPut(w, ch)
  PROVE  /\ Moves(w) /\ regs'[w].pc = StartLabel(ch) /\ regs'[w].c = ch /\ regs'[w].y = 1
         /\ regs[w].pc = "idle"
         /\ UNCHANGED <<terminal_row, terminal_column, terminal_buffer, met>>
<1>1. regs = [v \in Writers |-> regs[v]]
  BY DEF RegsInv
<1>2. /\ regs' = [regs EXCEPT ![w] = [IdleRegs EXCEPT !.c = ch, !.pc = StartLabel(ch)]]
      /\ regs[w].pc = "idle" /\ UNCHANGED <<terminal_row, terminal_column, terminal_buffer, met>>
  BY DEF StartPut, StartLabel, Idle, cursorVars
<1>3. [IdleRegs EXCEPT !.c = ch, !.pc = StartLabel(ch)] =
        [pc |-> StartLabel(ch), c |-> ch, row |-> 0, col |-> 0, y |-> 1]
  <2>1. ASSUME NEW b, NEW p
        PROVE  [[pc |-> "idle", c |-> b, row |-> 0, col |-> 0, y |-> 1] EXCEPT !.c = ch, !.pc = p] =
                 [pc |-> p, c |-> ch, row |-> 0, col |-> 0, y |-> 1]
    <3>1. [[pc |-> "idle", c |-> b, row |-> 0, col |-> 0, y |-> 1] EXCEPT !.c = ch] =
            [pc |-> "idle", c |-> ch, row |-> 0, col |-> 0, y |-> 1]
      OBVIOUS
    <3>2. [[pc |-> "idle", c |-> ch, row |-> 0, col |-> 0, y |-> 1] EXCEPT !.pc = p] =
            [pc |-> p, c |-> ch, row |-> 0, col |-> 0, y |-> 1]
      OBVIOUS
    <3>3. QED
      BY <3>1, <3>2
  <2>2. QED
    BY <2>1 DEF IdleRegs
<1>4. regs'[w] = [pc |-> StartLabel(ch), c |-> ch, row |-> 0, col |-> 0, y |-> 1]
  BY <1>1, <1>2, <1>3
<1>5. /\ regs' = [v \in Writers |-> regs'[v]]
      /\ \A v \in Writers : v # w => regs'[v] = regs[v]
  BY <1>1, <1>2
<1>6. QED
  BY <1>2, <1>4, <1>5 DEF Moves, Regs

LEMMA RegsStep ==
  ASSUME RegsInv, NEW w \in Writers, Moves(w), regs'[w].pc \in Pcs,
         regs'[w].pc \in OrdinaryPcs => regs'[w].c \notin {"\n", "\r"},
         torn' \in BOOLEAN, met' \in BOOLEAN
  PROVE  RegsInv'
<1>1. ASSUME NEW v \in Writers
      PROVE  /\ Regs(v)' /\ regs'[v].pc \in Pcs
             /\ regs'[v].pc \in OrdinaryPcs => regs'[v].c \notin {"\n", "\r"}
  BY DEF Moves, RegsInv, Regs
<1>2. QED
  BY <1>1 DEF Moves, RegsInv

(* A step of w that leaves terminal_row, or terminal_column, as it is. *)
LEMMA RowKept ==
  ASSUME NEW w \in Writers, Moves(w), UNCHANGED terminal_row, RowInv,
         InRow(w)' => InRow(w) \/ \A v \in Writers : v # w => ~InRow(v),
         InRow(w) /\ regs[w].pc # "store_row" /\ terminal_row = VGA_HEIGHT =>
           InRow(w)' /\ regs'[w].pc # "store_row",
         regs'[w].pc = "store_row" => regs'[w].row = terminal_row,
         regs'[w].pc \in {"shift", "load_row_up", "store_row_up"} => terminal_row = VGA_HEIGHT,
         regs'[w].pc = "store_row_up" => regs'[w].row = VGA_HEIGHT
  PROVE  RowInv'
<1>1. \A v \in Writers : v # w => regs'[v] = regs[v]
  BY DEF Moves
<1>2. \A v \in Writers : v # w => (InRow(v)' <=> InRow(v))
  BY <1>1 DEF InRow
<1>3. ASSUME NEW u \in Writers, NEW v \in Writers, InRow(u)', InRow(v)' PROVE u = v
  BY <1>2, <1>3 DEF RowInv
<1>4. terminal_row' \in 0 .. VGA_HEIGHT
  BY DEF RowInv
<1>5. terminal_row' = VGA_HEIGHT => \E v \in Writers : InRow(v)' /\ regs'[v].pc # "store_row"
  <2>1. ASSUME terminal_row = VGA_HEIGHT
        PROVE  \E v \in Writers : InRow(v)' /\ regs'[v].pc # "store_row"
    <3>1. PICK v \in Writers : InRow(v) /\ regs[v].pc # "store_row"
      BY <2>1 DEF RowInv
    <3>2. CASE v = w
      BY <2>1, <3>1, <3>2
    <3>3. CASE v # w
      BY <1>1, <1>2, <3>1, <3>3
    <3>4. QED
      BY <3>2, <3>3
  <2>2. QED
    BY <2>1
<1>6. ASSUME NEW v \in Writers
      PROVE  /\ regs'[v].pc = "store_row" => regs'[v].row = terminal_row'
             /\ regs'[v].pc \in {"shift", "load_row_up", "store_row_up"} => terminal_row' = VGA_HEIGHT
             /\ regs'[v].pc = "store_row_up" => regs'[v].row = VGA_HEIGHT
  BY <1>1 DEF RowInv
<1>7. QED
  BY <1>3, <1>4, <1>5, <1>6 DEF RowInv

LEMMA ColumnKept ==
  ASSUME NEW w \in Writers, Moves(w), UNCHANGED terminal_column, ColumnInv,
         AtEdge(w) /\ terminal_column = VGA_WIDTH => AtEdge(w)',
         regs'[w].pc = "store_col" => regs'[w].col \in Columns
  PROVE  ColumnInv'
<1>1. \A v \in Writers : v # w => regs'[v] = regs[v] /\ (AtEdge(v)' <=> AtEdge(v))
  BY DEF Moves, AtEdge
<1>2. terminal_column' \in 0 .. VGA_WIDTH
  BY DEF ColumnInv
<1>3. terminal_column' = VGA_WIDTH => \E v \in Writers : AtEdge(v)'
  BY <1>1 DEF ColumnInv
<1>4. ASSUME NEW v \in Writers, regs'[v].pc = "store_col" PROVE regs'[v].col \in Columns
  BY <1>1, <1>4 DEF ColumnInv
<1>5. QED
  BY <1>2, <1>3, <1>4 DEF ColumnInv, Columns

(* Nobody else is in a line break when the cursor is loaded to be moved:   *)
(* otherwise met is set.                                                   *)
LEMMA LoadsAlone ==
  ASSUME NEW ws, Loads(ws), ~met', met \in BOOLEAN
  PROVE  ~met /\ \A v \in ws : ~BreakingLine(v)
BY DEF Loads

LEMMA EdgeBreaks ==
  ASSUME NEW v \in Writers
  PROVE  /\ InRow(v) => BreakingLine(v)
         /\ AtEdge(v) /\ terminal_column = VGA_WIDTH => BreakingLine(v)
BY DEF InRow, AtEdge, BreakingLine, RowPcs

LEMMA ArgSteps ==
  ASSUME RegsInv, CursorInv, NEW w \in Writers, ArgRow(w) \/ ArgCol(w) \/ StoreCell(w)
  PROVE  RegsInv' /\ CursorInv'
<1>1. /\ regs[w].pc \in {"arg_row", "arg_col", "store_cell"} /\ UNCHANGED <<terminal_row, terminal_column, torn, met>>
  BY DEF ArgRow, ArgCol, StoreCell, At, termVars, cursorVars
<1>2. /\ Moves(w) /\ regs'[w].pc \in {"arg_col", "store_cell", "load_col"} /\ regs'[w].c = regs[w].c
  <2>1. CASE ArgRow(w)
    <3>1. PICK r : SetRow(w, r, "arg_col")
      BY <2>1 DEF ArgRow, SetRow
    <3>2. QED
      BY <3>1, LoadRowFacts
  <2>2. CASE ArgCol(w)
    <3>1. PICK r : SetCol(w, r, "store_cell")
      BY <2>2 DEF ArgCol, SetCol
    <3>2. QED
      BY <3>1, LoadColFacts
  <2>3. CASE StoreCell(w)
    BY <2>3, GoFacts DEF StoreCell
  <2>4. QED
    BY <2>1, <2>2, <2>3
<1>3. RegsInv'
  BY <1>1, <1>2, RegsStep DEF RegsInv, Pcs, OrdinaryPcs
<1>4. ~InRow(w)' /\ ~InRow(w) /\ ~AtEdge(w)
  BY <1>1, <1>2 DEF InRow, AtEdge, RowPcs
<1>5. ~met' => ColumnInv' /\ RowInv'
  BY <1>1, <1>2, <1>4, RowKept, ColumnKept DEF CursorInv
<1>6. QED
  BY <1>3, <1>5 DEF CursorInv

LEMMA LoadColStep ==
  ASSUME RegsInv, CursorInv, NEW w \in Writers, LoadCol(w)
  PROVE  RegsInv' /\ CursorInv'
<1>1. /\ regs[w].pc = "load_col" /\ UNCHANGED <<terminal_row, terminal_column, torn>>
      /\ regs' = [regs EXCEPT ![w].col = terminal_column, ![w].pc = "store_col"] /\ Loads(Writers \ {w})
  BY DEF LoadCol, At, termVars, cursorVars
<1>2. /\ Moves(w) /\ regs'[w].pc = "store_col" /\ regs'[w].c = regs[w].c /\ regs'[w].col = terminal_column
  <2>1. PICK r : r = terminal_column /\ SetCol(w, r, "store_col")
    BY <1>1 DEF SetCol
  <2>2. QED
    BY <2>1, LoadColFacts
<1>3. met' \in BOOLEAN
  BY <1>1 DEF Loads
<1>4. RegsInv'
  BY <1>1, <1>2, <1>3, RegsStep DEF RegsInv, Pcs, OrdinaryPcs
<1>5. ~InRow(w)' /\ ~InRow(w) /\ ~AtEdge(w)
  BY <1>1, <1>2 DEF InRow, AtEdge, RowPcs
<1>6. ASSUME ~met' PROVE ColumnInv' /\ RowInv'
  <2>1. ~met /\ \A v \in Writers : v # w => ~BreakingLine(v)
    BY <1>1, <1>6, LoadsAlone DEF RegsInv
  <2>2. ColumnInv /\ RowInv
    BY <2>1 DEF CursorInv
  <2>3. terminal_column # VGA_WIDTH
    BY <1>5, <2>1, <2>2, EdgeBreaks DEF ColumnInv
  <2>4. terminal_column \in Columns
    BY <2>2, <2>3, Sizes DEF ColumnInv, Columns
  <2>5. QED
    BY <1>1, <1>2, <1>5, <2>2, <2>4, RowKept, ColumnKept
<1>7. QED
  BY <1>4, <1>6 DEF CursorInv

LEMMA StoreColStep ==
  ASSUME RegsInv, CursorInv, NEW w \in Writers, StoreCol(w)
  PROVE  RegsInv' /\ CursorInv'
<1>1. /\ regs[w].pc = "store_col" /\ terminal_column' = regs[w].col + 1
      /\ UNCHANGED <<terminal_row, torn, met>> /\ Go(w, "test_col")
  BY DEF StoreCol, At
<1>2. /\ Moves(w) /\ regs'[w].pc = "test_col" /\ regs'[w].c = regs[w].c
  BY <1>1, GoFacts
<1>3. RegsInv'
  BY <1>1, <1>2, RegsStep DEF RegsInv, Pcs, OrdinaryPcs
<1>4. ASSUME ~met' PROVE ColumnInv' /\ RowInv'
  <2>1. ColumnInv /\ RowInv
    BY <1>1, <1>4 DEF CursorInv
  <2>2. terminal_column' \in 0 .. VGA_WIDTH
    BY <1>1, <2>1, Sizes DEF ColumnInv, Columns
  <2>3. AtEdge(w)'
    BY <1>2 DEF AtEdge
  <2>4. \A v \in Writers : regs'[v].pc = "store_col" => regs'[v].col \in Columns
    BY <1>2, <2>1 DEF ColumnInv, Moves
  <2>5. ColumnInv'
    BY <2>2, <2>3, <2>4 DEF ColumnInv, Columns
  <2>6. ~InRow(w)' /\ ~InRow(w)
    BY <1>1, <1>2 DEF InRow, RowPcs
  <2>7. RowInv'
    BY <1>1, <1>2, <2>1, <2>6, RowKept
  <2>8. QED
    BY <2>5, <2>7
<1>5. QED
  BY <1>3, <1>4 DEF CursorInv

LEMMA TestColStep ==
  ASSUME RegsInv, CursorInv, NEW w \in Writers, TestCol(w)
  PROVE  RegsInv' /\ CursorInv'
<1>1. /\ regs[w].pc = "test_col" /\ UNCHANGED <<terminal_row, terminal_column, torn, met>>
      /\ regs[w].c \notin {"\n", "\r"}
  BY DEF TestCol, At, termVars, cursorVars, RegsInv, OrdinaryPcs
<1>2. PICK to \in {"reset_col", "idle"} : Go(w, to) /\ (terminal_column = VGA_WIDTH => to = "reset_col")
  BY DEF TestCol
<1>3. /\ Moves(w) /\ regs'[w].pc = to /\ (to # "idle" => regs'[w].c = regs[w].c)
  BY <1>2, GoFacts
<1>4. RegsInv'
  BY <1>1, <1>3, RegsStep DEF RegsInv, Pcs, OrdinaryPcs
<1>5. ~InRow(w)' /\ ~InRow(w) /\ (terminal_column = VGA_WIDTH => AtEdge(w)')
  BY <1>1, <1>2, <1>3 DEF InRow, AtEdge, RowPcs
<1>6. ~met' => ColumnInv' /\ RowInv'
  BY <1>1, <1>2, <1>3, <1>5, RowKept, ColumnKept DEF CursorInv
<1>7. QED
  BY <1>4, <1>6 DEF CursorInv

LEMMA ResetColStep ==
  ASSUME RegsInv, CursorInv, NEW w \in Writers, ResetCol(w)
  PROVE  RegsInv' /\ CursorInv'
<1>1. /\ regs[w].pc = "reset_col" /\ terminal_column' = 0 /\ UNCHANGED <<terminal_row, torn, met>>
  BY DEF ResetCol, At
<1>2. PICK to \in {"test_row", "idle", "load_row"} :
        Go(w, to) /\ (to = "test_row" <=> regs[w].c = "\n")
  BY DEF ResetCol
<1>3. /\ Moves(w) /\ regs'[w].pc = to /\ (to # "idle" => regs'[w].c = regs[w].c)
  BY <1>2, GoFacts
<1>4. RegsInv'
  BY <1>1, <1>3, RegsStep DEF RegsInv, Pcs, OrdinaryPcs, RowPcs
<1>5. InRow(w)' <=> InRow(w)
  BY <1>1, <1>2, <1>3 DEF InRow, RowPcs
<1>6. ASSUME ~met' PROVE ColumnInv' /\ RowInv'
  <2>1. ColumnInv /\ RowInv
    BY <1>1, <1>6 DEF CursorInv
  <2>2. RowInv'
    BY <1>1, <1>2, <1>3, <1>5, <2>1, RowKept
  <2>3. 0 \in 0 .. VGA_WIDTH /\ 0 # VGA_WIDTH
    BY Sizes
  <2>4. \A v \in Writers : regs'[v].pc = "store_col" => regs'[v].col \in Columns
    BY <1>3, <2>1 DEF ColumnInv, Moves
  <2>5. QED
    BY <1>1, <2>2, <2>3, <2>4 DEF ColumnInv, Columns
<1>7. QED
  BY <1>4, <1>6 DEF CursorInv

LEMMA LoadRowStep ==
  ASSUME RegsInv, CursorInv, NEW w \in Writers, LoadRow(w)
  PROVE  RegsInv' /\ CursorInv'
<1>1. /\ regs[w].pc = "load_row" /\ UNCHANGED <<terminal_row, terminal_column, torn>> /\ Loads(Writers \ {w})
  BY DEF LoadRow, At, termVars, cursorVars
<1>2. /\ Moves(w) /\ regs'[w].pc = "store_row" /\ regs'[w].c = regs[w].c /\ regs'[w].row = terminal_row
  <2>1. PICK r : r = terminal_row /\ SetRow(w, r, "store_row")
    BY DEF LoadRow, SetRow
  <2>2. QED
    BY <2>1, LoadRowFacts
<1>3. met' \in BOOLEAN
  BY <1>1 DEF Loads
<1>4. RegsInv'
  BY <1>1, <1>2, <1>3, RegsStep DEF RegsInv, Pcs, OrdinaryPcs, RowPcs
<1>5. ~InRow(w) /\ ~AtEdge(w)
  BY <1>1 DEF InRow, AtEdge, RowPcs
<1>6. ASSUME ~met' PROVE ColumnInv' /\ RowInv'
  <2>1. ~met /\ \A v \in Writers : v # w => ~BreakingLine(v)
    BY <1>1, <1>6, LoadsAlone DEF RegsInv
  <2>2. ColumnInv /\ RowInv
    BY <2>1 DEF CursorInv
  <2>3. \A v \in Writers : v # w => ~InRow(v)
    BY <2>1, EdgeBreaks
  <2>4. RowInv'
    BY <1>1, <1>2, <1>5, <2>2, <2>3, RowKept
  <2>5. ColumnInv'
    BY <1>1, <1>2, <1>5, <2>2, ColumnKept
  <2>6. QED
    BY <2>4, <2>5
<1>7. QED
  BY <1>4, <1>6 DEF CursorInv

LEMMA StoreRowStep ==
  ASSUME RegsInv, CursorInv, NEW w \in Writers, StoreRow(w)
  PROVE  RegsInv' /\ CursorInv'
<1>1. /\ regs[w].pc = "store_row" /\ terminal_row' = regs[w].row + 1
      /\ UNCHANGED <<terminal_column, torn, met>>
  BY DEF StoreRow, At
<1>2. PICK to \in {"reset_col", "test_row"} : Go(w, to) /\ (to = "reset_col" => regs[w].c = "\n")
  BY DEF StoreRow
<1>3. /\ Moves(w) /\ regs'[w].pc = to /\ regs'[w].c = regs[w].c
  BY <1>2, GoFacts
<1>4. RegsInv'
  BY <1>1, <1>3, RegsStep DEF RegsInv, Pcs, OrdinaryPcs, RowPcs
<1>5. InRow(w)' /\ InRow(w) /\ ~AtEdge(w)
  BY <1>1, <1>2, <1>3 DEF InRow, RowPcs, AtEdge
<1>6. ASSUME ~met' PROVE ColumnInv' /\ RowInv'
  <2>1. ColumnInv /\ RowInv
    BY <1>1, <1>6 DEF CursorInv
  <2>2. ColumnInv'
    BY <1>1, <1>2, <1>3, <1>5, <2>1, ColumnKept
  <2>3. \A v \in Writers : v # w => ~InRow(v)
    BY <1>5, <2>1 DEF RowInv
  <2>4. \A v \in Writers : v # w => ~InRow(v)' /\ regs'[v].pc \notin RowPcs
    BY <1>3, <2>3 DEF Moves, InRow
  <2>5. terminal_row \in 0 .. VGA_HEIGHT /\ terminal_row # VGA_HEIGHT /\ regs[w].row = terminal_row
    BY <1>1, <2>1, <2>3 DEF RowInv
  <2>6. terminal_row' \in 0 .. VGA_HEIGHT
    BY <1>1, <2>5, Sizes
  <2>7. regs'[w].pc \notin {"store_row", "shift", "load_row_up", "store_row_up"}
    BY <1>2, <1>3
  <2>8. RowInv'
    BY <1>5, <2>4, <2>6, <2>7 DEF RowInv, RowPcs
  <2>9. QED
    BY <2>2, <2>8
<1>7. QED
  BY <1>4, <1>6 DEF CursorInv

LEMMA TestRowStep ==
  ASSUME RegsInv, CursorInv, NEW w \in Writers, TestRow(w)
  PROVE  RegsInv' /\ CursorInv'
<1>1. /\ regs[w].pc = "test_row" /\ UNCHANGED <<terminal_row, terminal_column, torn, met>>
  BY DEF TestRow, At, termVars, cursorVars
<1>2. PICK to \in {"shift", "idle"} : Go(w, to) /\ (to = "shift" <=> terminal_row = VGA_HEIGHT)
  BY DEF TestRow
<1>3. /\ Moves(w) /\ regs'[w].pc = to /\ (to # "idle" => regs'[w].c = regs[w].c)
  BY <1>2, GoFacts
<1>4. RegsInv'
  BY <1>1, <1>3, RegsStep DEF RegsInv, Pcs, OrdinaryPcs, RowPcs
<1>5. InRow(w) /\ ~AtEdge(w) /\ (terminal_row = VGA_HEIGHT => InRow(w)')
  BY <1>1, <1>2, <1>3 DEF InRow, RowPcs, AtEdge
<1>6. ~met' => ColumnInv' /\ RowInv'
  BY <1>1, <1>2, <1>3, <1>5, RowKept, ColumnKept DEF CursorInv
<1>7. QED
  BY <1>4, <1>6 DEF CursorInv

LEMMA ShiftSteps ==
  ASSUME RegsInv, CursorInv, NEW w \in Writers, Shift(w) \/ LoadRowUp(w)
  PROVE  RegsInv' /\ CursorInv'
<1>1. /\ regs[w].pc \in {"shift", "load_row_up"} /\ UNCHANGED <<terminal_row, terminal_column, torn, met>>
  BY DEF Shift, LoadRowUp, At, termVars, cursorVars
<1>2. /\ Moves(w) /\ regs'[w].pc \in {"shift", "load_row_up", "store_row_up"}
      /\ regs'[w].pc = "store_row_up" => regs'[w].row = terminal_row
  <2>1. CASE Shift(w)
    BY <2>1, ShiftFacts
  <2>2. CASE LoadRowUp(w)
    <3>1. PICK r : r = terminal_row /\ SetRow(w, r, "store_row_up")
      BY <2>2 DEF LoadRowUp, SetRow
    <3>2. QED
      BY <3>1, LoadRowFacts
  <2>3. QED
    BY <2>1, <2>2
<1>3. RegsInv'
  BY <1>1, <1>2, RegsStep DEF RegsInv, Pcs, OrdinaryPcs, RowPcs
<1>4. InRow(w) /\ InRow(w)' /\ ~AtEdge(w)
  BY <1>1, <1>2 DEF InRow, RowPcs, AtEdge
<1>5. ASSUME ~met' PROVE ColumnInv' /\ RowInv'
  <2>1. ColumnInv /\ RowInv
    BY <1>1, <1>5 DEF CursorInv
  <2>2. terminal_row = VGA_HEIGHT
    BY <1>1, <2>1 DEF RowInv
  <2>3. QED
    BY <1>1, <1>2, <1>4, <2>1, <2>2, RowKept, ColumnKept
<1>6. QED
  BY <1>3, <1>5 DEF CursorInv

LEMMA StoreRowUpStep ==
  ASSUME RegsInv, CursorInv, NEW w \in Writers, StoreRowUp(w)
  PROVE  RegsInv' /\ CursorInv'
<1>1. /\ regs[w].pc = "store_row_up" /\ terminal_row' = regs[w].row - 1
      /\ UNCHANGED <<terminal_column, torn, met>> /\ Go(w, "idle")
  BY DEF StoreRowUp, At
<1>2. Moves(w) /\ regs'[w].pc = "idle"
  BY <1>1, GoFacts
<1>3. RegsInv'
  BY <1>1, <1>2, RegsStep DEF RegsInv, Pcs, OrdinaryPcs
<1>4. ~InRow(w)' /\ InRow(w) /\ ~AtEdge(w)
  BY <1>1, <1>2 DEF InRow, RowPcs, AtEdge
<1>5. ASSUME ~met' PROVE ColumnInv' /\ RowInv'
  <2>1. ColumnInv /\ RowInv
    BY <1>1, <1>5 DEF CursorInv
  <2>2. ColumnInv'
    BY <1>1, <1>2, <1>4, <2>1, ColumnKept
  <2>3. \A v \in Writers : v # w => ~InRow(v)
    BY <1>4, <2>1 DEF RowInv
  <2>4. \A v \in Writers : ~InRow(v)' /\ regs'[v].pc \notin RowPcs
    BY <1>2, <1>4, <2>3 DEF Moves, InRow, RowPcs
  <2>5. terminal_row' \in 0 .. VGA_HEIGHT /\ terminal_row' # VGA_HEIGHT
    BY <1>1, <2>1, Sizes DEF RowInv
  <2>6. RowInv'
    BY <2>4, <2>5 DEF RowInv, RowPcs
  <2>7. QED
    BY <2>2, <2>6
<1>6. QED
  BY <1>3, <1>5 DEF CursorInv

LEMMA StartStep ==
  ASSUME RegsInv, CursorInv, NEW w \in Writers, NEW ch, StartPut(w, ch)
  PROVE  RegsInv' /\ CursorInv'
<1>1. /\ Moves(w) /\ regs'[w].pc = StartLabel(ch) /\ regs'[w].c = ch /\ regs[w].pc = "idle"
      /\ UNCHANGED <<terminal_row, terminal_column, met>>
  BY StartFacts
<1>2. torn' \in BOOLEAN
  BY DEF StartPut, Begins
<1>3. RegsInv'
  BY <1>1, <1>2, RegsStep DEF RegsInv, Pcs, OrdinaryPcs, StartLabel
<1>4. ~InRow(w) /\ ~InRow(w)' /\ ~AtEdge(w) /\ regs'[w].pc \in {"load_row", "reset_col", "arg_row"}
  BY <1>1 DEF InRow, RowPcs, AtEdge, StartLabel
<1>5. ~met' => ColumnInv' /\ RowInv'
  BY <1>1, <1>4, RowKept, ColumnKept DEF CursorInv
<1>6. QED
  BY <1>3, <1>5 DEF CursorInv

(* The echo is a step of its own, and met is set if it falls into a line   *)
(* break.                                                                  *)
LEMMA PutOnScreen ==
  ASSUME OnScreen, NEW ch, terminal_putchar_color(ch)
  PROVE  OnScreen'
<1>1. /\ VGA_WIDTH \in Nat \ {0} /\ VGA_HEIGHT \in Nat \ {0}
      /\ terminal_row \in Nat /\ terminal_row < VGA_HEIGHT
      /\ terminal_column \in Nat /\ terminal_column < VGA_WIDTH
  BY Sizes DEF OnScreen, Rows, Columns
<1>2. /\ \/ terminal_column' = 0
         \/ terminal_column + 1 # VGA_WIDTH /\ terminal_column' = terminal_column + 1
      /\ \/ terminal_row' = terminal_row
         \/ terminal_row + 1 # VGA_HEIGHT /\ terminal_row' = terminal_row + 1
  <2>1. CASE ch = "\n"
    BY <2>1 DEF terminal_putchar_color, NextRow
  <2>2. CASE ch = "\r"
    BY <2>2 DEF terminal_putchar_color
  <2>3. CASE ch \notin {"\n", "\r"}
    BY <2>3 DEF terminal_putchar_color, NextRow
  <2>4. QED
    BY <2>1, <2>2, <2>3
<1>3. terminal_column' \in Nat /\ terminal_column' < VGA_WIDTH
  BY <1>1, <1>2
<1>4. terminal_row' \in Nat /\ terminal_row' < VGA_HEIGHT
  BY <1>1, <1>2
<1>5. QED
  BY <1>1, <1>3, <1>4 DEF OnScreen, Rows, Columns

LEMMA EchoStep ==
  ASSUME RegsInv, CursorInv, NEW ch, handle_keypress(ch)
  PROVE  RegsInv' /\ CursorInv'
<1>1. terminal_putchar_color(ch) /\ Begins(Writers, ch) /\ Loads(Writers) /\ regs' = regs
  BY DEF handle_keypress
<1>2. RegsInv'
  BY <1>1 DEF RegsInv, Regs, Begins, Loads
<1>3. ASSUME ~met' PROVE ColumnInv' /\ RowInv'
  <2>1. ~met /\ \A v \in Writers : ~BreakingLine(v)
    BY <1>1, <1>3, LoadsAlone DEF RegsInv
  <2>2. ColumnInv /\ RowInv
    BY <2>1 DEF CursorInv
  <2>3. \A v \in Writers : ~InRow(v) /\ ~(AtEdge(v) /\ terminal_column = VGA_WIDTH)
    BY <2>1, EdgeBreaks
  <2>4. /\ terminal_column # VGA_WIDTH /\ terminal_row # VGA_HEIGHT
        /\ terminal_column \in 0 .. VGA_WIDTH /\ terminal_row \in 0 .. VGA_HEIGHT
    BY <2>2, <2>3 DEF ColumnInv, RowInv
  <2>5. OnScreen
    BY <2>4, Sizes DEF OnScreen, Rows, Columns
  <2>6. OnScreen'
    BY <1>1, <2>5, PutOnScreen
  <2>7. /\ terminal_column' \in 0 .. VGA_WIDTH /\ terminal_column' # VGA_WIDTH
        /\ terminal_row' \in 0 .. VGA_HEIGHT /\ terminal_row' # VGA_HEIGHT
    BY <2>6, Sizes DEF OnScreen, Rows, Columns
  <2>8. ColumnInv'
    BY <1>1, <2>2, <2>7 DEF ColumnInv, Columns
  <2>9. \A v \in Writers : ~InRow(v)' /\ regs'[v].pc \notin RowPcs
    BY <1>1, <2>3 DEF InRow
  <2>10. RowInv'
    BY <2>7, <2>9 DEF RowInv, RowPcs
  <2>11. QED
    BY <2>8, <2>10
<1>4. QED
  BY <1>2, <1>3 DEF CursorInv

LEMMA ConsoleStutter ==
  ASSUME RegsInv, CursorInv, UNCHANGED <<termVars, regs, torn, met>>
  PROVE  RegsInv' /\ CursorInv'
BY DEF RegsInv, Regs, CursorInv, ColumnInv, RowInv, InRow, AtEdge, Columns, termVars, cursorVars

LEMMA CursorInit == ConsoleInit => RegsInv /\ CursorInv
<1>1. SUFFICES ASSUME ConsoleInit PROVE RegsInv /\ CursorInv
  OBVIOUS
<1>2. /\ regs = [w \in Writers |-> IdleRegs] /\ torn = FALSE /\ met = FALSE
      /\ terminal_row = 0 /\ terminal_column = 0
  BY <1>1 DEF ConsoleInit, TermInit
<1>3. \A w \in Writers : regs[w] = IdleRegs /\ regs[w].pc = "idle" /\ Regs(w)
  <2>1. ASSUME NEW w \in Writers PROVE regs[w] = IdleRegs /\ regs[w].pc = "idle" /\ Regs(w)
    <3>1. regs[w] = IdleRegs
      BY <1>2
    <3>2. /\ IdleRegs.pc = "idle" /\ IdleRegs.c = Blank /\ IdleRegs.row = 0 /\ IdleRegs.col = 0
          /\ IdleRegs.y = 1
      BY DEF IdleRegs
    <3>3. QED
      BY <3>1, <3>2 DEF Regs, IdleRegs
  <2>2. QED
    BY <2>1
<1>4. RegsInv
  <2>1. regs = [w \in Writers |-> regs[w]]
    BY <1>2
  <2>2. QED
    BY <1>2, <1>3, <2>1 DEF RegsInv, Pcs, OrdinaryPcs
<1>5. ColumnInv
  BY <1>2, <1>3, Sizes DEF ColumnInv
<1>6. RowInv
  <2>1. \A w \in Writers : ~InRow(w)
    BY <1>3 DEF InRow, RowPcs
  <2>2. QED
    BY <1>2, <1>3, <2>1, Sizes DEF RowInv
<1>7. QED
  BY <1>4, <1>5, <1>6 DEF CursorInv

LEMMA CursorStep ==
  ASSUME RegsInv, CursorInv, [ConsoleNext]_consoleVars
  PROVE  RegsInv' /\ CursorInv'
<1>1. ASSUME NEW w \in Writers, PutStep(w) PROVE RegsInv' /\ CursorInv'
  BY <1>1, ArgSteps, LoadColStep, StoreColStep, TestColStep, ResetColStep, LoadRowStep, StoreRowStep,
     TestRowStep, ShiftSteps, StoreRowUpStep DEF PutStep
<1>2. CASE PrinterPut
  <2>1. PICK ch : StartPut(Printer, ch)
    BY <1>2 DEF PrinterPut
  <2>2. Printer \in Writers
    BY DEF Writers
  <2>3. QED
    BY <2>1, <2>2, StartStep
<1>3. CASE syscall_print
  <2>1. PICK ch : StartPut(Caller, ch)
    BY <1>3 DEF syscall_print
  <2>2. Caller \in Writers
    BY DEF Writers
  <2>3. QED
    BY <2>1, <2>2, StartStep
<1>4. ASSUME NEW ch, handle_keypress(ch) PROVE RegsInv' /\ CursorInv'
  BY <1>4, EchoStep
<1>5. CASE PrinterStep \/ UNCHANGED consoleVars
  BY <1>5, ConsoleStutter DEF PrinterStep, consoleVars
<1>6. QED
  BY <1>1, <1>2, <1>3, <1>4, <1>5 DEF ConsoleNext

(* However prints and echoes interrupt each other, the cursor is on the    *)
(* screen between two characters unless it was loaded during another's     *)
(* line break: for every size of the screen and everything printed.        *)
THEOREM ConsoleCursorOnScreen == ConsoleSpec => []CursorOnScreen
<1>1. ConsoleInit => RegsInv /\ CursorInv
  BY CursorInit
<1>2. RegsInv /\ CursorInv /\ [ConsoleNext]_consoleVars => RegsInv' /\ CursorInv'
  BY CursorStep
<1>3. RegsInv /\ CursorInv => CursorOnScreen
  <2>1. SUFFICES ASSUME ColumnInv, RowInv, AllIdle PROVE OnScreen
    BY DEF CursorInv, CursorOnScreen
  <2>2. \A w \in Writers : ~InRow(w) /\ ~AtEdge(w)
    BY <2>1 DEF AllIdle, Idle, InRow, AtEdge, RowPcs
  <2>3. /\ terminal_column # VGA_WIDTH /\ terminal_row # VGA_HEIGHT
        /\ terminal_column \in 0 .. VGA_WIDTH /\ terminal_row \in 0 .. VGA_HEIGHT
    BY <2>1, <2>2 DEF ColumnInv, RowInv
  <2>4. QED
    BY <2>3, Sizes DEF OnScreen, Rows, Columns
<1>4. QED
  BY <1>1, <1>2, <1>3, PTL DEF ConsoleSpec

-----------------------------------------------------------------------------
(* The screen.                                                             *)

Cell(x, y) == terminal_buffer[VGA_INDEX(x, y)]

(* What is behind the text: the screen was cleared, the line after it not. *)
Behind(y) == IF y < VGA_HEIGHT THEN Blank ELSE Junk

(* The first m lines of the paper end in row r of the screen. *)
Line(m, r, x, y) == IF y <= r THEN paper[m - r + y][x] ELSE Behind(y)
Shown(m, r) == \A x \in Columns, y \in 0 .. VGA_HEIGHT : Cell(x, y) = Line(m, r, x, y)
ShownBut(m, r, hole) ==
  \A x \in Columns, y \in 0 .. VGA_HEIGHT : (x # hole \/ y # r) => Cell(x, y) = Line(m, r, x, y)

(* The lines above k have been moved up. *)
ShownUpTo(k) ==
  \A x \in Columns, y \in 0 .. VGA_HEIGHT :
    Cell(x, y) = paper[Len(paper) - VGA_HEIGHT + y + (IF y + 1 < k THEN 1 ELSE 0)][x]

LastRow(m) == (IF m < VGA_HEIGHT THEN m ELSE VGA_HEIGHT) - 1

(* The paper has m lines, or one more that is as it was scrolled in. *)
Fresh(m) == Len(paper) = m + 1 /\ \A x \in Columns : paper[m + 1][x] = Behind(m)
Lines(m, more) == IF more THEN Fresh(m) ELSE Len(paper) = m

AtRest(m) ==
  /\ Len(paper) = m /\ terminal_row = LastRow(m) /\ terminal_column \in Columns /\ Shown(m, terminal_row)

(* The paper is ahead of the screen: it shows the character w is putting.  *)
BeforeCell(w, m) ==
  /\ terminal_row = LastRow(m) /\ terminal_column \in Columns /\ Lines(m, terminal_column + 1 = VGA_WIDTH)
  /\ ShownBut(m, terminal_row, terminal_column) /\ paper[m][terminal_column] = regs[w].c
  /\ regs[w].pc # "arg_row" => regs[w].row = terminal_row
  /\ regs[w].pc = "store_cell" => regs[w].col = terminal_column

AfterCell(w, m) ==
  /\ terminal_row = LastRow(m) /\ terminal_column \in Columns /\ Lines(m, terminal_column + 1 = VGA_WIDTH)
  /\ Shown(m, terminal_row)
  /\ regs[w].pc = "store_col" => regs[w].col = terminal_column

AtTest(m) ==
  /\ terminal_row = LastRow(m) /\ terminal_column \in 0 .. VGA_WIDTH /\ Lines(m, terminal_column = VGA_WIDTH)
  /\ Shown(m, terminal_row)

BeforeRow(w, m) ==
  /\ terminal_row = LastRow(m) /\ Fresh(m) /\ Shown(m, terminal_row)
  /\ regs[w].c = "\n" \/ terminal_column = 0 \/ regs[w].pc = "reset_col"
  /\ regs[w].pc = "store_row" => regs[w].row = terminal_row

AfterRow(w, m) ==
  /\ terminal_row = LastRow(m) + 1 /\ Fresh(m) /\ Shown(m + 1, terminal_row)
  /\ regs[w].pc # "reset_col" => terminal_column = 0

Shifting(w, m) ==
  /\ terminal_row = VGA_HEIGHT /\ m >= VGA_HEIGHT /\ Fresh(m) /\ terminal_column = 0
  /\ IF regs[w].pc = "shift" THEN regs[w].y \in 1 .. VGA_HEIGHT /\ ShownUpTo(regs[w].y)
     ELSE Shown(m + 1, VGA_HEIGHT - 1)
  /\ regs[w].pc = "store_row_up" => regs[w].row = VGA_HEIGHT

PutInv(w, m) ==
  LET p == regs[w].pc
      ch == regs[w].c
  IN  /\ p = "idle" \/ (p = "reset_col" /\ ch = "\r") => AtRest(m)
      /\ p \in {"arg_row", "arg_col", "store_cell"} => BeforeCell(w, m)
      /\ p \in {"load_col", "store_col"} => AfterCell(w, m)
      /\ p = "test_col" => AtTest(m)
      /\ p \in {"load_row", "store_row"} \/ (p = "reset_col" /\ ch \notin {"\n", "\r"}) => BeforeRow(w, m)
      /\ p = "test_row" \/ (p = "reset_col" /\ ch = "\n") => AfterRow(w, m)
      /\ p \in {"shift", "load_row_up", "store_row_up"} => Shifting(w, m)
      /\ p \notin {"shift", "load_row_up", "store_row_up"} => regs[w].y = 1

(* Nobody but w is putting a character. *)
Alone(w) == \A v \in Writers : v # w => Idle(v)

ScreenInv == ~torn => \E w \in Writers : Alone(w) /\ \E m \in Nat \ {0} : PutInv(w, m)
PaperInv == \E S : paper \in Seq([Columns -> S])

LEMMA DivRow ==
  ASSUME NEW n \in Nat \ {0}, NEW y \in Nat, NEW x \in 0 .. (n - 1)
  PROVE  y * n + x \in Nat /\ (y * n + x) \div n = y
OBVIOUS

LEMMA RowBound ==
  ASSUME NEW n \in Nat \ {0}, NEW h \in Nat, NEW y \in 0 .. h, NEW x \in 0 .. (n - 1)
  PROVE  /\ y * n + x <= (h + 1) * n - 1
         /\ (y * n + x) + n = (y + 1) * n + x
<1>1. (y + 1) * n = y * n + n /\ y * n \in Nat /\ (h + 1) * n \in Nat
  OBVIOUS
<1>2. (y + 1) * n <= (h + 1) * n
  OBVIOUS
<1>3. QED
  BY <1>1, <1>2

LEMMA IndexFacts ==
  ASSUME NEW x \in Columns, NEW y \in 0 .. VGA_HEIGHT
  PROVE  /\ VGA_INDEX(x, y) \in Memory /\ VGA_INDEX(x, y) \div VGA_WIDTH = y
         /\ VGA_INDEX(x, y) + VGA_WIDTH = VGA_INDEX(x, y + 1)
<1>1. VGA_INDEX(x, y) \in Nat /\ VGA_INDEX(x, y) \div VGA_WIDTH = y
  BY Sizes, DivRow DEF VGA_INDEX, Columns
<1>2. /\ VGA_INDEX(x, y) <= (VGA_HEIGHT + 1) * VGA_WIDTH - 1
      /\ VGA_INDEX(x, y) + VGA_WIDTH = VGA_INDEX(x, y + 1)
  BY Sizes, RowBound DEF VGA_INDEX, Columns
<1>3. (VGA_HEIGHT + 1) * VGA_WIDTH - 1 \in Int
  BY Sizes
<1>4. QED
  BY <1>1, <1>2, <1>3 DEF Memory

LEMMA IndexInjective ==
  ASSUME NEW x \in Columns, NEW y \in 0 .. VGA_HEIGHT, NEW u \in Columns, NEW v \in 0 .. VGA_HEIGHT,
         VGA_INDEX(x, y) = VGA_INDEX(u, v)
  PROVE  x = u /\ y = v
<1>1. y = v
  BY IndexFacts
<1>2. y * VGA_WIDTH \in Nat
  BY Sizes
<1>3. QED
  BY <1>1, <1>2 DEF VGA_INDEX, Columns

(* One cell is written. *)
LEMMA PutEntry ==
  ASSUME NEW mem, NEW ch, NEW u \in Columns, NEW v \in 0 .. VGA_HEIGHT,
         NEW x \in Columns, NEW y \in 0 .. VGA_HEIGHT
  PROVE  terminal_putentryat(mem, ch, u, v)[VGA_INDEX(x, y)] =
           IF x = u /\ y = v THEN ch ELSE mem[VGA_INDEX(x, y)]
<1>1. VGA_INDEX(x, y) \in Memory
  BY IndexFacts
<1>2. terminal_putentryat(mem, ch, u, v)[VGA_INDEX(x, y)] =
        IF VGA_INDEX(x, y) = VGA_INDEX(u, v) THEN ch ELSE mem[VGA_INDEX(x, y)]
  BY <1>1 DEF terminal_putentryat
<1>3. VGA_INDEX(x, y) = VGA_INDEX(u, v) <=> x = u /\ y = v
  BY IndexInjective
<1>4. QED
  BY <1>2, <1>3

(* One line is copied up. *)
LEMMA ShiftEntry ==
  ASSUME NEW mem, NEW k \in 1 .. VGA_HEIGHT, NEW x \in Columns, NEW y \in 0 .. VGA_HEIGHT
  PROVE  ShiftLine(mem, k)[VGA_INDEX(x, y)] =
           IF y = k - 1 THEN mem[VGA_INDEX(x, y + 1)] ELSE mem[VGA_INDEX(x, y)]
<1>1. /\ VGA_INDEX(x, y) \in Memory /\ VGA_INDEX(x, y) \div VGA_WIDTH = y
      /\ VGA_INDEX(x, y) + VGA_WIDTH = VGA_INDEX(x, y + 1)
  BY IndexFacts
<1>2. ShiftLine(mem, k)[VGA_INDEX(x, y)] =
        IF VGA_INDEX(x, y) \div VGA_WIDTH = k - 1 THEN mem[VGA_INDEX(x, y) + VGA_WIDTH]
        ELSE mem[VGA_INDEX(x, y)]
  BY <1>1 DEF ShiftLine
<1>3. QED
  BY <1>1, <1>2

LEMMA DivStep ==
  ASSUME NEW n \in Nat \ {0}, NEW q \in Nat
  PROVE  /\ q \div n \in Nat /\ q = (q \div n) * n + (q % n) /\ q % n \in 0 .. (n - 1)
         /\ (q + n) \div n = (q \div n) + 1
<1>1. q \div n \in Nat /\ q = (q \div n) * n + (q % n) /\ q % n \in 0 .. (n - 1)
  OBVIOUS
<1>2. q + n = ((q \div n) + 1) * n + (q % n)
  BY <1>1
<1>3. QED
  BY <1>1, <1>2, DivRow

LEMMA LineBelow ==
  ASSUME NEW n \in Nat \ {0}, NEW h \in Nat, NEW q \in Nat, q \div n < h
  PROVE  q + n <= (h + 1) * n - 1
<1>1. q = (q \div n) * n + (q % n) /\ q % n \in 0 .. (n - 1) /\ q \div n \in Nat
  BY DivStep
<1>2. q + n = ((q \div n) + 1) * n + (q % n) /\ (q \div n) + 1 \in 0 .. h
  BY <1>1
<1>3. QED
  BY <1>1, <1>2, RowBound

(* terminal_shift_buffer moves every line up by one. *)
LEMMA ShiftAll ==
  ASSUME NEW mem, NEW x \in Columns, NEW y \in 0 .. VGA_HEIGHT
  PROVE  terminal_shift_buffer(mem)[VGA_INDEX(x, y)] =
           IF y < VGA_HEIGHT THEN mem[VGA_INDEX(x, y + 1)] ELSE mem[VGA_INDEX(x, y)]
<1> DEFINE Turns == 0 .. VGA_HEIGHT
           Body(f) == [t \in Turns |-> IF t = 0 THEN mem ELSE ShiftLine(f[t - 1], t)]
           Lifted(t) == [k \in Memory |-> IF k \div VGA_WIDTH < t THEN mem[k + VGA_WIDTH] ELSE mem[k]]
           After == [t \in Turns |-> IF t = 0 THEN mem ELSE Lifted(t)]
           Upto == CHOOSE f : f = Body(f)
<1>1. ASSUME NEW t \in Turns, t # 0
      PROVE  After[t] = ShiftLine(After[t - 1], t)
  <2>1. t - 1 \in Turns /\ t \in Nat \ {0}
    BY <1>1, Sizes
  <2>2. ASSUME NEW k \in Memory
        PROVE  Lifted(t)[k] = IF k \div VGA_WIDTH = t - 1 THEN After[t - 1][k + VGA_WIDTH] ELSE After[t - 1][k]
    <3>1. /\ k \in Nat /\ k \div VGA_WIDTH \in Nat
          /\ (k + VGA_WIDTH) \div VGA_WIDTH = (k \div VGA_WIDTH) + 1
      <4>1. k \in Nat
        BY DEF Memory
      <4>2. QED
        BY <4>1, Sizes, DivStep
    <3>2. ASSUME k \div VGA_WIDTH = t - 1 PROVE k + VGA_WIDTH \in Memory
      <4>1. k \div VGA_WIDTH < VGA_HEIGHT
        BY <2>1, <3>2, Sizes
      <4>2. k + VGA_WIDTH <= (VGA_HEIGHT + 1) * VGA_WIDTH - 1
        BY <3>1, <4>1, Sizes, LineBelow
      <4>3. QED
        BY <3>1, <4>2, Sizes DEF Memory
    <3>3. After[t - 1] = IF t - 1 = 0 THEN mem ELSE Lifted(t - 1)
      BY <2>1
    <3>4. CASE k \div VGA_WIDTH = t - 1
      <4>1. Lifted(t)[k] = mem[k + VGA_WIDTH]
        BY <2>1, <3>1, <3>4
      <4>2. After[t - 1][k + VGA_WIDTH] = mem[k + VGA_WIDTH]
        BY <2>1, <3>1, <3>2, <3>3, <3>4
      <4>3. QED
        BY <3>4, <4>1, <4>2
    <3>5. CASE k \div VGA_WIDTH # t - 1
      BY <2>1, <3>1, <3>3, <3>5
    <3>6. QED
      BY <3>4, <3>5
  <2>3. After[t] = Lifted(t)
    BY <1>1
  <2>4. QED
    BY <2>2, <2>3 DEF ShiftLine
<1>2. After = Body(After)
  BY <1>1
<1>3. Upto = Body(Upto)
  <2> HIDE DEF Body, After
  <2>1. QED
    BY <1>2
<1>4. terminal_shift_buffer(mem) = Upto[VGA_HEIGHT]
  BY DEF terminal_shift_buffer
<1>5. Upto[VGA_HEIGHT] = After[VGA_HEIGHT]
  <2> DEFINE S == {t \in Nat : t \in Turns => Upto[t] = After[t]}
  <2> HIDE DEF Upto
  <2>1. \A t \in Turns : Upto[t] = IF t = 0 THEN mem ELSE ShiftLine(Upto[t - 1], t)
    BY <1>3
  <2> HIDE DEF Body
  <2>2. 0 \in S
    BY <2>1, Sizes
  <2>3. ASSUME NEW t \in Nat, t \in S PROVE t + 1 \in S
    <3>1. SUFFICES ASSUME t + 1 \in Turns PROVE Upto[t + 1] = After[t + 1]
      OBVIOUS
    <3>2. t \in Turns /\ t + 1 # 0 /\ (t + 1) - 1 = t
      BY <3>1, Sizes
    <3>3. Upto[t] = After[t]
      BY <2>3, <3>2
    <3>4. Upto[t + 1] = ShiftLine(Upto[t], t + 1)
      BY <2>1, <3>1, <3>2
    <3>5. After[t + 1] = ShiftLine(After[t], t + 1)
      BY <1>1, <3>1, <3>2
    <3>6. QED
      BY <3>3, <3>4, <3>5
  <2> HIDE DEF S
  <2>4. Nat \subseteq S
    BY <2>2, <2>3, NatSetInduction
  <2>5. VGA_HEIGHT \in S /\ VGA_HEIGHT \in Turns
    BY <2>4, Sizes
  <2>6. QED
    BY <2>5 DEF S
<1>6. After[VGA_HEIGHT] = Lifted(VGA_HEIGHT)
  BY Sizes
<1>7. /\ VGA_INDEX(x, y) \in Memory /\ VGA_INDEX(x, y) \div VGA_WIDTH = y
      /\ VGA_INDEX(x, y) + VGA_WIDTH = VGA_INDEX(x, y + 1)
  BY IndexFacts
<1>8. Lifted(VGA_HEIGHT)[VGA_INDEX(x, y)] =
        IF y < VGA_HEIGHT THEN mem[VGA_INDEX(x, y + 1)] ELSE mem[VGA_INDEX(x, y)]
  BY <1>7
<1> HIDE DEF After, Lifted, Upto
<1>9. QED
  BY <1>4, <1>5, <1>6, <1>8

(* Whoever is putting a character is alone, and the screen is his. *)
LEMMA ActiveIs ==
  ASSUME ScreenInv, ~torn, NEW w \in Writers, ~Idle(w)
  PROVE  Alone(w) /\ \E m \in Nat \ {0} : PutInv(w, m)
<1>1. PICK v \in Writers : Alone(v) /\ \E m \in Nat \ {0} : PutInv(v, m)
  BY DEF ScreenInv
<1>2. v = w
  BY <1>1 DEF Alone
<1>3. QED
  BY <1>1, <1>2

LEMMA RestIs ==
  ASSUME ScreenInv, ~torn, AllIdle
  PROVE  \E w \in Writers, m \in Nat \ {0} : AtRest(m) /\ regs[w].y = 1
<1>1. PICK w \in Writers, m \in Nat \ {0} : PutInv(w, m)
  BY DEF ScreenInv
<1>2. QED
  BY <1>1 DEF PutInv, AllIdle, Idle

LEMMA ScreenIntro ==
  ASSUME NEW w \in Writers, Alone(w), Moves(w), NEW m \in Nat \ {0}, PutInv(w, m)'
  PROVE  ScreenInv'
<1>1. Alone(w)'
  BY DEF Alone, Moves, Idle
<1>2. QED
  BY <1>1 DEF ScreenInv

LEMMA PaperKept ==
  ASSUME PaperInv, UNCHANGED paper
  PROVE  PaperInv'
BY DEF PaperInv

LEMMA LastRowFacts ==
  ASSUME NEW m \in Nat \ {0}
  PROVE  /\ LastRow(m) \in 0 .. (VGA_HEIGHT - 1) /\ LastRow(m) < m
         /\ LastRow(m) + 1 # VGA_HEIGHT => LastRow(m) = m - 1 /\ LastRow(m + 1) = LastRow(m) + 1 /\ m < VGA_HEIGHT
         /\ LastRow(m) + 1 = VGA_HEIGHT => LastRow(m + 1) = LastRow(m) /\ m >= VGA_HEIGHT
BY Sizes DEF LastRow

LEMMA ArgsScreen ==
  ASSUME RegsInv, ScreenInv, ~torn, NEW w \in Writers, ArgRow(w) \/ ArgCol(w)
  PROVE  ScreenInv'
<1>1. regs[w].pc \in {"arg_row", "arg_col"} /\ UNCHANGED <<terminal_row, terminal_column, terminal_buffer, paper, torn>>
  BY DEF ArgRow, ArgCol, At, termVars, cursorVars
<1>2. PICK m \in Nat \ {0} : Alone(w) /\ PutInv(w, m)
  BY <1>1, ActiveIs DEF Idle
<1>3. BeforeCell(w, m) /\ regs[w].y = 1
  BY <1>1, <1>2 DEF PutInv
<1>4. /\ Moves(w) /\ regs'[w].c = regs[w].c /\ regs'[w].y = regs[w].y
      /\ regs'[w].pc \in {"arg_col", "store_cell"} /\ regs'[w].row = terminal_row
      /\ regs'[w].pc = "store_cell" => regs'[w].col = terminal_column
  <2>1. CASE ArgRow(w)
    <3>1. PICK r : r = terminal_row /\ SetRow(w, r, "arg_col")
      BY <2>1 DEF ArgRow, SetRow
    <3>2. QED
      BY <3>1, LoadRowFacts
  <2>2. CASE ArgCol(w)
    <3>1. PICK k : k = terminal_column /\ SetCol(w, k, "store_cell")
      BY <2>2 DEF ArgCol, SetCol
    <3>2. regs[w].row = terminal_row
      BY <1>3, <2>2 DEF BeforeCell, ArgCol, At
    <3>3. QED
      BY <3>1, <3>2, LoadColFacts
  <2>3. QED
    BY <2>1, <2>2
<1>5. BeforeCell(w, m)'
  BY <1>1, <1>3, <1>4 DEF BeforeCell, Lines, Fresh, ShownBut, Cell, Line, Behind, LastRow, Columns, VGA_INDEX
<1>6. PutInv(w, m)'
  BY <1>3, <1>4, <1>5 DEF PutInv
<1>7. QED
  BY <1>2, <1>4, <1>6, ScreenIntro

LEMMA StoreCellScreen ==
  ASSUME RegsInv, ScreenInv, ~torn, NEW w \in Writers, StoreCell(w)
  PROVE  ScreenInv'
<1>1. /\ regs[w].pc = "store_cell" /\ Go(w, "load_col") /\ UNCHANGED <<terminal_row, terminal_column, paper, torn>>
      /\ terminal_buffer' = terminal_putentryat(terminal_buffer, regs[w].c, regs[w].col, regs[w].row)
  BY DEF StoreCell, At, cursorVars
<1>2. PICK m \in Nat \ {0} : Alone(w) /\ PutInv(w, m)
  BY <1>1, ActiveIs DEF Idle
<1>3. BeforeCell(w, m) /\ regs[w].y = 1
  BY <1>1, <1>2 DEF PutInv
<1>4. /\ Moves(w) /\ regs'[w].pc = "load_col" /\ regs'[w].y = 1
  BY <1>1, <1>3, GoFacts
<1>5. /\ regs[w].row = terminal_row /\ regs[w].col = terminal_column
      /\ terminal_row = LastRow(m) /\ terminal_column \in Columns
      /\ ShownBut(m, terminal_row, terminal_column) /\ paper[m][terminal_column] = regs[w].c
  BY <1>1, <1>3 DEF BeforeCell
<1>6. terminal_row \in 0 .. VGA_HEIGHT
  BY <1>5, LastRowFacts, Sizes
<1>7. Shown(m, terminal_row)'
  <2>1. SUFFICES ASSUME NEW x \in Columns, NEW y \in 0 .. VGA_HEIGHT
                 PROVE  terminal_buffer'[VGA_INDEX(x, y)] = Line(m, terminal_row, x, y)
    BY <1>1 DEF Shown, Cell, Line, Behind
  <2>2. terminal_buffer'[VGA_INDEX(x, y)] =
          IF x = terminal_column /\ y = terminal_row THEN regs[w].c ELSE terminal_buffer[VGA_INDEX(x, y)]
    BY <1>1, <1>5, <1>6, PutEntry
  <2>3. x # terminal_column \/ y # terminal_row => terminal_buffer[VGA_INDEX(x, y)] = Line(m, terminal_row, x, y)
    BY <1>5 DEF ShownBut, Cell
  <2>4. Line(m, terminal_row, terminal_column, terminal_row) = regs[w].c
    BY <1>5, <1>6, Sizes DEF Line
  <2>5. QED
    BY <2>2, <2>3, <2>4
<1>8. AfterCell(w, m)'
  BY <1>1, <1>3, <1>4, <1>7 DEF BeforeCell, AfterCell, Lines, Fresh, Behind
<1>9. PutInv(w, m)'
  BY <1>4, <1>8 DEF PutInv
<1>10. QED
  BY <1>2, <1>4, <1>9, ScreenIntro

LEMMA LoadColScreen ==
  ASSUME RegsInv, ScreenInv, ~torn, NEW w \in Writers, LoadCol(w)
  PROVE  ScreenInv'
<1>1. /\ regs[w].pc = "load_col"
      /\ UNCHANGED <<terminal_row, terminal_column, terminal_buffer, paper, torn>>
  BY DEF LoadCol, At, termVars, cursorVars
<1>2. PICK k : k = terminal_column /\ SetCol(w, k, "store_col")
  BY DEF LoadCol, SetCol
<1>3. PICK m \in Nat \ {0} : Alone(w) /\ PutInv(w, m)
  BY <1>1, ActiveIs DEF Idle
<1>4. AfterCell(w, m) /\ regs[w].y = 1
  BY <1>1, <1>3 DEF PutInv
<1>5. Moves(w) /\ regs'[w].pc = "store_col" /\ regs'[w].col = k /\ regs'[w].y = 1
  BY <1>2, <1>4, LoadColFacts
<1>6. AfterCell(w, m)'
  BY <1>1, <1>2, <1>4, <1>5 DEF AfterCell, Lines, Fresh, Shown, Cell, Line, Behind, LastRow, Columns, VGA_INDEX
<1>7. PutInv(w, m)'
  BY <1>5, <1>6 DEF PutInv
<1>8. QED
  BY <1>3, <1>5, <1>7, ScreenIntro

LEMMA StoreColScreen ==
  ASSUME RegsInv, ScreenInv, ~torn, NEW w \in Writers, StoreCol(w)
  PROVE  ScreenInv'
<1>1. /\ regs[w].pc = "store_col" /\ Go(w, "test_col") /\ terminal_column' = regs[w].col + 1
      /\ UNCHANGED <<terminal_row, terminal_buffer, paper, torn>>
  BY DEF StoreCol, At
<1>2. PICK m \in Nat \ {0} : Alone(w) /\ PutInv(w, m)
  BY <1>1, ActiveIs DEF Idle
<1>3. AfterCell(w, m) /\ regs[w].y = 1
  BY <1>1, <1>2 DEF PutInv
<1>4. Moves(w) /\ regs'[w].pc = "test_col" /\ regs'[w].y = 1
  BY <1>1, <1>3, GoFacts
<1>5. terminal_column' = terminal_column + 1 /\ terminal_column' \in 0 .. VGA_WIDTH
  BY <1>1, <1>3, Sizes DEF AfterCell, Columns
<1>6. Shown(m, terminal_row)'
  BY <1>1, <1>3 DEF AfterCell, Shown, Cell, Line, Behind, Columns, VGA_INDEX
<1>7. AtTest(m)'
  BY <1>1, <1>3, <1>5, <1>6 DEF AtTest, AfterCell, Lines, Fresh, Behind, LastRow, Columns
<1>8. PutInv(w, m)'
  BY <1>4, <1>7 DEF PutInv
<1>9. QED
  BY <1>2, <1>4, <1>8, ScreenIntro

LEMMA TestColScreen ==
  ASSUME RegsInv, ScreenInv, ~torn, NEW w \in Writers, TestCol(w)
  PROVE  ScreenInv'
<1>1. /\ regs[w].pc = "test_col"
      /\ UNCHANGED <<terminal_row, terminal_column, terminal_buffer, paper, torn>>
  BY DEF TestCol, At, termVars, cursorVars
<1>2. PICK m \in Nat \ {0} : Alone(w) /\ PutInv(w, m)
  BY <1>1, ActiveIs DEF Idle
<1>3. AtTest(m) /\ regs[w].y = 1 /\ regs[w].c \notin {"\n", "\r"}
  BY <1>1, <1>2 DEF PutInv, RegsInv, OrdinaryPcs
<1>4. Shown(m, terminal_row)'
  BY <1>1, <1>3 DEF AtTest, Shown, Cell, Line, Behind, Columns, VGA_INDEX
<1>5. CASE terminal_column = VGA_WIDTH
  <2>1. Go(w, "reset_col")
    BY <1>5 DEF TestCol
  <2>2. Moves(w) /\ regs'[w].pc = "reset_col" /\ regs'[w].y = 1 /\ regs'[w].c = regs[w].c
    BY <1>3, <2>1, GoFacts
  <2>3. BeforeRow(w, m)'
    BY <1>1, <1>3, <1>4, <1>5, <2>2 DEF AtTest, BeforeRow, Lines, Fresh, Behind, LastRow, Columns
  <2>4. PutInv(w, m)'
    BY <1>3, <2>2, <2>3 DEF PutInv
  <2>5. QED
    BY <1>2, <2>2, <2>4, ScreenIntro
<1>6. CASE terminal_column # VGA_WIDTH
  <2>1. Go(w, "idle")
    BY <1>6 DEF TestCol
  <2>2. Moves(w) /\ regs'[w].pc = "idle" /\ regs'[w].y = 1
    BY <2>1, GoFacts
  <2>3. AtRest(m)'
    BY <1>1, <1>3, <1>4, <1>6, Sizes DEF AtTest, AtRest, Lines, LastRow, Columns
  <2>4. PutInv(w, m)'
    BY <2>2, <2>3 DEF PutInv
  <2>5. QED
    BY <1>2, <2>2, <2>4, ScreenIntro
<1>7. QED
  BY <1>5, <1>6

(* The same of any memory and any paper. *)
Shows(mem, pap, m, r) ==
  \A x \in Columns, y \in 0 .. VGA_HEIGHT :
    mem[VGA_INDEX(x, y)] = IF y <= r THEN pap[(m - r) + y][x] ELSE Behind(y)

LEMMA TypedCell ==
  ASSUME NEW mem, NEW pap, NEW qap, NEW m \in Nat \ {0}, NEW r, r = LastRow(m), Shows(mem, pap, m, r),
         NEW k \in Columns, NEW ch,
         \A l \in 1 .. m, x \in Columns : qap[l][x] = IF l = m /\ x = k THEN ch ELSE pap[l][x]
  PROVE  Shows(terminal_putentryat(mem, ch, k, r), qap, m, r)
<1>1. r \in 0 .. VGA_HEIGHT /\ r < m
  BY LastRowFacts, Sizes
<1>2. SUFFICES ASSUME NEW x \in Columns, NEW y \in 0 .. VGA_HEIGHT
               PROVE  terminal_putentryat(mem, ch, k, r)[VGA_INDEX(x, y)] =
                        IF y <= r THEN qap[(m - r) + y][x] ELSE Behind(y)
  BY DEF Shows
<1>3. terminal_putentryat(mem, ch, k, r)[VGA_INDEX(x, y)] =
        IF x = k /\ y = r THEN ch ELSE mem[VGA_INDEX(x, y)]
  BY <1>1, PutEntry
<1>4. mem[VGA_INDEX(x, y)] = IF y <= r THEN pap[(m - r) + y][x] ELSE Behind(y)
  BY DEF Shows
<1>5. y <= r => (m - r) + y \in 1 .. m /\ ((m - r) + y = m <=> y = r)
  BY <1>1
<1>6. QED
  BY <1>1, <1>3, <1>4, <1>5

LEMMA LineBreak ==
  ASSUME NEW mem, NEW pap, NEW m \in Nat \ {0}, NEW r, r = LastRow(m), Shows(mem, pap, m, r),
         \A x \in Columns : pap[m + 1][x] = Behind(m)
  PROVE  /\ Shows(mem, pap, m + 1, r + 1)
         /\ r + 1 = VGA_HEIGHT => Shows(terminal_shift_buffer(mem), pap, m + 1, r)
<1>1. /\ r \in Nat /\ r < VGA_HEIGHT /\ (r + 1 # VGA_HEIGHT => r = m - 1 /\ m < VGA_HEIGHT)
      /\ (r + 1 = VGA_HEIGHT => m >= VGA_HEIGHT)
  BY LastRowFacts, Sizes
<1>2. ASSUME NEW x \in Columns, NEW y \in 0 .. VGA_HEIGHT
      PROVE  mem[VGA_INDEX(x, y)] = IF y <= r + 1 THEN pap[((m + 1) - (r + 1)) + y][x] ELSE Behind(y)
  <2>1. mem[VGA_INDEX(x, y)] = IF y <= r THEN pap[(m - r) + y][x] ELSE Behind(y)
    BY DEF Shows
  <2>2. ((m + 1) - (r + 1)) + y = (m - r) + y
    BY <1>1
  <2>3. CASE y = r + 1
    <3>1. (m - r) + y = m + 1 /\ ~(y <= r) /\ y <= r + 1
      BY <1>1, <2>3
    <3>2. Behind(y) = Behind(m)
      BY <1>1, <2>3, Sizes DEF Behind
    <3>3. QED
      BY <2>1, <2>2, <3>1, <3>2
  <2>4. CASE y # r + 1
    <3>1. y <= r <=> y <= r + 1
      BY <1>1, <2>4
    <3>2. QED
      BY <2>1, <2>2, <3>1
  <2>5. QED
    BY <2>3, <2>4
<1>3. Shows(mem, pap, m + 1, r + 1)
  BY <1>2 DEF Shows
<1>4. ASSUME r + 1 = VGA_HEIGHT, NEW x \in Columns, NEW y \in 0 .. VGA_HEIGHT
      PROVE  terminal_shift_buffer(mem)[VGA_INDEX(x, y)] = IF y <= r THEN pap[((m + 1) - r) + y][x] ELSE Behind(y)
  <2>1. terminal_shift_buffer(mem)[VGA_INDEX(x, y)] =
          IF y < VGA_HEIGHT THEN mem[VGA_INDEX(x, y + 1)] ELSE mem[VGA_INDEX(x, y)]
    BY ShiftAll
  <2>2. CASE y = VGA_HEIGHT
    <3>1. ~(y < VGA_HEIGHT) /\ ~(y <= r)
      BY <1>1, <1>4, <2>2
    <3>2. mem[VGA_INDEX(x, y)] = Behind(y)
      BY <3>1 DEF Shows
    <3>3. QED
      BY <2>1, <3>1, <3>2
  <2>3. CASE y < VGA_HEIGHT
    <3>1. /\ y + 1 \in 0 .. VGA_HEIGHT /\ y + 1 <= r + 1 /\ y <= r
          /\ ((m + 1) - (r + 1)) + (y + 1) = ((m + 1) - r) + y
      BY <1>1, <1>4, <2>3
    <3>2. QED
      BY <1>2, <2>1, <2>3, <3>1
  <2>4. QED
    BY <2>2, <2>3, Sizes
<1>5. r + 1 = VGA_HEIGHT => Shows(terminal_shift_buffer(mem), pap, m + 1, r)
  BY <1>4 DEF Shows
<1>6. QED
  BY <1>3, <1>5

LEMMA ShownIsShows ==
  ASSUME NEW mem, NEW pap, mem = terminal_buffer, pap = paper, NEW m, NEW r
  PROVE  Shown(m, r) <=> Shows(mem, pap, m, r)
BY DEF Shown, Shows, Cell, Line

(* With the row behind the last one the text goes on. *)
LEMMA ShownNext ==
  ASSUME NEW m \in Nat \ {0}, NEW r, r = LastRow(m), Shown(m, r), Fresh(m)
  PROVE  Shown(m + 1, r + 1)
<1>1. PICK mem, pap : mem = terminal_buffer /\ pap = paper
  OBVIOUS
<1>2. Shows(mem, pap, m, r)
  BY <1>1, ShownIsShows
<1>3. Shows(mem, pap, m + 1, r + 1)
  BY <1>1, <1>2, LineBreak DEF Fresh
<1>4. QED
  BY <1>1, <1>3, ShownIsShows

LEMMA ResetColScreen ==
  ASSUME RegsInv, ScreenInv, ~torn, NEW w \in Writers, ResetCol(w)
  PROVE  ScreenInv'
<1>1. /\ regs[w].pc = "reset_col" /\ terminal_column' = 0 /\ 0 \in Columns
      /\ UNCHANGED <<terminal_row, terminal_buffer, paper, torn>>
  BY Sizes DEF ResetCol, At, Columns
<1>2. PICK m \in Nat \ {0} : Alone(w) /\ PutInv(w, m)
  BY <1>1, ActiveIs DEF Idle
<1>3. regs[w].y = 1
  BY <1>1, <1>2 DEF PutInv
<1>4. CASE regs[w].c = "\n"
  <2>1. AfterRow(w, m) /\ Go(w, "test_row")
    BY <1>1, <1>2, <1>4 DEF PutInv, ResetCol
  <2>2. Moves(w) /\ regs'[w].pc = "test_row" /\ regs'[w].y = 1
    BY <1>3, <2>1, GoFacts
  <2>3. AfterRow(w, m)'
    BY <1>1, <2>1, <2>2 DEF AfterRow, Fresh, Shown, Cell, Line, Behind, LastRow, Columns, VGA_INDEX
  <2>4. PutInv(w, m)'
    BY <2>2, <2>3 DEF PutInv
  <2>5. QED
    BY <1>2, <2>2, <2>4, ScreenIntro
<1>5. CASE regs[w].c = "\r"
  <2>1. AtRest(m) /\ Go(w, "idle")
    BY <1>1, <1>2, <1>5 DEF PutInv, ResetCol
  <2>2. Moves(w) /\ regs'[w].pc = "idle" /\ regs'[w].y = 1
    BY <2>1, GoFacts
  <2>3. AtRest(m)'
    BY <1>1, <2>1, <2>2 DEF AtRest, Shown, Cell, Line, Behind, LastRow, Columns, VGA_INDEX
  <2>4. PutInv(w, m)'
    BY <2>2, <2>3 DEF PutInv
  <2>5. QED
    BY <1>2, <2>2, <2>4, ScreenIntro
<1>6. CASE regs[w].c \notin {"\n", "\r"}
  <2>1. BeforeRow(w, m) /\ Go(w, "load_row")
    BY <1>1, <1>2, <1>6 DEF PutInv, ResetCol
  <2>2. Moves(w) /\ regs'[w].pc = "load_row" /\ regs'[w].y = 1
    BY <1>3, <2>1, GoFacts
  <2>3. BeforeRow(w, m)'
    BY <1>1, <2>1, <2>2 DEF BeforeRow, Fresh, Shown, Cell, Line, Behind, LastRow, Columns, VGA_INDEX
  <2>4. PutInv(w, m)'
    BY <2>2, <2>3 DEF PutInv
  <2>5. QED
    BY <1>2, <2>2, <2>4, ScreenIntro
<1>7. QED
  BY <1>4, <1>5, <1>6

LEMMA LoadRowScreen ==
  ASSUME RegsInv, ScreenInv, ~torn, NEW w \in Writers, LoadRow(w)
  PROVE  ScreenInv'
<1>1. /\ regs[w].pc = "load_row"
      /\ UNCHANGED <<terminal_row, terminal_column, terminal_buffer, paper, torn>>
  BY DEF LoadRow, At, termVars, cursorVars
<1>2. PICK r : r = terminal_row /\ SetRow(w, r, "store_row")
  BY DEF LoadRow, SetRow
<1>3. PICK m \in Nat \ {0} : Alone(w) /\ PutInv(w, m)
  BY <1>1, ActiveIs DEF Idle
<1>4. BeforeRow(w, m) /\ regs[w].y = 1
  BY <1>1, <1>3 DEF PutInv
<1>5. /\ Moves(w) /\ regs'[w].pc = "store_row" /\ regs'[w].row = r /\ regs'[w].y = 1
      /\ regs'[w].c = regs[w].c
  BY <1>2, <1>4, LoadRowFacts
<1>6. BeforeRow(w, m)'
  BY <1>1, <1>2, <1>4, <1>5 DEF BeforeRow, Fresh, Shown, Cell, Line, Behind, LastRow, Columns, VGA_INDEX
<1>7. PutInv(w, m)'
  BY <1>5, <1>6 DEF PutInv
<1>8. QED
  BY <1>3, <1>5, <1>7, ScreenIntro

LEMMA StoreRowScreen ==
  ASSUME RegsInv, ScreenInv, ~torn, NEW w \in Writers, StoreRow(w)
  PROVE  ScreenInv'
<1>1. /\ regs[w].pc = "store_row" /\ terminal_row' = regs[w].row + 1
      /\ UNCHANGED <<terminal_column, terminal_buffer, paper, torn>>
  BY DEF StoreRow, At
<1>2. PICK to \in {"reset_col", "test_row"} : Go(w, to) /\ (to = "reset_col" <=> regs[w].c = "\n")
  BY DEF StoreRow
<1>3. PICK m \in Nat \ {0} : Alone(w) /\ PutInv(w, m)
  BY <1>1, ActiveIs DEF Idle
<1>4. BeforeRow(w, m) /\ regs[w].y = 1
  BY <1>1, <1>3 DEF PutInv
<1>5. Moves(w) /\ regs'[w].pc = to /\ regs'[w].y = 1 /\ regs'[w].c = regs[w].c
  BY <1>2, <1>4, GoFacts
<1>6. PICK r : r = LastRow(m) /\ r = terminal_row
  BY <1>4 DEF BeforeRow
<1>7. Shown(m, r) /\ Fresh(m) /\ terminal_row' = r + 1
  BY <1>1, <1>4, <1>6 DEF BeforeRow
<1>8. Shown(m + 1, r + 1)
  BY <1>6, <1>7, ShownNext
<1>9. Shown(m + 1, terminal_row)'
  BY <1>1, <1>7, <1>8 DEF Shown, Cell, Line, Behind
<1>10. AfterRow(w, m)'
  BY <1>1, <1>2, <1>4, <1>5, <1>6, <1>7, <1>9 DEF AfterRow, BeforeRow, Fresh, Behind, LastRow, Columns
<1>11. PutInv(w, m)'
  BY <1>2, <1>5, <1>10 DEF PutInv
<1>12. QED
  BY <1>3, <1>5, <1>11, ScreenIntro

LEMMA TestRowScreen ==
  ASSUME RegsInv, ScreenInv, ~torn, NEW w \in Writers, TestRow(w)
  PROVE  ScreenInv'
<1>1. /\ regs[w].pc = "test_row"
      /\ UNCHANGED <<terminal_row, terminal_column, terminal_buffer, paper, torn>>
  BY DEF TestRow, At, termVars, cursorVars
<1>2. PICK m \in Nat \ {0} : Alone(w) /\ PutInv(w, m)
  BY <1>1, ActiveIs DEF Idle
<1>3. AfterRow(w, m) /\ regs[w].y = 1 /\ terminal_column = 0 /\ 0 \in Columns
  BY <1>1, <1>2, Sizes DEF PutInv, AfterRow, Columns
<1>4. CASE terminal_row = VGA_HEIGHT
  <2>1. Go(w, "shift")
    BY <1>4 DEF TestRow
  <2>2. Moves(w) /\ regs'[w].pc = "shift" /\ regs'[w].y = 1
    BY <1>3, <2>1, GoFacts
  <2>3. m >= VGA_HEIGHT /\ Len(paper) = m + 1
    BY <1>3, <1>4, LastRowFacts, Sizes DEF AfterRow, Fresh
  <2>4. ShownUpTo(1)'
    <3>1. SUFFICES ASSUME NEW x \in Columns, NEW y \in 0 .. VGA_HEIGHT
                   PROVE  Cell(x, y) = paper[Len(paper) - VGA_HEIGHT + y + (IF y + 1 < 1 THEN 1 ELSE 0)][x]
      BY <1>1 DEF ShownUpTo, Cell
    <3>2. Cell(x, y) = paper[((m + 1) - VGA_HEIGHT) + y][x]
      BY <1>3, <1>4 DEF AfterRow, Shown, Line
    <3>3. Len(paper) - VGA_HEIGHT + y + (IF y + 1 < 1 THEN 1 ELSE 0) = ((m + 1) - VGA_HEIGHT) + y
      BY <2>3, Sizes
    <3>4. QED
      BY <3>2, <3>3
  <2>5. Fresh(m)'
    BY <1>1, <1>3 DEF AfterRow, Fresh, Behind
  <2>6. Shifting(w, m)'
    BY <1>1, <1>3, <1>4, <2>2, <2>3, <2>4, <2>5, Sizes DEF Shifting
  <2>7. PutInv(w, m)'
    BY <2>2, <2>6 DEF PutInv
  <2>8. QED
    BY <1>2, <2>2, <2>7, ScreenIntro
<1>5. CASE terminal_row # VGA_HEIGHT
  <2>1. Go(w, "idle")
    BY <1>5 DEF TestRow
  <2>2. Moves(w) /\ regs'[w].pc = "idle" /\ regs'[w].y = 1
    BY <2>1, GoFacts
  <2>3. LastRow(m + 1) = terminal_row /\ Len(paper) = m + 1
    BY <1>3, <1>5, LastRowFacts, Sizes DEF AfterRow, Fresh
  <2>4. Shown(m + 1, terminal_row)'
    BY <1>1, <1>3 DEF AfterRow, Shown, Cell, Line, Behind, Columns, VGA_INDEX
  <2>5. AtRest(m + 1)'
    BY <1>1, <1>3, <2>3, <2>4 DEF AtRest, LastRow, Columns
  <2>6. PutInv(w, m + 1)' /\ m + 1 \in Nat \ {0}
    BY <2>2, <2>5 DEF PutInv
  <2>7. QED
    BY <1>2, <2>2, <2>6, ScreenIntro
<1>6. QED
  BY <1>4, <1>5

LEMMA ShiftScreen ==
  ASSUME RegsInv, ScreenInv, ~torn, NEW w \in Writers, Shift(w)
  PROVE  ScreenInv'
<1>1. /\ regs[w].pc = "shift" /\ terminal_buffer' = ShiftLine(terminal_buffer, regs[w].y)
      /\ UNCHANGED <<terminal_row, terminal_column, paper, torn>>
  BY DEF Shift, At, cursorVars
<1>2. PICK m \in Nat \ {0} : Alone(w) /\ PutInv(w, m)
  BY <1>1, ActiveIs DEF Idle
<1>3. PICK k : k = regs[w].y
  OBVIOUS
<1>4. /\ Shifting(w, m) /\ k \in 1 .. VGA_HEIGHT /\ ShownUpTo(k)
      /\ m >= VGA_HEIGHT /\ Len(paper) = m + 1 /\ Fresh(m)
  BY <1>1, <1>2, <1>3 DEF PutInv, Shifting, Fresh
<1>5. /\ Moves(w) /\ regs'[w].y = k + 1
      /\ regs'[w].pc = IF k = VGA_HEIGHT THEN "load_row_up" ELSE "shift"
  BY <1>3, ShiftFacts
<1>6. ASSUME NEW x \in Columns, NEW y \in 0 .. VGA_HEIGHT
      PROVE  terminal_buffer'[VGA_INDEX(x, y)] =
               paper[Len(paper) - VGA_HEIGHT + y + (IF y + 1 < k + 1 THEN 1 ELSE 0)][x]
  <2>1. terminal_buffer'[VGA_INDEX(x, y)] = IF y = k - 1 THEN Cell(x, y + 1) ELSE Cell(x, y)
    BY <1>1, <1>3, <1>4, ShiftEntry DEF Cell
  <2>2. CASE y = k - 1
    <3>1. y + 1 \in 0 .. VGA_HEIGHT /\ ~((y + 1) + 1 < k) /\ y + 1 < k + 1
      BY <1>4, <2>2, Sizes
    <3>2. Cell(x, y + 1) = paper[Len(paper) - VGA_HEIGHT + (y + 1) + (IF (y + 1) + 1 < k THEN 1 ELSE 0)][x]
      BY <1>4, <3>1 DEF ShownUpTo
    <3>3. Len(paper) - VGA_HEIGHT + (y + 1) + 0 = Len(paper) - VGA_HEIGHT + y + 1
      BY <1>4, Sizes
    <3>4. QED
      BY <2>1, <2>2, <3>1, <3>2, <3>3
  <2>3. CASE y # k - 1
    <3>1. y + 1 < k + 1 <=> y + 1 < k
      BY <1>4, <2>3, Sizes
    <3>2. QED
      BY <1>4, <2>1, <2>3, <3>1 DEF ShownUpTo
  <2>4. QED
    BY <2>2, <2>3
<1>7. Fresh(m)'
  BY <1>1, <1>4 DEF Fresh, Behind
<1>8. CASE k = VGA_HEIGHT
  <2>1. Shown(m + 1, VGA_HEIGHT - 1)'
    <3>1. SUFFICES ASSUME NEW x \in Columns, NEW y \in 0 .. VGA_HEIGHT
                   PROVE  terminal_buffer'[VGA_INDEX(x, y)] = Line(m + 1, VGA_HEIGHT - 1, x, y)
      BY <1>1 DEF Shown, Cell, Line, Behind
    <3>2. CASE y = VGA_HEIGHT
      <4>1. Len(paper) - VGA_HEIGHT + y + 0 = m + 1 /\ ~(y + 1 < k + 1) /\ ~(y <= VGA_HEIGHT - 1)
        BY <1>4, <1>8, <3>2, Sizes
      <4>2. paper[m + 1][x] = Behind(y)
        BY <1>4, <3>2, Sizes DEF Fresh, Behind
      <4>3. QED
        BY <1>6, <4>1, <4>2 DEF Line
    <3>3. CASE y < VGA_HEIGHT
      <4>1. /\ Len(paper) - VGA_HEIGHT + y + 1 = ((m + 1) - (VGA_HEIGHT - 1)) + y
            /\ y + 1 < k + 1 /\ y <= VGA_HEIGHT - 1
        BY <1>4, <1>8, <3>3, Sizes
      <4>2. QED
        BY <1>6, <4>1 DEF Line
    <3>4. QED
      BY <3>2, <3>3, Sizes
  <2>2. Shifting(w, m)'
    BY <1>1, <1>4, <1>5, <1>7, <1>8, <2>1 DEF Shifting
  <2>3. PutInv(w, m)'
    BY <1>5, <1>8, <2>2 DEF PutInv
  <2>4. QED
    BY <1>2, <1>5, <2>3, ScreenIntro
<1>9. CASE k # VGA_HEIGHT
  <2>1. k + 1 \in 1 .. VGA_HEIGHT
    BY <1>4, <1>9, Sizes
  <2>2. ShownUpTo(k + 1)'
    BY <1>1, <1>6 DEF ShownUpTo, Cell
  <2>3. Shifting(w, m)'
    BY <1>1, <1>4, <1>5, <1>7, <1>9, <2>1, <2>2 DEF Shifting
  <2>4. PutInv(w, m)'
    BY <1>5, <1>9, <2>3 DEF PutInv
  <2>5. QED
    BY <1>2, <1>5, <2>4, ScreenIntro
<1>10. QED
  BY <1>8, <1>9

LEMMA LoadRowUpScreen ==
  ASSUME RegsInv, ScreenInv, ~torn, NEW w \in Writers, LoadRowUp(w)
  PROVE  ScreenInv'
<1>1. /\ regs[w].pc = "load_row_up"
      /\ UNCHANGED <<terminal_row, terminal_column, terminal_buffer, paper, torn>>
  BY DEF LoadRowUp, At, termVars, cursorVars
<1>2. PICK r : r = terminal_row /\ SetRow(w, r, "store_row_up")
  BY DEF LoadRowUp, SetRow
<1>3. PICK m \in Nat \ {0} : Alone(w) /\ PutInv(w, m)
  BY <1>1, ActiveIs DEF Idle
<1>4. Shifting(w, m)
  BY <1>1, <1>3 DEF PutInv
<1>5. Moves(w) /\ regs'[w].pc = "store_row_up" /\ regs'[w].row = r
  BY <1>2, LoadRowFacts
<1>6. Shifting(w, m)'
  BY <1>1, <1>2, <1>4, <1>5 DEF Shifting, Fresh, Shown, Cell, Line, Behind, Columns, VGA_INDEX
<1>7. PutInv(w, m)'
  BY <1>5, <1>6 DEF PutInv
<1>8. QED
  BY <1>3, <1>5, <1>7, ScreenIntro

LEMMA StoreRowUpScreen ==
  ASSUME RegsInv, ScreenInv, ~torn, NEW w \in Writers, StoreRowUp(w)
  PROVE  ScreenInv'
<1>1. /\ regs[w].pc = "store_row_up" /\ Go(w, "idle") /\ terminal_row' = regs[w].row - 1
      /\ UNCHANGED <<terminal_column, terminal_buffer, paper, torn>>
  BY DEF StoreRowUp, At
<1>2. PICK m \in Nat \ {0} : Alone(w) /\ PutInv(w, m)
  BY <1>1, ActiveIs DEF Idle
<1>3. Shifting(w, m)
  BY <1>1, <1>2 DEF PutInv
<1>4. Moves(w) /\ regs'[w].pc = "idle" /\ regs'[w].y = 1
  BY <1>1, GoFacts
<1>5. terminal_row' = VGA_HEIGHT - 1 /\ LastRow(m + 1) = VGA_HEIGHT - 1 /\ 0 \in Columns
  BY <1>1, <1>3, Sizes DEF Shifting, LastRow, Columns
<1>6. Shown(m + 1, terminal_row)'
  BY <1>1, <1>3, <1>5 DEF Shifting, Shown, Cell, Line, Behind
<1>7. AtRest(m + 1)'
  BY <1>1, <1>3, <1>5, <1>6 DEF AtRest, Shifting, Fresh, LastRow, Columns
<1>8. PutInv(w, m + 1)' /\ m + 1 \in Nat \ {0}
  BY <1>4, <1>7 DEF PutInv
<1>9. QED
  BY <1>2, <1>4, <1>8, ScreenIntro

(* What typing does to the paper. *)
LEMMA SetCell ==
  ASSUME NEW T, NEW p \in Seq([Columns -> T]), NEW m \in Nat \ {0}, Len(p) = m, NEW k \in Columns, NEW ch
  PROVE  /\ [p EXCEPT ![m][k] = ch] \in Seq([Columns -> T \cup {ch}])
         /\ Len([p EXCEPT ![m][k] = ch]) = m
         /\ \A l \in 1 .. m, x \in Columns :
              [p EXCEPT ![m][k] = ch][l][x] = IF l = m /\ x = k THEN ch ELSE p[l][x]
<1> DEFINE q == [p EXCEPT ![m][k] = ch]
<1>1. p \in [1 .. m -> [Columns -> T]] /\ m \in 1 .. m
  OBVIOUS
<1>2. q = [l \in 1 .. m |-> IF l = m THEN [p[m] EXCEPT ![k] = ch] ELSE p[l]]
  BY <1>1
<1> HIDE DEF q
<1>3. q[m] = [p[m] EXCEPT ![k] = ch] /\ \A l \in 1 .. m : l # m => q[l] = p[l]
  BY <1>1, <1>2
<1>4. p[m] \in [Columns -> T]
  BY <1>1
<1>5. \A x \in Columns : q[m][x] = IF x = k THEN ch ELSE p[m][x]
  BY <1>3, <1>4
<1>6. \A l \in 1 .. m : q[l] \in [Columns -> T \cup {ch}]
  <2>1. ASSUME NEW g \in [Columns -> T]
        PROVE  g \in [Columns -> T \cup {ch}] /\ [g EXCEPT ![k] = ch] \in [Columns -> T \cup {ch}]
    OBVIOUS
  <2>2. q[m] \in [Columns -> T \cup {ch}]
    BY <1>3, <1>4, <2>1
  <2>3. ASSUME NEW l \in 1 .. m, l # m PROVE q[l] \in [Columns -> T \cup {ch}]
    <3>1. q[l] = p[l] /\ p[l] \in [Columns -> T]
      BY <1>1, <1>3, <2>3
    <3>2. QED
      BY <2>1, <3>1
  <2>4. QED
    BY <2>2, <2>3
<1>7. q \in [1 .. m -> [Columns -> T \cup {ch}]]
  BY <1>2, <1>6
<1>8. q \in Seq([Columns -> T \cup {ch}]) /\ Len(q) = m
  BY <1>7
<1>9. \A l \in 1 .. m, x \in Columns : q[l][x] = IF l = m /\ x = k THEN ch ELSE p[l][x]
  BY <1>3, <1>5
<1>10. QED
  BY <1>8, <1>9 DEF q

LEMMA AddRow ==
  ASSUME NEW T, NEW p \in Seq([Columns -> T]), NEW m \in Nat \ {0}, Len(p) = m, NEW b,
         NEW row, row = [x \in Columns |-> b]
  PROVE  /\ Append(p, row) \in Seq([Columns -> T \cup {b}]) /\ Len(Append(p, row)) = m + 1
         /\ \A x \in Columns : Append(p, row)[m + 1][x] = b
         /\ \A l \in 1 .. m : Append(p, row)[l] = p[l]
<1>1. row \in [Columns -> T \cup {b}]
  OBVIOUS
<1>2. p \in Seq([Columns -> T \cup {b}])
  <2>1. p \in [1 .. m -> [Columns -> T]]
    OBVIOUS
  <2>2. \A l \in 1 .. m : p[l] \in [Columns -> T \cup {b}]
    BY <2>1
  <2>3. p \in [1 .. m -> [Columns -> T \cup {b}]]
    BY <2>1, <2>2
  <2>4. QED
    BY <2>3
<1> DEFINE U == [Columns -> T \cup {b}]
<1> HIDE DEF U
<1>3. /\ Append(p, row) \in Seq(U) /\ Len(Append(p, row)) = m + 1
      /\ Append(p, row)[m + 1] = row /\ \A l \in 1 .. m : Append(p, row)[l] = p[l]
  <2>1. p \in Seq(U) /\ row \in U
    BY <1>1, <1>2 DEF U
  <2>2. QED
    BY <2>1
<1>4. QED
  BY <1>3 DEF U

(* Line m is written on at the cursor, a full or ended line is followed by *)
(* a new one, and the lines above stay.                                    *)
TypedOn(m, ch, more) ==
  /\ more => Len(paper') = m + 1 /\ \A x \in Columns : paper'[m + 1][x] = Behind(m)
  /\ ~more => Len(paper') = m
  /\ \A l \in 1 .. m, x \in Columns :
       paper'[l][x] = IF l = m /\ x = terminal_column /\ ch \notin {"\n", "\r"} THEN ch ELSE paper[l][x]

LEMMA TypedFacts ==
  ASSUME PaperInv, NEW m \in Nat \ {0}, Len(paper) = m, terminal_column \in Columns,
         NEW ch, paper' = Typed(ch)
  PROVE  /\ PaperInv'
         /\ ch = "\n" => TypedOn(m, ch, TRUE)
         /\ ch = "\r" => TypedOn(m, ch, FALSE)
         /\ ch \notin {"\n", "\r"} => TypedOn(m, ch, terminal_column + 1 = VGA_WIDTH)
<1>1. PICK T : paper \in Seq([Columns -> T])
  BY DEF PaperInv
<1>2. PICK k \in Columns : k = terminal_column
  OBVIOUS
<1>3. PICK p : p = paper
  OBVIOUS
<1>4. NewRow = [x \in Columns |-> Behind(m)]
  BY DEF NewRow, Behind
<1>5. CASE ch = "\n"
  <2>1. paper' = Append(p, NewRow)
    BY <1>3, <1>5 DEF Typed
  <2>2. PICK b, row : b = Behind(m) /\ row = NewRow
    OBVIOUS
  <2>3. /\ Append(p, row) \in Seq([Columns -> T \cup {b}]) /\ Len(Append(p, row)) = m + 1
        /\ \A x \in Columns : Append(p, row)[m + 1][x] = b
        /\ \A l \in 1 .. m : Append(p, row)[l] = p[l]
    <3>1. p \in Seq([Columns -> T]) /\ Len(p) = m /\ row = [x \in Columns |-> b]
      BY <1>1, <1>3, <1>4, <2>2
    <3>2. QED
      BY <3>1, AddRow
  <2>4. PaperInv'
    BY <2>1, <2>2, <2>3 DEF PaperInv
  <2>5. TypedOn(m, ch, TRUE)
    BY <1>3, <1>5, <2>1, <2>2, <2>3 DEF TypedOn
  <2>6. QED
    BY <1>5, <2>4, <2>5
<1>6. CASE ch = "\r"
  <2>1. paper' = paper
    BY <1>6 DEF Typed
  <2>2. PaperInv'
    BY <2>1, PaperKept
  <2>3. TypedOn(m, ch, FALSE)
    BY <1>6, <2>1 DEF TypedOn
  <2>4. QED
    BY <1>6, <2>2, <2>3
<1>7. CASE ch \notin {"\n", "\r"}
  <2> DEFINE q == [p EXCEPT ![m][k] = ch]
  <2>1. /\ q \in Seq([Columns -> T \cup {ch}]) /\ Len(q) = m
        /\ \A l \in 1 .. m, x \in Columns : q[l][x] = IF l = m /\ x = k THEN ch ELSE p[l][x]
    <3>1. p \in Seq([Columns -> T]) /\ Len(p) = m
      BY <1>1, <1>3
    <3>2. QED
      BY <3>1, SetCell
  <2>2. paper' = IF k + 1 = VGA_WIDTH THEN Append(q, NewRow) ELSE q
    BY <1>2, <1>3, <1>7 DEF Typed
  <2> HIDE DEF q
  <2>3. CASE k + 1 = VGA_WIDTH
    <3>1. PICK b, row : b = Behind(m) /\ row = NewRow
      OBVIOUS
    <3>2. /\ Append(q, row) \in Seq([Columns -> (T \cup {ch}) \cup {b}]) /\ Len(Append(q, row)) = m + 1
          /\ \A x \in Columns : Append(q, row)[m + 1][x] = b
          /\ \A l \in 1 .. m : Append(q, row)[l] = q[l]
      <4>1. row = [x \in Columns |-> b]
        BY <1>4, <3>1
      <4>2. QED
        BY <2>1, <4>1, AddRow
    <3>3. paper' = Append(q, row)
      BY <2>2, <2>3, <3>1
    <3>4. PaperInv'
      BY <3>2, <3>3 DEF PaperInv
    <3>5. TypedOn(m, ch, TRUE)
      BY <1>2, <1>3, <1>7, <2>1, <3>1, <3>2, <3>3 DEF TypedOn
    <3>6. QED
      BY <1>2, <1>7, <2>3, <3>4, <3>5
  <2>4. CASE k + 1 # VGA_WIDTH
    <3>1. paper' = q
      BY <2>2, <2>4
    <3>2. PaperInv'
      BY <2>1, <3>1 DEF PaperInv
    <3>3. TypedOn(m, ch, FALSE)
      BY <1>2, <1>3, <1>7, <2>1, <3>1 DEF TypedOn
    <3>4. QED
      BY <1>2, <1>7, <2>4, <3>2, <3>3
  <2>5. QED
    BY <2>3, <2>4
<1>8. QED
  BY <1>5, <1>6, <1>7

LEMMA StartScreen ==
  ASSUME RegsInv, PaperInv, ScreenInv, NEW w \in Writers, NEW ch, StartPut(w, ch)
  PROVE  PaperInv' /\ ScreenInv'
<1>1. /\ Moves(w) /\ regs'[w].pc = StartLabel(ch) /\ regs'[w].c = ch /\ regs'[w].y = 1 /\ regs[w].pc = "idle"
      /\ UNCHANGED <<terminal_row, terminal_column, terminal_buffer>>
  BY StartFacts
<1>2. CASE torn'
  <2>1. paper' = paper
    BY <1>2 DEF StartPut, Begins
  <2>2. QED
    BY <1>2, <2>1, PaperKept DEF ScreenInv
<1>3. CASE ~torn'
  <2>1. ~torn /\ paper' = Typed(ch) /\ \A v \in Writers : v # w => Idle(v)
    BY <1>3 DEF StartPut, Begins, RegsInv
  <2>2. AllIdle /\ Alone(w)
    BY <1>1, <2>1 DEF AllIdle, Alone, Idle
  <2>3. PICK m \in Nat \ {0} : AtRest(m)
    BY <2>1, <2>2, RestIs
  <2>4. Len(paper) = m /\ terminal_row = LastRow(m) /\ terminal_column \in Columns /\ Shown(m, terminal_row)
    BY <2>3 DEF AtRest
  <2>5. /\ PaperInv'
        /\ ch = "\n" => TypedOn(m, ch, TRUE)
        /\ ch = "\r" => TypedOn(m, ch, FALSE)
        /\ ch \notin {"\n", "\r"} => TypedOn(m, ch, terminal_column + 1 = VGA_WIDTH)
    BY <2>1, <2>4, TypedFacts
  <2>6. PICK r, k : r = terminal_row /\ k = terminal_column
    OBVIOUS
  <2>7. r \in 0 .. VGA_HEIGHT /\ r < m
    BY <2>4, <2>6, LastRowFacts, Sizes
  <2>8. ASSUME NEW x \in Columns, NEW y \in 0 .. VGA_HEIGHT
        PROVE  /\ Cell(x, y) = Line(m, r, x, y)
               /\ y <= r => (m - r) + y \in 1 .. m /\ ((m - r) + y = m <=> y = r)
    BY <2>4, <2>6, <2>7 DEF Shown
  <2>9. CASE ch = "\n"
    <3>1. TypedOn(m, ch, TRUE) /\ regs'[w].pc = "load_row"
      BY <1>1, <2>5, <2>9 DEF StartLabel
    <3>2. \A l \in 1 .. m, x \in Columns : paper'[l][x] = paper[l][x]
      BY <2>9, <3>1 DEF TypedOn
    <3>3. Shown(m, terminal_row)'
      BY <1>1, <2>6, <2>8, <3>2 DEF Shown, Cell, Line, Behind
    <3>4. Fresh(m)'
      BY <3>1 DEF TypedOn, Fresh, Behind
    <3>5. BeforeRow(w, m)'
      BY <1>1, <2>4, <2>9, <3>1, <3>3, <3>4 DEF BeforeRow, LastRow
    <3>6. PutInv(w, m)'
      BY <1>1, <3>1, <3>5 DEF PutInv
    <3>7. QED
      BY <1>1, <2>2, <2>5, <3>6, ScreenIntro
  <2>10. CASE ch = "\r"
    <3>1. TypedOn(m, ch, FALSE) /\ regs'[w].pc = "reset_col"
      BY <1>1, <2>5, <2>10 DEF StartLabel
    <3>2. \A l \in 1 .. m, x \in Columns : paper'[l][x] = paper[l][x]
      BY <2>10, <3>1 DEF TypedOn
    <3>3. Shown(m, terminal_row)'
      BY <1>1, <2>6, <2>8, <3>2 DEF Shown, Cell, Line, Behind
    <3>4. AtRest(m)'
      BY <1>1, <2>4, <3>1, <3>3 DEF AtRest, TypedOn, LastRow, Columns
    <3>5. PutInv(w, m)'
      BY <1>1, <2>10, <3>1, <3>4 DEF PutInv
    <3>6. QED
      BY <1>1, <2>2, <2>5, <3>5, ScreenIntro
  <2>11. CASE ch \notin {"\n", "\r"}
    <3>1. TypedOn(m, ch, k + 1 = VGA_WIDTH) /\ regs'[w].pc = "arg_row"
      BY <1>1, <2>5, <2>6, <2>11 DEF StartLabel
    <3>2. \A l \in 1 .. m, x \in Columns : paper'[l][x] = IF l = m /\ x = k THEN ch ELSE paper[l][x]
      BY <2>6, <2>11, <3>1 DEF TypedOn
    <3>3. ShownBut(m, terminal_row, terminal_column)'
      BY <1>1, <2>6, <2>8, <3>2 DEF ShownBut, Cell, Line, Behind
    <3>4. Lines(m, terminal_column + 1 = VGA_WIDTH)'
      BY <1>1, <2>6, <3>1 DEF TypedOn, Lines, Fresh, Behind
    <3>5. paper'[m][terminal_column'] = regs'[w].c
      BY <1>1, <2>4, <2>6, <3>2
    <3>6. BeforeCell(w, m)'
      BY <1>1, <2>4, <3>1, <3>3, <3>4, <3>5 DEF BeforeCell, LastRow, Columns
    <3>7. PutInv(w, m)'
      BY <1>1, <3>1, <3>6 DEF PutInv
    <3>8. QED
      BY <1>1, <2>2, <2>5, <3>7, ScreenIntro
  <2>12. QED
    BY <2>9, <2>10, <2>11
<1>4. QED
  BY <1>2, <1>3

(* The echo puts its character in one step. *)
LEMMA EchoScreen ==
  ASSUME RegsInv, PaperInv, ScreenInv, NEW ch, handle_keypress(ch)
  PROVE  PaperInv' /\ ScreenInv'
<1>1. terminal_putchar_color(ch) /\ Begins(Writers, ch) /\ regs' = regs
  BY DEF handle_keypress
<1>2. CASE torn'
  <2>1. paper' = paper
    BY <1>1, <1>2 DEF Begins
  <2>2. QED
    BY <1>2, <2>1, PaperKept DEF ScreenInv
<1>3. CASE ~torn'
  <2>1. ~torn /\ paper' = Typed(ch) /\ AllIdle
    BY <1>1, <1>3 DEF Begins, RegsInv, AllIdle
  <2>2. PICK w \in Writers, m \in Nat \ {0} : AtRest(m) /\ regs[w].y = 1
    BY <2>1, RestIs
  <2>3. PICK r, k, mem, pap, qap : r = terminal_row /\ k = terminal_column /\ mem = terminal_buffer
                                   /\ pap = paper /\ qap = paper'
    OBVIOUS
  <2>4. Len(pap) = m /\ r = LastRow(m) /\ k \in Columns /\ Shows(mem, pap, m, r) /\ 0 \in Columns
    BY <2>2, <2>3, ShownIsShows, Sizes DEF AtRest, Columns
  <2>5. /\ PaperInv'
        /\ ch = "\n" => TypedOn(m, ch, TRUE)
        /\ ch = "\r" => TypedOn(m, ch, FALSE)
        /\ ch \notin {"\n", "\r"} => TypedOn(m, ch, k + 1 = VGA_WIDTH)
    BY <2>1, <2>3, <2>4, TypedFacts
  <2>6. /\ LastRow(m) + 1 # VGA_HEIGHT => LastRow(m + 1) = LastRow(m) + 1
        /\ LastRow(m) + 1 = VGA_HEIGHT => LastRow(m + 1) = LastRow(m)
        /\ m + 1 \in Nat \ {0} /\ m \in 1 .. m
    BY LastRowFacts
  <2>7. ASSUME NEW n \in Nat \ {0}, Len(paper') = n, terminal_row' = LastRow(n), terminal_column' \in Columns,
               NEW sem, sem = terminal_buffer', Shows(sem, qap, n, LastRow(n))
        PROVE  ScreenInv'
    <3>1. Shown(n, terminal_row)'
      BY <2>3, <2>7 DEF Shown, Shows, Cell, Line, Behind
    <3>2. AtRest(n)'
      BY <2>7, <3>1 DEF AtRest, LastRow, Columns
    <3>3. PutInv(w, n)'
      BY <1>1, <2>1, <2>2, <3>2 DEF PutInv, AllIdle, Idle
    <3>4. Alone(w)'
      BY <1>1, <2>1 DEF Alone, AllIdle, Idle
    <3>5. QED
      BY <3>3, <3>4 DEF ScreenInv
  <2>8. ASSUME NEW sem, Shows(sem, qap, m, r), NextRow(sem), Len(qap) = m + 1, terminal_column' = 0,
               \A x \in Columns : qap[m + 1][x] = Behind(m)
        PROVE  ScreenInv'
    <3>1. /\ Shows(sem, qap, m + 1, r + 1)
          /\ r + 1 = VGA_HEIGHT => Shows(terminal_shift_buffer(sem), qap, m + 1, r)
      BY <2>4, <2>8, LineBreak
    <3>2. CASE r + 1 = VGA_HEIGHT
      <4>1. PICK tem : tem = terminal_shift_buffer(sem)
        OBVIOUS
      <4>2. terminal_buffer' = tem /\ terminal_row' = LastRow(m + 1)
        BY <2>3, <2>4, <2>6, <2>8, <3>2, <4>1 DEF NextRow
      <4>3. QED
        BY <2>3, <2>4, <2>6, <2>7, <2>8, <3>1, <3>2, <4>1, <4>2
    <3>3. CASE r + 1 # VGA_HEIGHT
      <4>1. terminal_buffer' = sem /\ terminal_row' = LastRow(m + 1)
        BY <2>3, <2>4, <2>6, <2>8, <3>3 DEF NextRow
      <4>2. QED
        BY <2>3, <2>4, <2>6, <2>7, <2>8, <3>1, <3>3, <4>1
    <3>4. QED
      BY <3>2, <3>3
  <2>9. ASSUME NEW more, TypedOn(m, ch, more), ch \in {"\n", "\r"} PROVE Shows(mem, qap, m, r)
    <3>1. \A l \in 1 .. m, x \in Columns : qap[l][x] = pap[l][x]
      BY <2>3, <2>9 DEF TypedOn
    <3>2. ASSUME NEW y \in 0 .. VGA_HEIGHT, y <= r PROVE (m - r) + y \in 1 .. m
      BY <2>4, <3>2, LastRowFacts, Sizes
    <3>3. QED
      BY <2>4, <3>1, <3>2 DEF Shows
  <2>10. CASE ch = "\n"
    <3>1. TypedOn(m, ch, TRUE) /\ terminal_column' = 0 /\ NextRow(mem)
      BY <1>1, <2>3, <2>5, <2>10 DEF terminal_putchar_color
    <3>2. Shows(mem, qap, m, r)
      BY <2>9, <2>10, <3>1
    <3>3. QED
      BY <2>3, <2>5, <2>8, <3>1, <3>2 DEF TypedOn
  <2>11. CASE ch = "\r"
    <3>1. TypedOn(m, ch, FALSE) /\ terminal_column' = 0 /\ UNCHANGED <<terminal_row, terminal_buffer>>
      BY <1>1, <2>5, <2>11 DEF terminal_putchar_color
    <3>2. Shows(mem, qap, m, r)
      BY <2>9, <2>11, <3>1
    <3>3. QED
      BY <2>3, <2>4, <2>5, <2>7, <3>1, <3>2 DEF TypedOn
  <2>12. CASE ch \notin {"\n", "\r"}
    <3>1. TypedOn(m, ch, k + 1 = VGA_WIDTH)
      BY <2>5, <2>12
    <3>2. PICK sem : sem = terminal_putentryat(mem, ch, k, r)
      OBVIOUS
    <3>3. Shows(sem, qap, m, r)
      <4>1. \A l \in 1 .. m, x \in Columns : qap[l][x] = IF l = m /\ x = k THEN ch ELSE pap[l][x]
        BY <2>3, <2>12, <3>1 DEF TypedOn
      <4>2. QED
        BY <2>4, <3>2, <4>1, TypedCell
    <3>4. CASE k + 1 = VGA_WIDTH
      <4>1. terminal_column' = 0 /\ NextRow(sem)
        BY <1>1, <2>3, <2>12, <3>2, <3>4 DEF terminal_putchar_color
      <4>2. QED
        BY <2>3, <2>5, <2>8, <3>1, <3>3, <3>4, <4>1 DEF TypedOn
    <3>5. CASE k + 1 # VGA_WIDTH
      <4>1. terminal_column' = k + 1 /\ terminal_buffer' = sem /\ terminal_row' = r
        BY <1>1, <2>3, <2>12, <3>2, <3>5 DEF terminal_putchar_color
      <4>2. k + 1 \in Columns
        BY <2>4, <3>5, Sizes DEF Columns
      <4>3. QED
        BY <2>3, <2>4, <2>5, <2>7, <3>1, <3>3, <3>5, <4>1, <4>2 DEF TypedOn
    <3>6. QED
      BY <3>4, <3>5
  <2>13. QED
    BY <2>10, <2>11, <2>12
<1>4. QED
  BY <1>2, <1>3

LEMMA ScreenInit == ConsoleInit => PaperInv /\ ScreenInv
<1>1. SUFFICES ASSUME ConsoleInit PROVE PaperInv /\ ScreenInv
  OBVIOUS
<1>2. /\ regs = [w \in Writers |-> IdleRegs] /\ terminal_row = 0 /\ terminal_column = 0
      /\ paper = <<BlankRow>> /\ 0 \in Columns /\ LastRow(1) = 0
      /\ terminal_buffer = [k \in Memory |-> IF k < VGA_HEIGHT * VGA_WIDTH THEN Blank ELSE Junk]
  BY <1>1, Sizes DEF ConsoleInit, TermInit, Columns, LastRow
<1>3. paper \in Seq([Columns -> {Blank}]) /\ Len(paper) = 1 /\ \A x \in Columns : paper[1][x] = Blank
  <2>1. BlankRow \in [Columns -> {Blank}] /\ \A x \in Columns : BlankRow[x] = Blank
    BY DEF BlankRow
  <2> DEFINE U == [Columns -> {Blank}]
  <2> HIDE DEF U
  <2>2. ASSUME NEW row \in U PROVE <<row>> \in Seq(U) /\ Len(<<row>>) = 1 /\ <<row>>[1] = row
    OBVIOUS
  <2>3. BlankRow \in U
    BY <2>1 DEF U
  <2>4. paper \in Seq(U) /\ Len(paper) = 1 /\ paper[1] = BlankRow
    BY <1>2, <2>2, <2>3
  <2>5. QED
    BY <2>1, <2>4 DEF U
<1>4. Shown(1, 0)
  <2>1. SUFFICES ASSUME NEW x \in Columns, NEW y \in 0 .. VGA_HEIGHT PROVE Cell(x, y) = Line(1, 0, x, y)
    BY DEF Shown
  <2>2. ASSUME NEW n \in Nat \ {0}, NEW h \in Nat \ {0}, NEW l \in 0 .. h, NEW k \in 0 .. (n - 1)
        PROVE  l * n + k < h * n <=> l < h
    <3>1. CASE l < h
      BY <3>1, RowBound
    <3>2. CASE l = h
      BY <3>2
    <3>3. QED
      BY <3>1, <3>2
  <2>3. VGA_INDEX(x, y) < VGA_HEIGHT * VGA_WIDTH <=> y < VGA_HEIGHT
    BY <2>2, Sizes DEF VGA_INDEX, Columns
  <2>4. Cell(x, y) = Behind(y)
    BY <1>2, <2>3, IndexFacts DEF Cell, Behind
  <2>5. CASE y = 0
    <3>1. (1 - 0) + y = 1 /\ y <= 0 /\ y < VGA_HEIGHT
      BY <2>5, Sizes
    <3>2. QED
      BY <1>3, <2>4, <3>1 DEF Line, Behind
  <2>6. CASE y # 0
    BY <2>4, <2>6 DEF Line
  <2>7. QED
    BY <2>5, <2>6
<1>5. AtRest(1)
  BY <1>2, <1>3, <1>4 DEF AtRest
<1>6. PICK w \in Writers : TRUE
  BY DEF Writers
<1>7. regs[w].pc = "idle" /\ regs[w].y = 1 /\ \A v \in Writers : Idle(v)
  BY <1>2 DEF IdleRegs, Idle
<1>8. PutInv(w, 1) /\ Alone(w)
  BY <1>5, <1>7 DEF PutInv, Alone
<1>9. PaperInv
  BY <1>3, Zenon DEF PaperInv
<1>10. ScreenInv
  BY <1>8 DEF ScreenInv
<1>11. QED
  BY <1>9, <1>10

LEMMA ScreenStutter ==
  ASSUME PaperInv, ScreenInv, UNCHANGED <<termVars, regs, torn>>
  PROVE  PaperInv' /\ ScreenInv'
<1>1. PaperInv'
  BY PaperKept DEF termVars
<1>2. ASSUME ~torn' PROVE ScreenInv'
  <2>1. PICK w \in Writers, m \in Nat \ {0} : Alone(w) /\ PutInv(w, m)
    BY <1>2 DEF ScreenInv
  <2>2. UNCHANGED <<terminal_row, terminal_column, terminal_buffer, paper, regs>>
    BY DEF termVars, cursorVars
  <2>3. /\ AtRest(m) => AtRest(m)'
        /\ AtTest(m) => AtTest(m)'
        /\ BeforeCell(w, m) => BeforeCell(w, m)'
        /\ AfterCell(w, m) => AfterCell(w, m)'
        /\ BeforeRow(w, m) => BeforeRow(w, m)'
        /\ AfterRow(w, m) => AfterRow(w, m)'
        /\ Shifting(w, m) => Shifting(w, m)'
    BY <2>2 DEF AtRest, AtTest, BeforeCell, AfterCell, BeforeRow, AfterRow, Shifting, Lines, Fresh, Shown,
                ShownBut, ShownUpTo, Cell, Line, Behind, LastRow, Columns, VGA_INDEX
  <2>4. PutInv(w, m)'
    BY <2>1, <2>2, <2>3 DEF PutInv
  <2>5. Alone(w)'
    BY <2>1, <2>2 DEF Alone, Idle
  <2>6. QED
    BY <2>4, <2>5 DEF ScreenInv
<1>3. QED
  BY <1>1, <1>2 DEF ScreenInv

LEMMA ScreenStep ==
  ASSUME RegsInv, PaperInv, ScreenInv, [ConsoleNext]_consoleVars
  PROVE  PaperInv' /\ ScreenInv'
<1>1. ASSUME NEW w \in Writers, PutStep(w) PROVE PaperInv' /\ ScreenInv'
  <2>1. UNCHANGED <<paper, torn>>
    BY <1>1 DEF PutStep, ArgRow, ArgCol, StoreCell, LoadCol, StoreCol, TestCol, ResetCol, LoadRow, StoreRow,
                TestRow, Shift, LoadRowUp, StoreRowUp, termVars
  <2>2. PaperInv'
    BY <2>1, PaperKept
  <2>3. CASE torn
    BY <2>1, <2>2, <2>3 DEF ScreenInv
  <2>4. CASE ~torn
    BY <1>1, <2>2, <2>4, ArgsScreen, StoreCellScreen, LoadColScreen, StoreColScreen, TestColScreen,
       ResetColScreen, LoadRowScreen, StoreRowScreen, TestRowScreen, ShiftScreen, LoadRowUpScreen,
       StoreRowUpScreen DEF PutStep
  <2>5. QED
    BY <2>3, <2>4
<1>2. CASE PrinterPut
  <2>1. PICK ch : StartPut(Printer, ch)
    BY <1>2 DEF PrinterPut
  <2>2. Printer \in Writers
    BY DEF Writers
  <2>3. QED
    BY <2>1, <2>2, StartScreen
<1>3. CASE syscall_print
  <2>1. PICK ch : StartPut(Caller, ch)
    BY <1>3 DEF syscall_print
  <2>2. Caller \in Writers
    BY DEF Writers
  <2>3. QED
    BY <2>1, <2>2, StartScreen
<1>4. ASSUME NEW ch, handle_keypress(ch) PROVE PaperInv' /\ ScreenInv'
  BY <1>4, EchoScreen
<1>5. CASE PrinterStep \/ UNCHANGED consoleVars
  BY <1>5, ScreenStutter DEF PrinterStep, consoleVars
<1>6. QED
  BY <1>1, <1>2, <1>3, <1>4, <1>5 DEF ConsoleNext

(* As long as no character was begun in the middle of another, the screen  *)
(* of any size shows the end of what was printed and echoed whenever no    *)
(* character is half put: newline, wrap and scroll lose and repeat none.   *)
THEOREM ConsoleScreenShowsPaper == ConsoleSpec => []ScreenShowsPaper
<1> DEFINE Inv == RegsInv /\ CursorInv /\ PaperInv /\ ScreenInv
<1>1. ConsoleInit => Inv
  BY CursorInit, ScreenInit
<1>2. Inv /\ [ConsoleNext]_consoleVars => Inv'
  BY CursorStep, ScreenStep
<1>3. Inv => ScreenShowsPaper
  <2>1. SUFFICES ASSUME ScreenInv, AllIdle, ~torn PROVE OnScreen /\ ShowsPaper
    BY DEF ScreenShowsPaper
  <2>2. PICK m \in Nat \ {0} : AtRest(m)
    BY <2>1, RestIs
  <2>3. OnScreen
    BY <2>2, LastRowFacts DEF AtRest, OnScreen, Rows
  <2>4. ASSUME NEW x \in Columns, NEW y \in Rows
        PROVE  terminal_buffer[VGA_INDEX(x, y)] =
                 IF y <= terminal_row THEN paper[Len(paper) - terminal_row + y][x] ELSE Blank
    <3>1. y \in 0 .. VGA_HEIGHT /\ y < VGA_HEIGHT
      BY Sizes DEF Rows
    <3>2. QED
      BY <2>2, <3>1 DEF AtRest, Shown, Cell, Line, Behind
  <2>5. QED
    BY <2>3, <2>4 DEF ShowsPaper
<1>4. QED
  BY <1>1, <1>2, <1>3, PTL DEF ConsoleSpec

-----------------------------------------------------------------------------
(* The text: powers, quotients and sequences joined.                       *)

LEMMA PowerLaws ==
  ASSUME NEW b \in Nat
  PROVE  /\ Power(b, 0) = 1
         /\ \A n \in Nat : Power(b, n) \in Nat /\ Power(b, n + 1) = b * Power(b, n)
<1> DEFINE g == [k \in Nat |-> [x \in Nat |-> b * x]]
           Body(h) == [k \in Nat |-> IF k = 0 THEN 1 ELSE b * h[k - 1]]
           pow == CHOOSE h : h = Body(h)
<1>1. PICK f : f \in [Nat -> Nat] /\ f[0] = 1 /\ \A k \in Nat : f[k + 1] = g[k][f[k]]
  <2>1. IsSteps(g, Nat) /\ 1 \in Nat
    BY DEF IsSteps
  <2> HIDE DEF g
  <2>2. PICK f : Follows(f, 1, g, Nat)
    BY <2>1, Recursion
  <2>3. QED
    BY <2>2 DEF Follows
<1>2. f = Body(f)
  <2>1. ASSUME NEW k \in Nat PROVE f[k] = IF k = 0 THEN 1 ELSE b * f[k - 1]
    <3>1. CASE k = 0
      BY <1>1, <3>1
    <3>2. CASE k # 0
      <4>1. PICK j \in Nat : j + 1 = k /\ j = k - 1
        BY <3>2
      <4>2. f[j + 1] = b * f[j]
        BY <1>1
      <4>3. QED
        BY <3>2, <4>1, <4>2
    <3>3. QED
      BY <3>1, <3>2
  <2>2. QED
    BY <1>1, <2>1
<1>3. pow = Body(pow)
  <2> HIDE DEF Body
  <2>1. QED
    BY <1>2
<1>4. \A n : Power(b, n) = pow[n]
  BY DEF Power
<1> HIDE DEF pow
<1>5. pow[0] = 1 /\ \A n \in Nat : pow[n + 1] = b * pow[n]
  <2>1. pow[0] = 1
    BY <1>3
  <2>2. ASSUME NEW n \in Nat PROVE pow[n + 1] = b * pow[n]
    <3>1. n + 1 \in Nat /\ n + 1 # 0 /\ (n + 1) - 1 = n
      OBVIOUS
    <3>2. \A k \in Nat : pow[k] = IF k = 0 THEN 1 ELSE b * pow[k - 1]
      BY <1>3
    <3> HIDE DEF Body
    <3>3. QED
      BY <3>1, <3>2
  <2>3. QED
    BY <2>1, <2>2
<1>6. \A n \in Nat : pow[n] \in Nat
  <2> DEFINE S == {n \in Nat : pow[n] \in Nat}
  <2> HIDE DEF Body
  <2>1. 0 \in S
    BY <1>5
  <2>2. ASSUME NEW n \in Nat, n \in S PROVE n + 1 \in S
    BY <1>5, <2>2
  <2> HIDE DEF S
  <2>3. Nat \subseteq S
    BY <2>1, <2>2, NatSetInduction
  <2>4. QED
    BY <2>3 DEF S
<1>7. QED
  BY <1>4, <1>5, <1>6

LEMMA PowerMonotone ==
  ASSUME NEW b \in Nat \ {0}, NEW m \in Nat, NEW n \in Nat, m <= n
  PROVE  Power(b, m) \in Nat \ {0} /\ Power(b, m) <= Power(b, n)
<1> DEFINE P == {k \in Nat : Power(b, k) # 0}
           S == {k \in Nat : Power(b, m) <= Power(b, m + k)}
<1>1. Nat \subseteq P
  <2>1. 0 \in P
    BY PowerLaws
  <2>2. ASSUME NEW k \in Nat, k \in P PROVE k + 1 \in P
    <3>1. Power(b, k) \in Nat \ {0} /\ Power(b, k + 1) = b * Power(b, k)
      BY <2>2, PowerLaws
    <3>2. ASSUME NEW x \in Nat \ {0}, NEW y \in Nat \ {0} PROVE x * y # 0
      OBVIOUS
    <3>3. QED
      BY <3>1, <3>2
  <2> HIDE DEF P
  <2>3. QED
    BY <2>1, <2>2, NatSetInduction
<1>2. Nat \subseteq S
  <2>1. 0 \in S
    BY PowerLaws
  <2>2. ASSUME NEW k \in Nat, k \in S PROVE k + 1 \in S
    <3>1. /\ Power(b, m + k) \in Nat /\ Power(b, m) \in Nat
          /\ Power(b, (m + k) + 1) = b * Power(b, m + k) /\ m + (k + 1) = (m + k) + 1
      <4>1. m + k \in Nat /\ m + (k + 1) = (m + k) + 1 /\ b \in Nat
        OBVIOUS
      <4>2. QED
        BY <4>1, PowerLaws
    <3>2. b * Power(b, m + k) >= Power(b, m + k)
      BY <3>1
    <3>3. QED
      BY <2>2, <3>1, <3>2
  <2> HIDE DEF S
  <2>3. QED
    BY <2>1, <2>2, NatSetInduction
<1>3. n - m \in Nat /\ m + (n - m) = n
  OBVIOUS
<1>4. QED
  BY <1>1, <1>2, <1>3, PowerLaws

LEMMA PowerOfTwo ==
  ASSUME NEW b \in Nat, b >= 2, NEW n \in Nat
  PROVE  Power(2, n) <= Power(b, n)
<1> DEFINE S == {k \in Nat : Power(2, k) <= Power(b, k)}
<1>1. 0 \in S
  BY PowerLaws
<1>2. ASSUME NEW k \in Nat, k \in S PROVE k + 1 \in S
  <2>1. /\ Power(2, k) \in Nat /\ Power(b, k) \in Nat /\ Power(2, k) <= Power(b, k)
        /\ Power(2, k + 1) = 2 * Power(2, k) /\ Power(b, k + 1) = b * Power(b, k)
    BY <1>2, PowerLaws
  <2>2. 2 * Power(b, k) <= b * Power(b, k)
    BY <2>1
  <2>3. QED
    BY <2>1, <2>2
<1> HIDE DEF S
<1>3. Nat \subseteq S
  BY <1>1, <1>2, NatSetInduction
<1>4. QED
  BY <1>3 DEF S

(* The quotient by b to the n-th, and the next. *)
LEMMA DivDiv ==
  ASSUME NEW x \in Nat, NEW p \in Nat \ {0}, NEW b \in Nat \ {0}
  PROVE  /\ x \div p \in Nat /\ (x \div p) \div b = x \div (b * p)
         /\ x \div p = 0 <=> x < p
         /\ x \div p > 0 <=> x >= p
<1>1. PICK q \in Nat, r \in 0 .. (p - 1) : x = q * p + r /\ x \div p = q
  <2>1. x \div p \in Nat /\ x % p \in 0 .. (p - 1) /\ x = (x \div p) * p + (x % p)
    BY DivStep
  <2>2. QED
    BY <2>1
<1>2. PICK s \in Nat, t \in 0 .. (b - 1) : q = s * b + t /\ q \div b = s
  <2>1. q \div b \in Nat /\ q % b \in 0 .. (b - 1) /\ q = (q \div b) * b + (q % b)
    BY DivStep
  <2>2. QED
    BY <2>1
<1>3. b * p \in Nat \ {0} /\ t * p \in Nat /\ s * (b * p) \in Nat
  OBVIOUS
<1>4. t * p + r \in 0 .. (b * p - 1)
  <2>1. (t + 1) * p <= b * p
    BY <1>2
  <2>2. (t + 1) * p = t * p + p
    BY <1>2
  <2>3. QED
    BY <1>1, <1>3, <2>1, <2>2
<1>5. x = s * (b * p) + (t * p + r)
  <2>1. (s * b + t) * p = (s * b) * p + t * p
    BY <1>2
  <2>2. (s * b) * p = s * (b * p)
    BY <1>2
  <2>3. QED
    BY <1>1, <1>2, <2>1, <2>2
<1>6. x \div (b * p) = s
  BY <1>3, <1>4, <1>5, DivRow
<1>7. q = 0 <=> x < p
  <2>1. q # 0 => q * p >= p
    BY <1>1
  <2>2. QED
    BY <1>1, <2>1
<1>8. QED
  BY <1>1, <1>2, <1>6, <1>7

SeqsOf(ss, n, S) == ss \in [1 .. n -> Seq(S)]

LEMMA JoinedLaws ==
  ASSUME NEW S, NEW ss, NEW n \in Nat, SeqsOf(ss, n, S)
  PROVE  /\ Joined(ss, 0) = <<>>
         /\ \A k \in 0 .. n : Joined(ss, k) \in Seq(S)
         /\ \A k \in 0 .. (n - 1) : Joined(ss, k + 1) = Joined(ss, k) \o ss[k + 1]
<1> USE DEF SeqsOf
<1> DEFINE T == Seq(S)
           g == [k \in Nat |-> [x \in T |-> IF k + 1 \in 1 .. n THEN x \o ss[k + 1] ELSE x]]
           Body(h) == [k \in 0 .. n |-> IF k = 0 THEN <<>> ELSE h[k - 1] \o ss[k]]
           upto == CHOOSE h : h = Body(h)
<1>1. PICK f : f \in [Nat -> T] /\ f[0] = <<>> /\ \A k \in Nat : f[k + 1] = g[k][f[k]]
  <2>1. <<>> \in T
    OBVIOUS
  <2>2. ASSUME NEW x \in T, NEW k \in Nat, k + 1 \in 1 .. n PROVE x \o ss[k + 1] \in T
    <3>1. ss[k + 1] \in Seq(S)
      BY <2>2
    <3>2. QED
      BY <3>1
  <2> HIDE DEF T
  <2>3. IsSteps(g, T)
    BY <2>2 DEF IsSteps
  <2> HIDE DEF g
  <2>4. PICK f : Follows(f, <<>>, g, T)
    BY <2>1, <2>3, Recursion
  <2>5. QED
    BY <2>4 DEF Follows
<1> DEFINE h0 == [k \in 0 .. n |-> f[k]]
<1> HIDE DEF T
<1>2. ASSUME NEW k \in 0 .. (n - 1) PROVE f[k + 1] = f[k] \o ss[k + 1]
  <2>1. k \in Nat /\ k + 1 \in 1 .. n /\ f[k] \in T
    BY <1>1
  <2>2. g[k][f[k]] = f[k] \o ss[k + 1]
    BY <2>1
  <2> HIDE DEF g
  <2>3. QED
    BY <1>1, <2>1, <2>2
<1> HIDE DEF g
<1>3. h0 = Body(h0)
  <2>1. ASSUME NEW k \in 0 .. n, k # 0 PROVE h0[k] = h0[k - 1] \o ss[k]
    <3>1. PICK j \in 0 .. (n - 1) : j + 1 = k /\ j = k - 1 /\ j \in 0 .. n
      BY <2>1
    <3>2. f[j + 1] = f[j] \o ss[j + 1]
      BY <1>2
    <3>3. QED
      BY <3>1, <3>2
  <2>2. h0[0] = <<>>
    BY <1>1
  <2>3. QED
    BY <2>1, <2>2
<1>4. upto = Body(upto)
  <2> HIDE DEF Body, h0
  <2>1. QED
    BY <1>3
<1>5. ASSUME NEW k PROVE Joined(ss, k) = upto[k]
  <2>1. Len(ss) = n
    OBVIOUS
  <2>2. QED
    BY <2>1 DEF Joined
<1> HIDE DEF upto
<1>6. \A k \in 0 .. n : upto[k] = IF k = 0 THEN <<>> ELSE upto[k - 1] \o ss[k]
  BY <1>4
<1> HIDE DEF Body
<1>7. upto[0] = <<>>
  BY <1>6
<1>8. ASSUME NEW k \in 0 .. (n - 1) PROVE upto[k + 1] = upto[k] \o ss[k + 1]
  <2>1. k + 1 \in 0 .. n /\ k + 1 # 0 /\ (k + 1) - 1 = k
    OBVIOUS
  <2>2. QED
    BY <1>6, <2>1
<1>9. \A k \in 0 .. n : upto[k] \in Seq(S)
  <2> DEFINE Good == {k \in Nat : k <= n => upto[k] \in Seq(S)}
  <2>1. 0 \in Good
    <3>1. <<>> \in Seq(S)
      OBVIOUS
    <3>2. QED
      BY <1>7, <3>1
  <2>2. ASSUME NEW k \in Nat, k \in Good PROVE k + 1 \in Good
    <3>1. SUFFICES ASSUME k + 1 <= n PROVE upto[k + 1] \in Seq(S)
      OBVIOUS
    <3>2. upto[k] \in Seq(S) /\ ss[k + 1] \in Seq(S) /\ k \in 0 .. (n - 1)
      BY <2>2, <3>1
    <3>3. upto[k + 1] = upto[k] \o ss[k + 1]
      BY <1>8, <3>2
    <3>4. QED
      BY <3>2, <3>3
  <2> HIDE DEF Good
  <2>3. Nat \subseteq Good
    BY <2>1, <2>2, NatSetInduction
  <2>4. QED
    BY <2>3 DEF Good
<1>10. QED
  BY <1>5, <1>7, <1>8, <1>9

(* Sequence k + 1 follows the first k in all of them. *)
LEMMA JoinedPart ==
  ASSUME NEW S, NEW ss, NEW n \in Nat, SeqsOf(ss, n, S), NEW k \in 0 .. (n - 1)
  PROVE  /\ Len(Joined(ss, k)) + Len(ss[k + 1]) = Len(Joined(ss, k + 1))
         /\ Len(Joined(ss, k + 1)) <= Len(Joined(ss, n))
         /\ \A j \in 1 .. Len(ss[k + 1]) : Joined(ss, n)[Len(Joined(ss, k)) + j] = ss[k + 1][j]
<1> DEFINE J(m) == Joined(ss, m)
<1>1. /\ \A m \in 0 .. n : J(m) \in Seq(S)
      /\ \A m \in 0 .. (n - 1) : J(m + 1) = J(m) \o ss[m + 1]
      /\ \A m \in 0 .. (n - 1) : ss[m + 1] \in Seq(S)
  <2>1. /\ \A m \in 0 .. n : J(m) \in Seq(S)
        /\ \A m \in 0 .. (n - 1) : J(m + 1) = J(m) \o ss[m + 1]
    BY JoinedLaws
  <2>2. \A m \in 0 .. (n - 1) : m + 1 \in 1 .. n
    OBVIOUS
  <2>3. QED
    BY <2>1, <2>2 DEF SeqsOf
<1> HIDE DEF J
<1> DEFINE Good == {m \in Nat : m + (k + 1) <= n =>
                      /\ Len(J(k + 1)) <= Len(J(m + (k + 1)))
                      /\ \A j \in 1 .. Len(J(k + 1)) : J(m + (k + 1))[j] = J(k + 1)[j]}
<1>2. 0 \in Good
  <2>1. k + 1 \in 0 .. n /\ 0 + (k + 1) = k + 1
    OBVIOUS
  <2>2. Len(J(k + 1)) \in Nat
    BY <1>1, <2>1
  <2>3. QED
    BY <2>1, <2>2
<1>3. ASSUME NEW m \in Nat, m \in Good PROVE m + 1 \in Good
  <2>1. SUFFICES ASSUME (m + 1) + (k + 1) <= n
                 PROVE  /\ Len(J(k + 1)) <= Len(J((m + 1) + (k + 1)))
                        /\ \A j \in 1 .. Len(J(k + 1)) : J((m + 1) + (k + 1))[j] = J(k + 1)[j]
    OBVIOUS
  <2>2. PICK l : l = m + (k + 1)
    OBVIOUS
  <2>3. l \in 0 .. (n - 1) /\ l \in 0 .. n /\ k + 1 \in 0 .. n /\ (m + 1) + (k + 1) = l + 1 /\ l <= n
    BY <2>1, <2>2
  <2>4. /\ J(l + 1) = J(l) \o ss[l + 1] /\ J(l) \in Seq(S) /\ ss[l + 1] \in Seq(S)
        /\ J(k + 1) \in Seq(S)
    BY <1>1, <2>3
  <2>5. Len(J(k + 1)) <= Len(J(l)) /\ \A j \in 1 .. Len(J(k + 1)) : J(l)[j] = J(k + 1)[j]
    BY <1>3, <2>2, <2>3
  <2>6. Len(J(l + 1)) >= Len(J(l)) /\ \A j \in 1 .. Len(J(l)) : J(l + 1)[j] = J(l)[j]
    BY <2>4
  <2>7. Len(J(k + 1)) \in Nat /\ Len(J(l)) \in Nat /\ Len(J(l + 1)) \in Nat
    BY <2>4
  <2>8. \A j \in 1 .. Len(J(k + 1)) : j \in 1 .. Len(J(l))
    BY <2>5, <2>7
  <2>9. J((m + 1) + (k + 1)) = J(l + 1)
    BY <2>3
  <2>10. Len(J(k + 1)) <= Len(J(l + 1)) /\ \A j \in 1 .. Len(J(k + 1)) : J(l + 1)[j] = J(k + 1)[j]
    BY <2>5, <2>6, <2>7, <2>8
  <2>11. QED
    BY <2>9, <2>10
<1>4. n - (k + 1) \in Nat /\ (n - (k + 1)) + (k + 1) = n
  OBVIOUS
<1>5. /\ Len(J(k + 1)) <= Len(J(n))
      /\ \A j \in 1 .. Len(J(k + 1)) : J(n)[j] = J(k + 1)[j]
  <2> HIDE DEF Good
  <2>1. Nat \subseteq Good
    BY <1>2, <1>3, NatSetInduction
  <2>2. n - (k + 1) \in Good
    BY <1>4, <2>1
  <2>3. QED
    BY <1>4, <2>2 DEF Good
<1> HIDE DEF Good
<1>6. /\ J(k + 1) = J(k) \o ss[k + 1] /\ J(k) \in Seq(S) /\ ss[k + 1] \in Seq(S)
  BY <1>1
<1>7. /\ Len(J(k)) + Len(ss[k + 1]) = Len(J(k + 1)) /\ Len(J(k)) \in Nat /\ Len(ss[k + 1]) \in Nat
      /\ \A j \in 1 .. Len(ss[k + 1]) : J(k + 1)[Len(J(k)) + j] = ss[k + 1][j]
  BY <1>6
<1>8. \A j \in 1 .. Len(ss[k + 1]) : Len(J(k)) + j \in 1 .. Len(J(k + 1))
  BY <1>7
<1>9. QED
  BY <1>5, <1>7, <1>8 DEF J

LEMMA Bits == Width \in Nat \ {0} /\ Power(2, Width) \in Nat \ {0} /\ Power(2, Width) = 2 * Power(2, Width - 1)
              /\ Power(2, Width - 1) \in Nat \ {0}
<1>1. Width \in Nat \ {0}
  BY PrintkAssumption
<1>2. PICK v \in Nat : v + 1 = Width /\ v = Width - 1
  BY <1>1
<1>3. Power(2, v + 1) = 2 * Power(2, v)
  BY PowerLaws
<1>4. Power(2, v) \in Nat \ {0} /\ Power(2, Width) \in Nat \ {0}
  BY <1>1, PowerMonotone
<1>5. QED
  BY <1>1, <1>2, <1>3, <1>4

(* Figure i of x in base b, the lowest being figure 0. *)
Figure(x, b, i) == digits[((x \div Power(b, i)) % b) + 1]

(* What buf holds and what a format is made of. *)
Chars == STRING \cup {digits[i] : i \in 1 .. 16} \cup {"0", "x", "-", "(", "n", "i", "l", ")", "%"}

LEMMA DigitStrings == digits[1] = "0" /\ \A i \in 1 .. 16 : digits[i] \in Chars
<1>1. digits[1] = "0"
  BY DEF digits
<1>2. QED
  BY <1>1 DEF Chars

LEMMA BaseFacts ==
  ASSUME NEW b \in {10, 16}
  PROVE  /\ b \in Nat \ {0} /\ b \in Nat /\ b >= 2 /\ Power(b, 0) = 1
         /\ \A n \in Nat : Power(b, n) \in Nat \ {0} /\ Power(b, n + 1) = b * Power(b, n)
<1>1. b \in Nat \ {0} /\ b \in Nat /\ b >= 2
  OBVIOUS
<1>2. Power(b, 0) = 1
  BY <1>1, PowerLaws
<1>3. ASSUME NEW n \in Nat PROVE Power(b, n) \in Nat \ {0} /\ Power(b, n + 1) = b * Power(b, n)
  <2>1. n <= n
    OBVIOUS
  <2>2. QED
    BY <1>1, <2>1, PowerLaws, PowerMonotone
<1>4. QED
  BY <1>1, <1>2, <1>3

LEMMA NextQuotient ==
  ASSUME NEW x \in Nat, NEW b \in {10, 16}, NEW i \in Nat
  PROVE  x \div Power(b, i) \in Nat /\ (x \div Power(b, i)) \div b = x \div Power(b, i + 1)
<1>1. Power(b, i) \in Nat \ {0} /\ Power(b, i + 1) = b * Power(b, i)
  BY BaseFacts
<1>2. PICK p \in Nat \ {0} : p = Power(b, i)
  BY <1>1
<1>3. b \in Nat \ {0}
  OBVIOUS
<1>4. x \div p \in Nat /\ (x \div p) \div b = x \div (b * p)
  BY <1>3, DivDiv
<1>5. QED
  BY <1>1, <1>2, <1>4

LEMMA FigureFacts ==
  ASSUME NEW x \in Nat, NEW b \in {10, 16}, NEW i \in Nat
  PROVE  /\ Figure(x, b, i) \in Chars /\ Power(b, i) \in Nat \ {0}
<1>1. Power(b, i) \in Nat \ {0} /\ Power(b, i + 1) = b * Power(b, i)
  BY BaseFacts
<1>2. x \div Power(b, i) \in Nat
  BY NextQuotient
<1>3. ((x \div Power(b, i)) % b) + 1 \in 1 .. 16
  BY <1>2
<1>4. QED
  BY <1>1, <1>2, <1>3, DigitStrings DEF Figure

(* A numeral is as long as x needs. *)
NeedsDigits(x, b, j) == Power(b, j) > x /\ (j = 1 \/ Power(b, j - 1) <= x)

LEMMA NeedsExists ==
  ASSUME NEW b \in {10, 16}, NEW x \in Nat, x < Power(2, Width)
  PROVE  \E j \in Nat \ {0} : NeedsDigits(x, b, j)
<1> DEFINE S == {j \in Nat \ {0} : Power(b, j) > x}
<1>1. Width \in S
  <2>1. Power(2, Width) <= Power(b, Width) /\ Power(b, Width) \in Nat
    BY Bits, PowerOfTwo, BaseFacts
  <2>2. QED
    BY <2>1, Bits
<1>2. S \subseteq Nat /\ S # {}
  BY <1>1
<1>3. PICK j \in S : \A k \in S : j <= k
  <2> HIDE DEF S
  <2>1. QED
    BY <1>2, LeastNat
<1>4. ASSUME j # 1 PROVE Power(b, j - 1) <= x
  <2>1. j - 1 \in Nat \ {0} /\ ~(j <= j - 1)
    BY <1>3, <1>4
  <2>2. j - 1 \notin S
    BY <1>3, <2>1
  <2>3. Power(b, j - 1) \in Nat
    BY <2>1, PowerLaws
  <2>4. QED
    BY <2>1, <2>2, <2>3
<1>5. QED
  BY <1>3, <1>4 DEF NeedsDigits

LEMMA NumeralIs ==
  ASSUME NEW b \in {10, 16}, NEW x \in Nat, x < Power(2, Width), NEW j \in Nat \ {0}, NeedsDigits(x, b, j)
  PROVE  Numeral(x, b) = [k \in 1 .. j |-> Figure(x, b, j - k)]
<1> DEFINE len == CHOOSE k \in 1 .. Width : Power(b, k) > x /\ (k = 1 \/ Power(b, k - 1) <= x)
<1>1. j \in 1 .. Width
  <2>1. SUFFICES ASSUME j > Width PROVE FALSE
    BY Bits
  <2>2. j - 1 \in Nat /\ Width <= j - 1 /\ j # 1 /\ b \in Nat \ {0}
    BY <2>1, Bits
  <2>3. Power(b, Width) <= Power(b, j - 1) /\ Power(b, Width) \in Nat /\ Power(b, j - 1) \in Nat
    BY <2>2, Bits, PowerMonotone, PowerLaws
  <2>4. Power(2, Width) <= Power(b, Width)
    BY Bits, PowerOfTwo
  <2>5. Power(b, j - 1) <= x
    BY <2>2 DEF NeedsDigits
  <2>6. QED
    BY <2>3, <2>4, <2>5, Bits
<1>2. ASSUME NEW k \in 1 .. Width, NEW l \in 1 .. Width, NeedsDigits(x, b, k), NeedsDigits(x, b, l) PROVE ~(k < l)
  <2>1. SUFFICES ASSUME k < l PROVE FALSE
    OBVIOUS
  <2>2. k <= l - 1 /\ l - 1 \in Nat /\ k \in Nat /\ b \in Nat \ {0} /\ l # 1
    BY <2>1, Bits
  <2>3. Power(b, k) <= Power(b, l - 1) /\ Power(b, k) \in Nat /\ Power(b, l - 1) \in Nat
    BY <2>2, PowerMonotone, PowerLaws
  <2>4. Power(b, k) > x /\ Power(b, l - 1) <= x
    BY <1>2, <2>2 DEF NeedsDigits
  <2>5. QED
    BY <2>3, <2>4
<1>3. len \in 1 .. Width /\ NeedsDigits(x, b, len)
  BY <1>1 DEF NeedsDigits
<1>4. Numeral(x, b) = [k \in 1 .. len |-> digits[((x \div Power(b, len - k)) % b) + 1]]
  BY DEF Numeral
<1> HIDE DEF len
<1>5. len = j
  BY <1>1, <1>2, <1>3, Bits
<1>6. QED
  BY <1>4, <1>5 DEF Figure

LEMMA NumeralType ==
  ASSUME NEW b \in {10, 16}, NEW x \in Nat, x < Power(2, Width)
  PROVE  Numeral(x, b) \in Seq(Chars)
<1>1. PICK j \in Nat \ {0} : NeedsDigits(x, b, j)
  BY NeedsExists
<1>2. Numeral(x, b) = [k \in 1 .. j |-> Figure(x, b, j - k)]
  BY <1>1, NumeralIs
<1>3. \A k \in 1 .. j : Figure(x, b, j - k) \in Chars
  <2>1. \A k \in 1 .. j : j - k \in Nat
    OBVIOUS
  <2>2. QED
    BY <2>1, FigureFacts
<1>4. [k \in 1 .. j |-> Figure(x, b, j - k)] \in [1 .. j -> Chars]
  BY <1>3
<1>5. QED
  BY <1>2, <1>4

LEMMA NumeralZero == \A b \in {10, 16} : Numeral(0, b) = <<"0">>
<1>1. SUFFICES ASSUME NEW b \in {10, 16} PROVE Numeral(0, b) = <<"0">>
  OBVIOUS
<1>2. Power(b, 0) = 1 /\ Power(b, 1) \in Nat \ {0}
  BY BaseFacts
<1>3. NeedsDigits(0, b, 1) /\ 0 < Power(2, Width)
  BY <1>2, Bits DEF NeedsDigits
<1>4. Numeral(0, b) = [k \in 1 .. 1 |-> Figure(0, b, 1 - k)]
  <2>1. 1 \in Nat \ {0} /\ 0 \in Nat
    OBVIOUS
  <2>2. QED
    BY <1>3, <2>1, NumeralIs
<1>5. Figure(0, b, 0) = "0"
  <2>1. ((0 \div 1) % b) + 1 = 1
    OBVIOUS
  <2>2. QED
    BY <1>2, <2>1, DigitStrings DEF Figure
<1>6. [k \in 1 .. 1 |-> Figure(0, b, 1 - k)] = <<"0">>
  <2>1. \A k \in 1 .. 1 : k = 1 /\ 1 - k = 0
    OBVIOUS
  <2>2. \A k \in 1 .. 1 : Figure(0, b, 1 - k) = "0"
    BY <1>5, <2>1
  <2>3. QED
    BY <2>2
<1>7. QED
  BY <1>4, <1>6

-----------------------------------------------------------------------------
(* A number in the buffer.                                                 *)

(* w is the first j figures of x, the lowest first, behind pre. *)
Figures(w, pre, x, b, j) ==
  /\ w \in Seq(Chars) /\ Len(w) = Len(pre) + j
  /\ \A i \in 1 .. Len(pre) : w[i] = pre[i]
  /\ \A i \in 1 .. j : w[Len(pre) + i] = Figure(x, b, i - 1)

(* There is room for x in base b behind pre. *)
Room(pre, x, b) ==
  /\ b \in {10, 16} /\ pre \in Seq(Chars)
  /\ x \in Nat /\ x < Power(2, Width)
  /\ Len(pre) <= PRINTK_BUF_SIZE /\ x < Power(b, PRINTK_BUF_SIZE - Len(pre))

(* bprintu32 is j figures into x.  The figure written last was needed. *)
FiguresIn(pre, x, b, j) ==
  /\ Room(pre, x, b) /\ x # 0
  /\ base = b /\ start = Len(pre)
  /\ Figures(buf, pre, x, b, j)
  /\ a = x \div Power(b, j)
  /\ j = 0 \/ Power(b, j - 1) <= x

LEMMA BufSize == PRINTK_BUF_SIZE \in Nat /\ PRINTK_BUF_SIZE >= 5
BY PrintkAssumption

LEMMA RoomFor ==
  ASSUME NEW pre, NEW x, NEW b, NEW j \in Nat \ {0}, Room(pre, x, b), Power(b, j - 1) <= x
  PROVE  Len(pre) + j <= PRINTK_BUF_SIZE
<1>1. SUFFICES ASSUME PRINTK_BUF_SIZE < Len(pre) + j PROVE FALSE
  BY BufSize DEF Room
<1>2. PICK n \in Nat : n = PRINTK_BUF_SIZE - Len(pre)
  <2>1. Len(pre) \in Nat /\ Len(pre) <= PRINTK_BUF_SIZE
    BY DEF Room
  <2>2. PRINTK_BUF_SIZE - Len(pre) \in Nat
    BY <2>1, BufSize
  <2>3. QED
    BY <2>2
<1>3. n <= j - 1 /\ j - 1 \in Nat
  BY <1>1, <1>2, BufSize DEF Room
<1>4. b \in {10, 16} /\ b \in Nat \ {0} /\ x \in Nat /\ x < Power(b, n)
  BY <1>2, BufSize DEF Room
<1>5. Power(b, n) <= Power(b, j - 1) /\ Power(b, n) \in Nat /\ Power(b, j - 1) \in Nat
  BY <1>3, <1>4, PowerMonotone, BaseFacts
<1>6. QED
  BY <1>4, <1>5

(* One more figure behind the others. *)
LEMMA NextFigure ==
  ASSUME NEW w, NEW pre \in Seq(Chars), NEW x \in Nat, NEW b \in {10, 16}, NEW j \in Nat, Figures(w, pre, x, b, j)
  PROVE  Figures(Append(w, Figure(x, b, j)), pre, x, b, j + 1)
<1> DEFINE v == Append(w, Figure(x, b, j))
<1>1. Figure(x, b, j) \in Chars
  BY FigureFacts
<1>2. /\ v \in Seq(Chars) /\ Len(v) = Len(w) + 1 /\ v[Len(w) + 1] = Figure(x, b, j)
      /\ \A i \in 1 .. Len(w) : v[i] = w[i]
  BY <1>1 DEF Figures
<1> HIDE DEF v
<1>3. Len(w) = Len(pre) + j /\ Len(pre) \in Nat
  BY DEF Figures
<1>4. Len(v) = Len(pre) + (j + 1)
  BY <1>2, <1>3
<1>5. ASSUME NEW i \in 1 .. Len(pre) PROVE v[i] = pre[i]
  <2>1. i \in 1 .. Len(w)
    BY <1>3
  <2>2. QED
    BY <1>2, <2>1 DEF Figures
<1>6. ASSUME NEW i \in 1 .. (j + 1) PROVE v[Len(pre) + i] = Figure(x, b, i - 1)
  <2>1. CASE i = j + 1
    <3>1. i - 1 = j /\ Len(pre) + i = Len(w) + 1
      BY <1>3, <2>1
    <3>2. QED
      BY <1>2, <3>1
  <2>2. CASE i # j + 1
    <3>1. i \in 1 .. j /\ Len(pre) + i \in 1 .. Len(w)
      BY <1>3, <2>2
    <3>2. QED
      BY <1>2, <3>1 DEF Figures
  <2>3. QED
    BY <2>1, <2>2
<1>7. QED
  BY <1>2, <1>4, <1>5, <1>6 DEF Figures, v

(* What lies behind place n in w, swapped end for end. *)
Swapped(w, n) == [k \in 1 .. Len(w) |-> IF k <= n THEN w[k] ELSE w[Len(w) + n + 1 - k]]

SwappedIs(v, w, pre, x, b) == v = pre \o Numeral(x, b) /\ v \in Seq(Chars) /\ Len(v) = Len(w)

(* The figures swapped end for end are the numeral. *)
LEMMA SwappedFigures ==
  ASSUME NEW w, NEW v, NEW pre \in Seq(Chars), NEW x \in Nat, NEW b \in {10, 16}, NEW j \in Nat \ {0},
         x < Power(2, Width), Figures(w, pre, x, b, j), NeedsDigits(x, b, j),
         v = Swapped(w, Len(pre))
  PROVE  SwappedIs(v, w, pre, x, b)
<1> USE DEF Swapped
<1>1. PICK n : n = Numeral(x, b)
  OBVIOUS
<1>2. n = [k \in 1 .. j |-> Figure(x, b, j - k)]
  BY <1>1, NumeralIs
<1>3. n \in Seq(Chars) /\ Len(n) = j
  <2>1. n \in Seq(Chars)
    BY <1>1, NumeralType
  <2>2. DOMAIN n = 1 .. j
    BY <1>2
  <2>3. QED
    BY <2>1, <2>2
<1>4. Len(w) = Len(pre) + j /\ Len(pre) \in Nat /\ Len(w) \in Nat
  BY DEF Figures
<1>5. ASSUME NEW k \in 1 .. Len(w) PROVE v[k] = (pre \o n)[k]
  <2>1. CASE k <= Len(pre)
    <3>1. v[k] = w[k] /\ k \in 1 .. Len(pre)
      BY <2>1
    <3>2. (pre \o n)[k] = pre[k]
      BY <1>3, <3>1
    <3>3. QED
      BY <3>1, <3>2 DEF Figures
  <2>2. CASE ~(k <= Len(pre))
    <3>1. PICK i \in 1 .. j : k = Len(pre) + i
      <4>1. k - Len(pre) \in 1 .. j /\ k = Len(pre) + (k - Len(pre))
        BY <1>4, <2>2
      <4>2. QED
        BY <4>1
    <3>2. Len(w) + Len(pre) + 1 - k = Len(pre) + ((j + 1) - i) /\ (j + 1) - i \in 1 .. j /\ ((j + 1) - i) - 1 = j - i
      BY <1>4, <3>1
    <3>3. v[k] = w[Len(pre) + ((j + 1) - i)]
      BY <2>2, <3>2
    <3>4. w[Len(pre) + ((j + 1) - i)] = Figure(x, b, ((j + 1) - i) - 1)
      BY <3>2 DEF Figures
    <3>5. (pre \o n)[k] = n[i]
      BY <1>3, <1>4, <3>1
    <3>6. n[i] = Figure(x, b, j - i)
      BY <1>2
    <3>7. QED
      BY <3>2, <3>3, <3>4, <3>5, <3>6
  <2>3. QED
    BY <2>1, <2>2
<1>6. pre \o n \in Seq(Chars) /\ Len(pre \o n) = Len(w)
  BY <1>3, <1>4
<1>7. v = pre \o n
  <2>1. pre \o n = [k \in 1 .. Len(w) |-> (pre \o n)[k]]
    <3>1. \A s \in Seq(Chars) : s = [k \in 1 .. Len(s) |-> s[k]]
      OBVIOUS
    <3>2. QED
      BY <1>6, <3>1
  <2>2. v = [k \in 1 .. Len(w) |-> v[k]]
    OBVIOUS
  <2>3. [k \in 1 .. Len(w) |-> v[k]] = [k \in 1 .. Len(w) |-> (pre \o n)[k]]
    BY <1>5
  <2>4. QED
    BY <2>1, <2>2, <2>3
<1>8. QED
  BY <1>1, <1>6, <1>7 DEF SwappedIs

BufOK == buf \in Seq(Chars) /\ Len(buf) <= PRINTK_BUF_SIZE

(* Text t is in the buffer, or will be. *)
Formats(t) ==
  \/ ppc = "write" /\ buf = t
  \/ /\ ppc = "digits"
     /\ \E pre \in Seq(Chars), x \in Nat, b \in {10, 16} : \E j \in Nat :
          FiguresIn(pre, x, b, j) /\ t = pre \o Numeral(x, b)

LEMMA NumberBegins ==
  ASSUME NEW pre, NEW x, NEW b, Room(pre, x, b), Len(pre) < PRINTK_BUF_SIZE, bprintu32(pre, x, b)
  PROVE  \A t : t = pre \o Numeral(x, b) => BufOK' /\ Formats(t)'
<1>1. SUFFICES ASSUME NEW t, t = pre \o Numeral(x, b) PROVE BufOK' /\ Formats(t)'
  OBVIOUS
<1>2. pre \in Seq(Chars) /\ Len(pre) \in Nat /\ b \in {10, 16} /\ x \in Nat
  BY DEF Room
<1>3. CASE x = 0
  <2>1. buf' = Append(pre, "0") /\ ppc' = "write"
    BY <1>3 DEF bprintu32
  <2>2. "0" \in Chars
    BY DEF Chars
  <2>3. buf' \in Seq(Chars) /\ Len(buf') = Len(pre) + 1
    BY <1>2, <2>1, <2>2
  <2>4. BufOK'
    BY <1>2, <2>3, BufSize DEF BufOK
  <2>5. buf' = t
    <3>1. t = pre \o <<"0">>
      BY <1>1, <1>2, <1>3, NumeralZero
    <3>2. Append(pre, "0") = pre \o <<"0">>
      BY <1>2, <2>2
    <3>3. QED
      BY <2>1, <3>1, <3>2
  <2>6. QED
    BY <2>1, <2>4, <2>5 DEF Formats
<1>4. CASE x # 0
  <2>1. buf' = pre /\ ppc' = "digits" /\ start' = Len(pre) /\ a' = x /\ base' = b
    BY <1>4 DEF bprintu32
  <2>2. BufOK'
    BY <1>2, <2>1, BufSize DEF BufOK
  <2>3. Figures(pre, pre, x, b, 0)
    BY <1>2 DEF Figures
  <2>4. x \div Power(b, 0) = x
    <3>1. Power(b, 0) = 1
      BY <1>2, BaseFacts
    <3>2. \A n \in Nat : n \div 1 = n
      OBVIOUS
    <3>3. QED
      BY <1>2, <3>1, <3>2
  <2>5. FiguresIn(pre, x, b, 0)'
    BY <1>4, <2>1, <2>3, <2>4 DEF FiguresIn
  <2>6. \E j \in Nat : FiguresIn(pre, x, b, j)' /\ t = pre \o Numeral(x, b)
    BY <1>1, <2>5
  <2>7. QED
    BY <1>2, <2>1, <2>2, <2>6 DEF Formats
<1>5. QED
  BY <1>3, <1>4

LEMMA NumberDigit ==
  ASSUME Digit, BufOK, NEW t, Formats(t)
  PROVE  BufOK' /\ Formats(t)'
<1>1. /\ ppc = "digits" /\ ppc' = "digits" /\ a > 0 /\ buf' = Append(buf, digits[(a % base) + 1])
      /\ a' = a \div base /\ start' = start /\ base' = base
  BY DEF Digit
<1>2. PICK pre \in Seq(Chars), x \in Nat, b \in {10, 16} :
        \E j \in Nat : FiguresIn(pre, x, b, j) /\ t = pre \o Numeral(x, b)
  BY <1>1 DEF Formats
<1>3. PICK j \in Nat : FiguresIn(pre, x, b, j)
  BY <1>2
<1>4. /\ Room(pre, x, b) /\ x # 0 /\ b \in {10, 16} /\ pre \in Seq(Chars) /\ x \in Nat
      /\ base = b /\ start = Len(pre) /\ a = x \div Power(b, j) /\ Figures(buf, pre, x, b, j)
  BY <1>3 DEF FiguresIn, Room
<1>5. buf' = Append(buf, Figure(x, b, j))
  BY <1>1, <1>4 DEF Figure
<1>6. Figures(buf', pre, x, b, j + 1)
  BY <1>4, <1>5, NextFigure
<1>7. a' = x \div Power(b, j + 1)
  <2>2. (x \div Power(b, j)) \div b = x \div Power(b, j + 1)
    BY NextQuotient
  <2>3. QED
    BY <1>1, <1>4, <2>2
<1>8. Power(b, j) <= x
  <2>1. Power(b, j) \in Nat \ {0} /\ b \in Nat \ {0}
    BY <1>4, BaseFacts
  <2>2. QED
    BY <1>1, <1>4, <2>1, DivDiv
<1>9. j + 1 \in Nat \ {0} /\ (j + 1) - 1 = j /\ j + 1 \in Nat
  OBVIOUS
<1>10. FiguresIn(pre, x, b, j + 1)'
  BY <1>1, <1>4, <1>6, <1>7, <1>8, <1>9 DEF FiguresIn
<1>11. BufOK'
  <2>1. Len(pre) + (j + 1) <= PRINTK_BUF_SIZE
    BY <1>4, <1>8, <1>9, RoomFor
  <2>2. QED
    BY <1>6, <2>1 DEF Figures, BufOK
<1>12. QED
  BY <1>1, <1>2, <1>9, <1>10, <1>11 DEF Formats

LEMMA NumberSwap ==
  ASSUME SwapDigits, BufOK, NEW t, Formats(t)
  PROVE  BufOK' /\ Formats(t)'
<1>1. /\ ppc = "digits" /\ ppc' = "write" /\ a = 0
      /\ buf' = [k \in 1 .. Len(buf) |-> IF k <= start THEN buf[k] ELSE buf[Len(buf) + start + 1 - k]]
  BY DEF SwapDigits
<1>2. PICK pre \in Seq(Chars), x \in Nat, b \in {10, 16} :
        \E j \in Nat : FiguresIn(pre, x, b, j) /\ t = pre \o Numeral(x, b)
  BY <1>1 DEF Formats
<1>3. PICK j \in Nat : FiguresIn(pre, x, b, j)
  BY <1>2
<1>4. /\ x # 0 /\ b \in {10, 16} /\ pre \in Seq(Chars) /\ x \in Nat /\ x < Power(2, Width)
      /\ base = b /\ start = Len(pre) /\ a = x \div Power(b, j) /\ Figures(buf, pre, x, b, j)
      /\ (j = 0 \/ Power(b, j - 1) <= x)
  BY <1>3 DEF FiguresIn, Room
<1>5. x < Power(b, j) /\ Power(b, 0) = 1
  <2>1. Power(b, j) \in Nat \ {0} /\ b \in Nat \ {0} /\ Power(b, 0) = 1
    BY <1>4, BaseFacts
  <2>2. QED
    BY <1>1, <1>4, <2>1, DivDiv
<1>6. j # 0
  BY <1>4, <1>5
<1>7. NeedsDigits(x, b, j)
  <2>1. Power(b, j) \in Nat
    BY <1>4, BaseFacts
  <2>2. QED
    BY <1>4, <1>5, <1>6, <2>1 DEF NeedsDigits
<1>8. buf' = pre \o Numeral(x, b) /\ buf' \in Seq(Chars) /\ Len(buf') = Len(buf)
  <2>1. PICK i \in Nat \ {0} : i = j
    BY <1>6
  <2>2. PICK w, v : w = buf /\ v = buf'
    OBVIOUS
  <2>3. v = Swapped(w, Len(pre))
    BY <1>1, <1>4, <2>2 DEF Swapped
  <2>4. Figures(w, pre, x, b, i) /\ NeedsDigits(x, b, i) /\ x < Power(2, Width)
    BY <1>4, <1>7, <2>1, <2>2
  <2>5. SwappedIs(v, w, pre, x, b)
    BY <2>3, <2>4, SwappedFigures
  <2>6. QED
    BY <2>2, <2>5 DEF SwappedIs
<1>9. QED
  BY <1>1, <1>2, <1>8 DEF Formats, BufOK

LEMMA Prefixes ==
  /\ <<>> \in Seq(Chars) /\ Len(<<>>) = 0
  /\ <<"-">> \in Seq(Chars) /\ Len(<<"-">>) = 1
  /\ <<"0", "x">> \in Seq(Chars) /\ Len(<<"0", "x">>) = 2
  /\ <<"(", "n", "i", "l", ")">> \in Seq(Chars) /\ Len(<<"(", "n", "i", "l", ")">>) = 5
<1>1. {"0", "x", "-", "(", "n", "i", "l", ")"} \subseteq Chars
  BY DEF Chars
<1>2. QED
  BY <1>1

(* The buffer has room for every number of every conversion. *)
LEMMA Rooms ==
  ASSUME NEW n \in Nat, n < Power(2, Width)
  PROVE  /\ Room(<<>>, n, 10) /\ Room(<<>>, n, 16) /\ Room(<<"0", "x">>, n, 16)
         /\ n >= Power(2, Width - 1) => Room(<<"-">>, Power(2, Width) - n, 10)
<1>1. /\ PRINTK_BUF_SIZE \in Nat /\ PRINTK_BUF_SIZE >= 5 /\ PRINTK_BUF_SIZE - 0 = PRINTK_BUF_SIZE
      /\ PRINTK_BUF_SIZE - 1 \in Nat /\ PRINTK_BUF_SIZE - 2 \in Nat
  BY BufSize
<1>2. /\ Power(2, Width) <= Power(10, PRINTK_BUF_SIZE)
      /\ Power(2, Width - 1) < Power(10, PRINTK_BUF_SIZE - 1)
      /\ Power(2, Width) <= Power(16, PRINTK_BUF_SIZE - 2)
  BY PrintkAssumption
<1>3. /\ Power(10, PRINTK_BUF_SIZE) \in Nat /\ Power(16, PRINTK_BUF_SIZE) \in Nat
      /\ Power(10, PRINTK_BUF_SIZE - 1) \in Nat /\ Power(16, PRINTK_BUF_SIZE - 2) \in Nat
  BY <1>1, PowerLaws
<1>4. Power(16, PRINTK_BUF_SIZE - 2) <= Power(16, PRINTK_BUF_SIZE)
  <2>1. PRINTK_BUF_SIZE - 2 <= PRINTK_BUF_SIZE /\ 16 \in Nat \ {0}
    BY <1>1
  <2>2. QED
    BY <1>1, <2>1, PowerMonotone
<1>5. Power(2, Width) \in Nat \ {0} /\ Power(2, Width - 1) \in Nat \ {0} /\ Power(2, Width) = 2 * Power(2, Width - 1)
  BY Bits
<1>6. Room(<<>>, n, 10)
  BY <1>1, <1>2, <1>3, <1>5, Prefixes DEF Room
<1>7. Room(<<>>, n, 16)
  <2>1. n < Power(16, PRINTK_BUF_SIZE)
    BY <1>2, <1>3, <1>4, <1>5
  <2>2. QED
    BY <1>1, <2>1, Prefixes DEF Room
<1>8. Room(<<"0", "x">>, n, 16)
  <2>1. n < Power(16, PRINTK_BUF_SIZE - 2)
    BY <1>2, <1>3, <1>5
  <2>2. QED
    BY <1>1, <2>1, Prefixes DEF Room
<1>9. ASSUME n >= Power(2, Width - 1) PROVE Room(<<"-">>, Power(2, Width) - n, 10)
  <2>1. /\ Power(2, Width) - n \in Nat /\ Power(2, Width) - n < Power(2, Width)
        /\ Power(2, Width) - n < Power(10, PRINTK_BUF_SIZE - 1)
    BY <1>2, <1>3, <1>5, <1>9
  <2>2. QED
    BY <1>1, <2>1, Prefixes DEF Room
<1>10. QED
  BY <1>6, <1>7, <1>8, <1>9

LEMMA NumeralBehind ==
  ASSUME NEW pre, NEW x, NEW b, Room(pre, x, b)
  PROVE  pre \o Numeral(x, b) \in Seq(Chars) /\ <<>> \o Numeral(x, b) = Numeral(x, b)
<1>1. PICK n \in Seq(Chars) : n = Numeral(x, b)
  BY NumeralType DEF Room
<1>2. pre \o n \in Seq(Chars) /\ <<>> \o n = n
  BY DEF Room
<1>3. QED
  BY <1>1, <1>2

(* What a piece is in the format, and comes out as. *)
LEMMA PieceTypes ==
  ASSUME NEW p, IsPiece(p)
  PROVE  /\ p.num \in Nat /\ p.num < Power(2, Width) /\ p.str \in Seq(Chars) /\ p.conv \in Chars
         /\ PieceFormat(p) \in Seq(Chars) /\ Text(p) \in Seq(Chars)
<1>1. p.num \in Nat /\ p.num < Power(2, Width)
  BY Bits DEF IsPiece
<1>2. STRING \subseteq Chars /\ "%" \in Chars
  BY DEF Chars
<1>3. p.str \in Seq(Chars) /\ p.conv \in Chars
  <2>1. p.str \in Seq(STRING) /\ p.conv \in STRING
    BY DEF IsPiece
  <2>2. Len(p.str) \in Nat /\ p.str = [k \in 1 .. Len(p.str) |-> p.str[k]] /\ \A k \in 1 .. Len(p.str) : p.str[k] \in STRING
    BY <2>1
  <2>3. p.str \in [1 .. Len(p.str) -> Chars]
    BY <1>2, <2>2
  <2>4. PICK n \in Nat : \E w \in [1 .. n -> Chars] : w = p.str
    BY <2>2, <2>3
  <2>5. \A w \in [1 .. n -> Chars] : w \in Seq(Chars)
    OBVIOUS
  <2>6. QED
    BY <1>2, <2>1, <2>4, <2>5
<1>4. PieceFormat(p) \in Seq(Chars)
  BY <1>2, <1>3 DEF PieceFormat
<1>5. /\ Room(<<>>, p.num, 10) /\ Room(<<>>, p.num, 16) /\ Room(<<"0", "x">>, p.num, 16)
      /\ p.num >= Power(2, Width - 1) => Room(<<"-">>, Power(2, Width) - p.num, 10)
  BY <1>1, Rooms
<1>6. /\ Numeral(p.num, 10) \in Seq(Chars) /\ Numeral(p.num, 16) \in Seq(Chars)
      /\ <<"0", "x">> \o Numeral(p.num, 16) \in Seq(Chars)
      /\ p.num >= Power(2, Width - 1) => <<"-">> \o Numeral(Power(2, Width) - p.num, 10) \in Seq(Chars)
  <2>1. Numeral(p.num, 10) \in Seq(Chars) /\ Numeral(p.num, 16) \in Seq(Chars)
    BY <1>1, NumeralType
  <2>2. QED
    BY <1>5, <2>1, NumeralBehind
<1>7. Text(p) \in Seq(Chars)
  <2>1. p.num < Power(2, Width - 1) \/ p.num >= Power(2, Width - 1)
    BY <1>1, Bits
  <2>2. QED
    BY <1>3, <1>6, <2>1, Prefixes DEF Text
<1>8. QED
  BY <1>1, <1>3, <1>4, <1>7

-----------------------------------------------------------------------------
(* A message, piece by piece.                                              *)

FormatsOf(m) == [k \in 1 .. Len(m) |-> PieceFormat(m[k])]
ArgsOf(m) == [k \in 1 .. Len(m) |-> PieceArgs(m[k])]
TextsOf(m) == [k \in 1 .. Len(m) |-> Text(m[k])]

(* The format, the arguments and the text of the first k pieces. *)
FormatTo(m, k) == Joined(FormatsOf(m), k)
ArgsTo(m, k) == Joined(ArgsOf(m), k)
TextTo(m, k) == Joined(TextsOf(m), k)

PiecesOf(m) == {m[k] : k \in DOMAIN m}

LEMMA MessageSeqs ==
  ASSUME NEW m \in Messages
  PROVE  /\ Len(m) \in Nat /\ \A k \in 1 .. Len(m) : IsPiece(m[k])
         /\ SeqsOf(FormatsOf(m), Len(m), Chars) /\ SeqsOf(TextsOf(m), Len(m), Chars)
         /\ SeqsOf(ArgsOf(m), Len(m), PiecesOf(m))
<1>1. m \in Seq(PiecesOf(m)) /\ \A k \in DOMAIN m : IsPiece(m[k])
  BY PrintkAssumption DEF PiecesOf
<1>2. Len(m) \in Nat /\ DOMAIN m = 1 .. Len(m)
  BY <1>1
<1>3. \A k \in 1 .. Len(m) : IsPiece(m[k]) /\ m[k] \in PiecesOf(m)
  BY <1>1, <1>2
<1>4. \A k \in 1 .. Len(m) : PieceFormat(m[k]) \in Seq(Chars) /\ Text(m[k]) \in Seq(Chars)
  BY <1>3, PieceTypes
<1>5. \A k \in 1 .. Len(m) : PieceArgs(m[k]) \in Seq(PiecesOf(m))
  BY <1>3 DEF PieceArgs
<1>6. SeqsOf(FormatsOf(m), Len(m), Chars)
  BY <1>4 DEF SeqsOf, FormatsOf
<1>7. SeqsOf(TextsOf(m), Len(m), Chars)
  BY <1>4 DEF SeqsOf, TextsOf
<1>8. SeqsOf(ArgsOf(m), Len(m), PiecesOf(m))
  BY <1>5 DEF SeqsOf, ArgsOf
<1>9. QED
  BY <1>2, <1>3, <1>6, <1>7, <1>8

LEMMA PieceAt ==
  ASSUME NEW m \in Messages, NEW k \in 0 .. (Len(m) - 1)
  PROVE  /\ FormatsOf(m)[k + 1] = PieceFormat(m[k + 1]) /\ ArgsOf(m)[k + 1] = PieceArgs(m[k + 1])
         /\ TextsOf(m)[k + 1] = Text(m[k + 1]) /\ IsPiece(m[k + 1])
         /\ k \in 0 .. Len(m) /\ k + 1 \in 0 .. Len(m) /\ Len(m) \in 0 .. Len(m)
<1>1. Len(m) \in Nat
  BY MessageSeqs
<1>2. k + 1 \in 1 .. Len(m) /\ k \in 0 .. Len(m) /\ k + 1 \in 0 .. Len(m) /\ Len(m) \in 0 .. Len(m)
  BY <1>1
<1>3. IsPiece(m[k + 1])
  BY <1>2, MessageSeqs
<1>4. QED
  BY <1>2, <1>3 DEF FormatsOf, ArgsOf, TextsOf

(* Piece k + 1 in the format. *)
LEMMA PieceInFormat ==
  ASSUME NEW m \in Messages, NEW k \in 0 .. (Len(m) - 1)
  PROVE  LET f == PieceFormat(m[k + 1])
         IN  /\ Len(FormatTo(m, k)) \in Nat /\ Len(f) \in Nat
             /\ Len(FormatTo(m, k)) + Len(f) = Len(FormatTo(m, k + 1))
             /\ Len(FormatTo(m, k + 1)) <= Len(FormatTo(m, Len(m)))
             /\ \A j \in 1 .. Len(f) : FormatTo(m, Len(m))[Len(FormatTo(m, k)) + j] = f[j]
<1>1. Len(m) \in Nat /\ SeqsOf(FormatsOf(m), Len(m), Chars)
  BY MessageSeqs
<1> PICK n \in Nat : n = Len(m)
  BY <1>1
<1>2. PICK ss : n = Len(m) /\ ss = FormatsOf(m)
  OBVIOUS
<1>3. SeqsOf(ss, n, Chars) /\ k \in 0 .. (n - 1) /\ k \in 0 .. n
  BY <1>1, <1>2
<1>4. /\ Len(Joined(ss, k)) + Len(ss[k + 1]) = Len(Joined(ss, k + 1))
      /\ Len(Joined(ss, k + 1)) <= Len(Joined(ss, n))
      /\ \A j \in 1 .. Len(ss[k + 1]) : Joined(ss, n)[Len(Joined(ss, k)) + j] = ss[k + 1][j]
  BY <1>3, JoinedPart
<1>5. Joined(ss, k) \in Seq(Chars)
  BY <1>3, JoinedLaws
<1>6. ss[k + 1] = PieceFormat(m[k + 1]) /\ PieceFormat(m[k + 1]) \in Seq(Chars)
  BY <1>2, PieceAt, PieceTypes
<1>7. Len(Joined(ss, k)) \in Nat /\ Len(PieceFormat(m[k + 1])) \in Nat
  BY <1>5, <1>6
<1>8. QED
  BY <1>2, <1>4, <1>6, <1>7 DEF FormatTo

LEMMA PieceInArgs ==
  ASSUME NEW m \in Messages, NEW k \in 0 .. (Len(m) - 1)
  PROVE  LET p == PieceArgs(m[k + 1])
         IN  /\ Len(ArgsTo(m, k)) \in Nat
             /\ Len(ArgsTo(m, k)) + Len(p) = Len(ArgsTo(m, k + 1))
             /\ \A j \in 1 .. Len(p) : ArgsTo(m, Len(m))[Len(ArgsTo(m, k)) + j] = p[j]
<1>1. Len(m) \in Nat /\ SeqsOf(ArgsOf(m), Len(m), PiecesOf(m))
  BY MessageSeqs
<1> PICK n \in Nat : n = Len(m)
  BY <1>1
<1>2. PICK ss, S : n = Len(m) /\ ss = ArgsOf(m) /\ S = PiecesOf(m)
  OBVIOUS
<1>3. SeqsOf(ss, n, S) /\ k \in 0 .. (n - 1) /\ k \in 0 .. n
  BY <1>1, <1>2
<1>4. /\ Len(Joined(ss, k)) + Len(ss[k + 1]) = Len(Joined(ss, k + 1))
      /\ Len(Joined(ss, k + 1)) <= Len(Joined(ss, n))
      /\ \A j \in 1 .. Len(ss[k + 1]) : Joined(ss, n)[Len(Joined(ss, k)) + j] = ss[k + 1][j]
  BY <1>3, JoinedPart
<1>5. Joined(ss, k) \in Seq(S)
  BY <1>3, JoinedLaws
<1>6. ss[k + 1] = PieceArgs(m[k + 1])
  BY <1>2, PieceAt
<1>7. Len(Joined(ss, k)) \in Nat
  BY <1>5
<1>8. QED
  BY <1>2, <1>4, <1>6, <1>7 DEF ArgsTo

LEMMA PieceInText ==
  ASSUME NEW m \in Messages, NEW k \in 0 .. (Len(m) - 1)
  PROVE  /\ TextTo(m, k) \in Seq(Chars) /\ TextTo(m, k + 1) = TextTo(m, k) \o Text(m[k + 1])
<1>1. Len(m) \in Nat /\ SeqsOf(TextsOf(m), Len(m), Chars)
  BY MessageSeqs
<1> PICK n \in Nat : n = Len(m)
  BY <1>1
<1>2. PICK ss : n = Len(m) /\ ss = TextsOf(m)
  OBVIOUS
<1>3. SeqsOf(ss, n, Chars) /\ k \in 0 .. (n - 1) /\ k \in 0 .. n
  BY <1>1, <1>2
<1>4. Joined(ss, k) \in Seq(Chars) /\ Joined(ss, k + 1) = Joined(ss, k) \o ss[k + 1]
  BY <1>3, JoinedLaws
<1>5. ss[k + 1] = Text(m[k + 1])
  BY <1>2, PieceAt
<1>6. QED
  BY <1>2, <1>4, <1>5 DEF TextTo

LEMMA NothingYet ==
  ASSUME NEW m \in Messages
  PROVE  FormatTo(m, 0) = <<>> /\ ArgsTo(m, 0) = <<>> /\ TextTo(m, 0) = <<>>
<1>1. PICK n \in Nat : n = Len(m)
  BY MessageSeqs
<1>2. SeqsOf(FormatsOf(m), n, Chars) /\ SeqsOf(ArgsOf(m), n, PiecesOf(m)) /\ SeqsOf(TextsOf(m), n, Chars)
  BY <1>1, MessageSeqs
<1>3. Joined(FormatsOf(m), 0) = <<>>
  BY <1>2, JoinedLaws
<1>4. Joined(ArgsOf(m), 0) = <<>>
  BY <1>2, JoinedLaws
<1>5. Joined(TextsOf(m), 0) = <<>>
  BY <1>2, JoinedLaws
<1>6. QED
  BY <1>3, <1>4, <1>5 DEF FormatTo, ArgsTo, TextTo

(* vprintk begins to format number piece p. *)
FormatsPiece(p) ==
  \/ p.conv = "u" /\ bprintu32(<<>>, p.num, 10)
  \/ p.conv = "x" /\ bprintu32(<<>>, p.num, 16)
  \/ p.conv = "d" /\ bprints32(p.num)
  \/ p.conv = "p" /\ bprintptr(p.num)

LEMMA ConvertNumber ==
  ASSUME NEW p, IsPiece(p), FormatsPiece(p)
  PROVE  \A t : t = Text(p) => BufOK' /\ Formats(t)'
<1>1. SUFFICES ASSUME NEW t, t = Text(p) PROVE BufOK' /\ Formats(t)'
  OBVIOUS
<1>2. PICK n \in Nat : n = p.num /\ n < Power(2, Width)
  BY PieceTypes
<1>3. /\ Room(<<>>, n, 10) /\ Room(<<>>, n, 16) /\ Room(<<"0", "x">>, n, 16)
      /\ n >= Power(2, Width - 1) => Room(<<"-">>, Power(2, Width) - n, 10)
  BY <1>2, Rooms
<1>4. Len(<<>>) < PRINTK_BUF_SIZE /\ Len(<<"-">>) < PRINTK_BUF_SIZE /\ Len(<<"0", "x">>) < PRINTK_BUF_SIZE
  BY BufSize, Prefixes
<1>5. <<>> \o Numeral(n, 10) = Numeral(n, 10) /\ <<>> \o Numeral(n, 16) = Numeral(n, 16)
  BY <1>3, NumeralBehind
<1>6. CASE p.conv = "u" /\ bprintu32(<<>>, n, 10)
  <2>1. t = <<>> \o Numeral(n, 10)
    BY <1>1, <1>2, <1>5, <1>6 DEF Text
  <2>2. QED
    BY <1>3, <1>4, <1>6, <2>1, NumberBegins
<1>7. CASE p.conv = "x" /\ bprintu32(<<>>, n, 16)
  <2>1. t = <<>> \o Numeral(n, 16)
    BY <1>1, <1>2, <1>5, <1>7 DEF Text
  <2>2. QED
    BY <1>3, <1>4, <1>7, <2>1, NumberBegins
<1>8. CASE p.conv = "d" /\ bprints32(n)
  <2>1. t = IF n < Power(2, Width - 1) THEN Numeral(n, 10) ELSE <<"-">> \o Numeral(Power(2, Width) - n, 10)
    BY <1>1, <1>2, <1>8 DEF Text
  <2>2. Power(2, Width - 1) \in Nat
    BY Bits
  <2>3. CASE n >= Power(2, Width - 1)
    <3>1. bprintu32(<<"-">>, Power(2, Width) - n, 10)
      BY <1>8, <2>3 DEF bprints32, Negated
    <3>2. t = <<"-">> \o Numeral(Power(2, Width) - n, 10)
      BY <2>1, <2>2, <2>3
    <3>3. QED
      BY <1>3, <1>4, <2>3, <3>1, <3>2, NumberBegins
  <2>4. CASE ~(n >= Power(2, Width - 1))
    <3>1. bprintu32(<<>>, n, 10)
      BY <1>8, <2>4 DEF bprints32
    <3>2. t = <<>> \o Numeral(n, 10)
      BY <1>5, <2>1, <2>2, <2>4
    <3>3. QED
      BY <1>3, <1>4, <3>1, <3>2, NumberBegins
  <2>5. QED
    BY <2>3, <2>4
<1>9. CASE p.conv = "p" /\ bprintptr(n)
  <2>1. t = IF n = 0 THEN <<"(", "n", "i", "l", ")">> ELSE <<"0", "x">> \o Numeral(n, 16)
    BY <1>1, <1>2, <1>9 DEF Text
  <2>2. CASE n = 0
    <3>1. buf' = <<"(", "n", "i", "l", ")">> /\ ppc' = "write"
      BY <1>9, <2>2 DEF bprintptr
    <3>2. buf' = t /\ BufOK'
      BY <2>1, <2>2, <3>1, BufSize, Prefixes DEF BufOK
    <3>3. QED
      BY <3>1, <3>2 DEF Formats
  <2>3. CASE n # 0
    <3>1. bprintu32(<<"0", "x">>, n, 16)
      BY <1>9, <2>3 DEF bprintptr
    <3>2. t = <<"0", "x">> \o Numeral(n, 16)
      BY <2>1, <2>3
    <3>3. QED
      BY <1>3, <1>4, <3>1, <3>2, NumberBegins
  <2>4. QED
    BY <2>2, <2>3
<1>10. QED
  BY <1>2, <1>6, <1>7, <1>8, <1>9 DEF FormatsPiece

-----------------------------------------------------------------------------
(* vprintk is before piece k + 1 of message m, behind its '%', or has its  *)
(* number in hand.                                                         *)
Scanning(m, k) ==
  /\ ppc = "scan" /\ idle = TRUE
  /\ cursor = Len(FormatTo(m, k)) + 1 /\ arg = Len(ArgsTo(m, k)) /\ printed = TextTo(m, k)

Converting(m, k) ==
  /\ ppc = "scan" /\ idle = FALSE /\ m[k + 1].conv # "none"
  /\ cursor = Len(FormatTo(m, k)) + 2 /\ arg = Len(ArgsTo(m, k)) /\ printed = TextTo(m, k)

Formatting(m, k) ==
  /\ Formats(Text(m[k + 1])) /\ idle = TRUE
  /\ cursor = Len(FormatTo(m, k + 1)) + 1 /\ arg = Len(ArgsTo(m, k + 1)) /\ printed = TextTo(m, k)

AtPiece(m) ==
  \/ \E k \in 0 .. Len(m) : Scanning(m, k)
  \/ \E k \in 0 .. (Len(m) - 1) : Converting(m, k) \/ Formatting(m, k)

TextInv == BufOK /\ msg \in Messages /\ AtPiece(msg)

textVars == <<msg, cursor, idle, arg, ppc, numVars, printed>>

LEMMA TextUnchanged ==
  ASSUME TextInv, UNCHANGED textVars
  PROVE  TextInv'
<1>1. /\ msg' = msg /\ cursor' = cursor /\ idle' = idle /\ arg' = arg /\ ppc' = ppc /\ buf' = buf
      /\ start' = start /\ a' = a /\ base' = base /\ printed' = printed
  BY DEF textVars, numVars
<1>2. PICK m \in Messages : m = msg
  BY DEF TextInv
<1>3. ASSUME NEW t, Formats(t) PROVE Formats(t)'
  BY <1>1, <1>3 DEF Formats, FiguresIn
<1>4. ASSUME NEW k PROVE (Scanning(m, k) => Scanning(m, k)') /\ (Converting(m, k) => Converting(m, k)')
  BY <1>1 DEF Scanning, Converting
<1>5. ASSUME NEW k PROVE Formatting(m, k) => Formatting(m, k)'
  <2>1. PICK t : t = Text(m[k + 1])
    OBVIOUS
  <2>2. Formats(t) => Formats(t)'
    BY <1>3
  <2>3. QED
    BY <1>1, <2>1, <2>2 DEF Formatting
<1>6. AtPiece(m) => AtPiece(m)'
  BY <1>4, <1>5 DEF AtPiece
<1>7. BufOK'
  BY <1>1 DEF TextInv, BufOK
<1>8. QED
  BY <1>1, <1>2, <1>6, <1>7 DEF TextInv

LEMMA TextInit ==
  ASSUME PrintkInit
  PROVE  TextInv
<1>1. /\ msg \in Messages /\ cursor = 1 /\ idle = TRUE /\ arg = 0 /\ ppc = "scan" /\ buf = <<>> /\ printed = <<>>
  BY DEF PrintkInit
<1>2. PICK m \in Messages : m = msg
  BY <1>1
<1>3. BufOK
  BY <1>1, Prefixes, BufSize DEF BufOK
<1>4. FormatTo(m, 0) = <<>> /\ ArgsTo(m, 0) = <<>> /\ TextTo(m, 0) = <<>> /\ Len(<<>>) = 0
  BY NothingYet, Prefixes
<1>5. Scanning(m, 0)
  BY <1>1, <1>4 DEF Scanning
<1>6. 0 \in 0 .. Len(m)
  BY MessageSeqs
<1>7. QED
  BY <1>2, <1>3, <1>5, <1>6 DEF TextInv, AtPiece

LEMMA FormatLen ==
  ASSUME NEW m \in Messages, NEW k \in 0 .. Len(m)
  PROVE  Len(FormatTo(m, k)) \in Nat
<1> PICK n \in Nat : n = Len(m)
  BY MessageSeqs
<1>1. SeqsOf(FormatsOf(m), n, Chars) /\ k \in 0 .. n
  BY MessageSeqs
<1>2. Joined(FormatsOf(m), k) \in Seq(Chars)
  BY <1>1, JoinedLaws
<1>3. QED
  BY <1>2 DEF FormatTo

(* With the cursor in the format there is a piece to come. *)
LEMMA PieceToScan ==
  ASSUME NEW m \in Messages, m = msg, AtPiece(m), AtCursor
  PROVE  /\ fmt = FormatTo(m, Len(m)) /\ args = ArgsTo(m, Len(m))
         /\ \E k \in 0 .. (Len(m) - 1) : Scanning(m, k) \/ Converting(m, k)
<1>1. fmt = FormatTo(m, Len(m)) /\ args = ArgsTo(m, Len(m))
  BY DEF fmt, args, FormatTo, ArgsTo, FormatsOf, ArgsOf
<1>2. ppc = "scan" /\ cursor <= Len(FormatTo(m, Len(m)))
  BY <1>1 DEF AtCursor
<1>3. ~Scanning(m, Len(m))
  <2>1. Len(m) \in 0 .. Len(m)
    BY MessageSeqs
  <2>2. Len(FormatTo(m, Len(m))) \in Nat
    BY <2>1, FormatLen
  <2>3. QED
    BY <1>2, <2>2 DEF Scanning
<1>4. \A k \in 0 .. Len(m) : k = Len(m) \/ k \in 0 .. (Len(m) - 1)
  BY MessageSeqs
<1>5. \A k : ~Formatting(m, k)
  BY <1>2 DEF Formatting, Formats
<1>6. QED
  BY <1>1, <1>3, <1>4, <1>5 DEF AtPiece

LEMMA ScanText ==
  ASSUME TextInv, ScanIdle
  PROVE  TextInv'
<1>1. /\ AtCursor /\ idle /\ cursor' = cursor + 1 /\ msg' = msg /\ arg' = arg /\ ppc' = ppc /\ buf' = buf
      /\ IF fmt[cursor] # "%" THEN printed' = printed \o <<fmt[cursor]>> /\ idle' = idle
                              ELSE idle' = FALSE /\ printed' = printed
  BY DEF ScanIdle, terminal_write, numVars
<1>2. PICK m \in Messages : m = msg
  BY DEF TextInv
<1>3. fmt = FormatTo(m, Len(m)) /\ \E k \in 0 .. (Len(m) - 1) : Scanning(m, k) \/ Converting(m, k)
  BY <1>1, <1>2, PieceToScan DEF TextInv
<1>4. PICK k \in 0 .. (Len(m) - 1) : Scanning(m, k)
  BY <1>1, <1>3 DEF Converting
<1>5. /\ ppc = "scan" /\ idle = TRUE /\ cursor = Len(FormatTo(m, k)) + 1
      /\ arg = Len(ArgsTo(m, k)) /\ printed = TextTo(m, k)
  BY <1>4 DEF Scanning
<1>6. PICK p : p = m[k + 1]
  OBVIOUS
<1>7. IsPiece(p) /\ k + 1 \in 0 .. Len(m)
  BY <1>6, PieceAt
<1>8. /\ Len(FormatTo(m, k)) \in Nat /\ Len(PieceFormat(p)) \in Nat
      /\ Len(FormatTo(m, k)) + Len(PieceFormat(p)) = Len(FormatTo(m, k + 1))
      /\ \A j \in 1 .. Len(PieceFormat(p)) : fmt[Len(FormatTo(m, k)) + j] = PieceFormat(p)[j]
  BY <1>3, <1>6, PieceInFormat
<1>9. /\ Len(ArgsTo(m, k)) \in Nat /\ Len(ArgsTo(m, k)) + Len(PieceArgs(p)) = Len(ArgsTo(m, k + 1))
  BY <1>6, PieceInArgs
<1>10. TextTo(m, k) \in Seq(Chars) /\ TextTo(m, k + 1) = TextTo(m, k) \o Text(p)
  BY <1>6, PieceInText
<1>11. BufOK'
  BY <1>1 DEF TextInv, BufOK
<1>12. CASE p.conv = "none"
  <2>1. Len(p.str) = 1 /\ p.str[1] # "%" /\ p.str \in Seq(Chars)
    BY <1>7, <1>12, PieceTypes DEF IsPiece
  <2>2. PieceFormat(p) = p.str /\ Text(p) = p.str
    BY <1>12 DEF PieceFormat, Text
  <2>3. PieceArgs(p) = <<>>
    BY <1>12 DEF PieceArgs
  <2>4. fmt[cursor] = p.str[1] /\ fmt[cursor] # "%"
    BY <1>5, <1>8, <2>1, <2>2
  <2>5. <<fmt[cursor]>> = p.str
    <3>1. \A s \in Seq(Chars) : Len(s) = 1 => s = <<s[1]>>
      OBVIOUS
    <3>2. QED
      BY <2>1, <2>4, <3>1
  <2>6. printed' = TextTo(m, k + 1) /\ idle' = TRUE
    BY <1>1, <1>5, <1>10, <2>2, <2>4, <2>5
  <2>7. cursor' = Len(FormatTo(m, k + 1)) + 1
    BY <1>1, <1>5, <1>8, <2>1, <2>2
  <2>8. arg' = Len(ArgsTo(m, k + 1))
    BY <1>1, <1>5, <1>9, <2>3, Prefixes
  <2>9. Scanning(m, k + 1)'
    BY <1>1, <1>5, <2>6, <2>7, <2>8 DEF Scanning
  <2>10. QED
    BY <1>1, <1>2, <1>7, <1>11, <2>9 DEF TextInv, AtPiece
<1>13. CASE p.conv # "none"
  <2>1. PieceFormat(p) = <<"%", p.conv>>
    BY <1>13 DEF PieceFormat
  <2>2. Len(PieceFormat(p)) = 2 /\ PieceFormat(p)[1] = "%"
    BY <2>1
  <2>3. fmt[cursor] = "%"
    BY <1>5, <1>8, <2>2
  <2>4. idle' = FALSE /\ printed' = printed /\ cursor' = Len(FormatTo(m, k)) + 2
    BY <1>1, <1>5, <1>8, <2>3
  <2>5. Converting(m, k)'
    BY <1>1, <1>5, <1>6, <1>13, <2>4 DEF Converting
  <2>6. QED
    BY <1>1, <1>2, <1>11, <2>5 DEF TextInv, AtPiece
<1>14. QED
  BY <1>12, <1>13

LEMMA ConvertText ==
  ASSUME TextInv, Convert
  PROVE  TextInv'
<1> DEFINE c == fmt[cursor]
           x == args[arg + 1].num
           Taking == {"u", "x", "d", "p", "s"}
<1>1. /\ AtCursor /\ ~idle /\ cursor' = cursor + 1 /\ msg' = msg /\ idle' = TRUE
      /\ arg' = (IF c \in Taking THEN arg + 1 ELSE arg)
      /\ c = "u" => bprintu32(<<>>, x, 10)
      /\ c = "x" => bprintu32(<<>>, x, 16)
      /\ c = "d" => bprints32(x)
      /\ c = "p" => bprintptr(x)
      /\ c \notin {"u", "x", "d", "p"} => UNCHANGED <<numVars, ppc>>
      /\ printed' = IF c = "s" THEN printed \o args[arg + 1].str ELSE printed
  BY DEF Convert, terminal_write
<1>2. PICK m \in Messages : m = msg
  BY DEF TextInv
<1>3. /\ fmt = FormatTo(m, Len(m)) /\ args = ArgsTo(m, Len(m))
      /\ \E k \in 0 .. (Len(m) - 1) : Scanning(m, k) \/ Converting(m, k)
  BY <1>1, <1>2, PieceToScan DEF TextInv
<1>4. PICK k \in 0 .. (Len(m) - 1) : Converting(m, k)
  BY <1>1, <1>3 DEF Scanning
<1>5. PICK p : p = m[k + 1]
  OBVIOUS
<1>6. /\ ppc = "scan" /\ p.conv # "none" /\ cursor = Len(FormatTo(m, k)) + 2
      /\ arg = Len(ArgsTo(m, k)) /\ printed = TextTo(m, k)
  BY <1>4, <1>5 DEF Converting
<1>7. IsPiece(p) /\ k + 1 \in 0 .. Len(m)
  BY <1>5, PieceAt
<1>8. /\ Len(FormatTo(m, k)) \in Nat /\ Len(PieceFormat(p)) \in Nat
      /\ Len(FormatTo(m, k)) + Len(PieceFormat(p)) = Len(FormatTo(m, k + 1))
      /\ \A j \in 1 .. Len(PieceFormat(p)) : fmt[Len(FormatTo(m, k)) + j] = PieceFormat(p)[j]
  BY <1>3, <1>5, PieceInFormat
<1>9. /\ Len(ArgsTo(m, k)) \in Nat /\ Len(ArgsTo(m, k)) + Len(PieceArgs(p)) = Len(ArgsTo(m, k + 1))
      /\ \A j \in 1 .. Len(PieceArgs(p)) : args[Len(ArgsTo(m, k)) + j] = PieceArgs(p)[j]
  BY <1>3, <1>5, PieceInArgs
<1>10. TextTo(m, k) \in Seq(Chars) /\ TextTo(m, k + 1) = TextTo(m, k) \o Text(p)
  BY <1>5, PieceInText
<1>11. c = p.conv /\ cursor' = Len(FormatTo(m, k + 1)) + 1
  <2>1. PieceFormat(p) = <<"%", p.conv>>
    BY <1>6 DEF PieceFormat
  <2>2. Len(PieceFormat(p)) = 2 /\ PieceFormat(p)[2] = p.conv
    BY <2>1
  <2>3. QED
    BY <1>1, <1>6, <1>8, <2>2
<1>12. p.conv \in Taking => args[arg + 1] = p
  <2>1. SUFFICES ASSUME p.conv \in Taking PROVE args[arg + 1] = p
    OBVIOUS
  <2>2. PieceArgs(p) = <<p>>
    BY <2>1 DEF PieceArgs
  <2>3. Len(PieceArgs(p)) = 1 /\ PieceArgs(p)[1] = p
    BY <2>2
  <2>4. QED
    BY <1>6, <1>9, <2>3
<1>13. arg' = Len(ArgsTo(m, k + 1))
  <2>1. Len(PieceArgs(p)) = IF p.conv \in Taking THEN 1 ELSE 0
    BY DEF PieceArgs
  <2>2. QED
    BY <1>1, <1>6, <1>9, <1>11, <2>1
<1> HIDE DEF c
<1>14. CASE p.conv \in {"u", "x", "d", "p"}
  <2>1. x = p.num
    BY <1>12, <1>14
  <2> HIDE DEF x
  <2>2. FormatsPiece(p)
    BY <1>1, <1>11, <1>14, <2>1 DEF FormatsPiece
  <2>3. PICK t : t = Text(p)
    OBVIOUS
  <2>4. BufOK' /\ Formats(t)'
    BY <1>7, <2>2, <2>3, ConvertNumber
  <2>5. printed' = TextTo(m, k)
    BY <1>1, <1>6, <1>11, <1>14
  <2>6. Formatting(m, k)'
    BY <1>1, <1>5, <1>11, <1>13, <2>3, <2>4, <2>5 DEF Formatting
  <2>7. QED
    BY <1>1, <1>2, <2>4, <2>6 DEF TextInv, AtPiece
<1>15. CASE p.conv \notin {"u", "x", "d", "p"}
  <2>1. ppc' = ppc /\ buf' = buf
    BY <1>1, <1>11, <1>15 DEF numVars
  <2>2. printed' = TextTo(m, k + 1)
    <3>1. CASE p.conv = "s"
      <4>1. Text(p) = p.str
        BY <3>1 DEF Text
      <4>2. QED
        BY <1>1, <1>6, <1>10, <1>11, <1>12, <3>1, <4>1
    <3>2. CASE p.conv # "s"
      <4>1. Text(p) = <<>>
        BY <1>6, <1>15, <3>2 DEF Text
      <4>2. \A s \in Seq(Chars) : s \o <<>> = s
        OBVIOUS
      <4>3. QED
        BY <1>1, <1>6, <1>10, <1>11, <3>2, <4>1, <4>2
    <3>3. QED
      BY <3>1, <3>2
  <2>3. Scanning(m, k + 1)'
    BY <1>1, <1>6, <1>11, <1>13, <2>1, <2>2 DEF Scanning
  <2>4. BufOK'
    BY <2>1 DEF TextInv, BufOK
  <2>5. QED
    BY <1>1, <1>2, <1>7, <2>3, <2>4 DEF TextInv, AtPiece
<1>16. QED
  BY <1>14, <1>15

(* With a number in hand. *)
LEMMA PieceToWrite ==
  ASSUME NEW m \in Messages, AtPiece(m), ppc # "scan"
  PROVE  \E k \in 0 .. (Len(m) - 1) : Formatting(m, k)
BY DEF AtPiece, Scanning, Converting

LEMMA DigitText ==
  ASSUME TextInv, Digit \/ SwapDigits
  PROVE  TextInv'
<1>1. /\ ppc = "digits" /\ cursor' = cursor /\ msg' = msg /\ idle' = idle /\ arg' = arg /\ printed' = printed
  BY DEF Digit, SwapDigits
<1>2. PICK m \in Messages : m = msg
  BY DEF TextInv
<1>3. PICK k \in 0 .. (Len(m) - 1) : Formatting(m, k)
  BY <1>1, <1>2, PieceToWrite DEF TextInv
<1>4. PICK t : t = Text(m[k + 1])
  OBVIOUS
<1>5. Formats(t)
  BY <1>3, <1>4 DEF Formatting
<1>6. BufOK' /\ Formats(t)'
  BY <1>5, NumberDigit, NumberSwap DEF TextInv
<1>7. Formatting(m, k)'
  BY <1>1, <1>3, <1>4, <1>6 DEF Formatting
<1>8. QED
  BY <1>1, <1>2, <1>6, <1>7 DEF TextInv, AtPiece

LEMMA WriteText ==
  ASSUME TextInv, WriteBuf
  PROVE  TextInv'
<1>1. /\ ppc = "write" /\ ppc' = "scan" /\ printed' = printed \o buf
      /\ cursor' = cursor /\ msg' = msg /\ idle' = idle /\ arg' = arg /\ buf' = buf
  BY DEF WriteBuf, terminal_write, numVars
<1>2. PICK m \in Messages : m = msg
  BY DEF TextInv
<1>3. PICK k \in 0 .. (Len(m) - 1) : Formatting(m, k)
  BY <1>1, <1>2, PieceToWrite DEF TextInv
<1>4. buf = Text(m[k + 1])
  BY <1>1, <1>3 DEF Formatting, Formats
<1>5. k + 1 \in 0 .. Len(m) /\ TextTo(m, k + 1) = TextTo(m, k) \o Text(m[k + 1])
  BY PieceAt, PieceInText
<1>6. Scanning(m, k + 1)'
  BY <1>1, <1>3, <1>4, <1>5 DEF Formatting, Scanning
<1>7. BufOK'
  BY <1>1 DEF TextInv, BufOK
<1>8. QED
  BY <1>1, <1>2, <1>5, <1>6, <1>7 DEF TextInv, AtPiece

LEMMA TextStep == TextInv /\ [ConsoleNext]_consoleVars => TextInv'
<1>1. SUFFICES ASSUME TextInv, [ConsoleNext]_consoleVars PROVE TextInv'
  OBVIOUS
<1>2. CASE UNCHANGED textVars
  BY <1>1, <1>2, TextUnchanged
<1>3. UNCHANGED printkVars => UNCHANGED textVars
  BY DEF printkVars, textVars
<1>4. CASE PrinterStep
  BY <1>1, <1>4, ScanText, ConvertText, DigitText, WriteText DEF PrinterStep, vprintk
<1>5. CASE PrinterPut
  BY <1>2, <1>5 DEF PrinterPut, textVars
<1>6. CASE ~PrinterStep /\ ~PrinterPut
  <2>1. UNCHANGED printkVars
    BY <1>1, <1>6 DEF ConsoleNext, consoleVars, PutStep, syscall_print, handle_keypress
  <2>2. QED
    BY <1>2, <1>3, <2>1
<1>7. QED
  BY <1>4, <1>5, <1>6

(* Whatever is printed, the numbers vprintk formats stay within its buffer *)
(* of PRINTK_BUF_SIZE bytes: bprintu32 writes a digit only while x is not  *)
(* smaller than the power of the base that it has reached.                 *)
THEOREM ConsoleFitsBuffer == ConsoleSpec => []FitsBuffer
<1>1. ConsoleInit => TextInv
  BY TextInit DEF ConsoleInit
<1>2. TextInv => FitsBuffer
  BY DEF TextInv, BufOK, FitsBuffer
<1>3. QED
  BY <1>1, <1>2, TextStep, PTL DEF ConsoleSpec

(* What vprintk has passed to terminal_write when it returns is the text   *)
(* of the message, for every message and every width of a number, whoever  *)
(* prints and types meanwhile.                                             *)
THEOREM ConsolePrintsMessage == ConsoleSpec => []PrintsMessage
<1>1. ConsoleInit => TextInv
  BY TextInit DEF ConsoleInit
<1>2. TextInv => PrintsMessage
  <2>1. SUFFICES ASSUME TextInv, Returned PROVE printed = MessageText
    BY DEF PrintsMessage
  <2>2. PICK m \in Messages : m = msg
    BY <2>1 DEF TextInv
  <2>3. ppc = "scan" /\ cursor > Len(FormatTo(m, Len(m)))
    BY <2>1, <2>2 DEF Returned, fmt, FormatTo, FormatsOf
  <2>4. \A k : ~Formatting(m, k)
    BY <2>3 DEF Formatting, Formats
  <2>5. ASSUME NEW k \in 0 .. (Len(m) - 1) PROVE ~Scanning(m, k) /\ ~Converting(m, k)
    <3>1. PICK p : p = m[k + 1]
      OBVIOUS
    <3>2. IsPiece(p) /\ k + 1 \in 0 .. Len(m) /\ Len(m) \in 0 .. Len(m)
      BY <3>1, PieceAt
    <3>3. /\ Len(FormatTo(m, k)) \in Nat /\ Len(PieceFormat(p)) \in Nat
          /\ Len(FormatTo(m, k)) + Len(PieceFormat(p)) = Len(FormatTo(m, k + 1))
          /\ Len(FormatTo(m, k + 1)) <= Len(FormatTo(m, Len(m)))
      BY <3>1, PieceInFormat
    <3>4. Len(PieceFormat(p)) = IF p.conv = "none" THEN 1 ELSE 2
      BY <3>2 DEF PieceFormat, IsPiece
    <3>5. Len(FormatTo(m, Len(m))) \in Nat
      BY <3>2, FormatLen
    <3>6. QED
      BY <2>3, <3>1, <3>3, <3>4, <3>5 DEF Scanning, Converting
  <2>6. \A k \in 0 .. Len(m) : k = Len(m) \/ k \in 0 .. (Len(m) - 1)
    BY MessageSeqs
  <2>7. Scanning(m, Len(m))
    BY <2>1, <2>2, <2>4, <2>5, <2>6 DEF TextInv, AtPiece
  <2>8. MessageText = TextTo(m, Len(m))
    BY <2>2 DEF MessageText, TextTo, TextsOf
  <2>9. QED
    BY <2>7, <2>8 DEF Scanning
<1>3. QED
  BY <1>1, <1>2, TextStep, PTL DEF ConsoleSpec
=============================================================================
