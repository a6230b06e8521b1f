------------------------------ MODULE Console ------------------------------
(***************************************************************************)
(* The terminal with several users: one task is in vprintk, another in     *)
(* syscall_print, both with interrupts on, and keyboard_irq echoes keys in *)
(* between.  Nothing locks terminal_row, terminal_column and the video     *)
(* memory.                                                                 *)
(*                                                                         *)
(* terminal_putchar_color of a task is cut at every access to these, as    *)
(* the compiler makes them without optimisation: an increment is a load    *)
(* and a store, a comparison loads again.  memcpy moves a line at once.    *)
(* The echo runs with interrupts off and is one step.                      *)
(***************************************************************************)
EXTENDS Terminal, Printk, Integers

CONSTANTS
  EchoChars,   \* what keys print
  PrintChars,  \* what syscall_print prints
  MaxOthers    \* bound: keys and system calls together

Printer == "vprintk"
Caller == "syscall_print"
Writers == {Printer, Caller}

VARIABLES
  regs,    \* regs[w]: where writer w is in terminal_putchar_color
  others,  \* how many keys were echoed and calls of syscall_print made
  torn,    \* history: a character began while another was half put
  met      \* history: the cursor was moved on during another's line break

consoleVars == <<termVars, printkVars, regs, others, torn, met>>

IdleRegs == [pc |-> "idle", c |-> Blank, row |-> 0, col |-> 0, y |-> 1]

ConsoleInit ==
  /\ TermInit /\ PrintkInit
  /\ regs = [w \in Writers |-> IdleRegs]
  /\ others = 0
  /\ torn = FALSE /\ met = FALSE

Idle(w) == regs[w].pc = "idle"

(* w is between the increment that takes the cursor past an edge and the   *)
(* end of the line break that brings it back.                              *)
BreakingLine(w) ==
  \/ regs[w].pc \in {"load_row", "store_row", "test_row", "shift", "load_row_up", "store_row_up"}
  \/ regs[w].pc = "reset_col" /\ regs[w].c # "\r"
  \/ regs[w].pc = "test_col" /\ terminal_column = VGA_WIDTH

(* The histories, when somebody other than the writers ws begins character *)
(* c, or loads the cursor to move it on.                                   *)
Begins(ws, c) ==
  /\ torn' = (torn \/ \E w \in ws : ~Idle(w))
  /\ paper' = IF torn' THEN paper ELSE Typed(c)

Loads(ws) == met' = (met \/ \E w \in ws : BreakingLine(w))

-----------------------------------------------------------------------------
(* terminal_putchar_color of writer w, one memory access at a time.        *)
Go(w, label) ==
  regs' = [regs EXCEPT ![w] = IF label = "idle" THEN IdleRegs ELSE [@ EXCEPT !.pc = label]]

StartPut(w, c) ==
  /\ Idle(w)
  /\ regs' = [regs EXCEPT ![w] =
       [IdleRegs EXCEPT !.c = c, !.pc = CASE c = "\n" -> "load_row"
                                          [] c = "\r" -> "reset_col"
                                          [] OTHER    -> "arg_row"]]
  /\ Begins(Writers \ {w}, c)
  /\ UNCHANGED <<cursorVars, terminal_buffer, met>>

At(w, label) == regs[w].pc = label

(* The arguments of terminal_putentryat, the last one first. *)
ArgRow(w) ==
  /\ At(w, "arg_row")
  /\ regs' = [regs EXCEPT ![w].row = terminal_row, ![w].pc = "arg_col"]
  /\ UNCHANGED <<termVars, torn, met>>

ArgCol(w) ==
  /\ At(w, "arg_col")
  /\ regs' = [regs EXCEPT ![w].col = terminal_column, ![w].pc = "store_cell"]
  /\ UNCHANGED <<termVars, torn, met>>

StoreCell(w) ==
  /\ At(w, "store_cell")
  /\ terminal_buffer' = terminal_putentryat(terminal_buffer, regs[w].c, regs[w].col, regs[w].row)
  /\ Go(w, "load_col")
  /\ UNCHANGED <<cursorVars, paper, torn, met>>

LoadCol(w) ==
  /\ At(w, "load_col")
  /\ regs' = [regs EXCEPT ![w].col = terminal_column, ![w].pc = "store_col"]
  /\ Loads(Writers \ {w})
  /\ UNCHANGED <<termVars, torn>>

StoreCol(w) ==
  /\ At(w, "store_col")
  /\ terminal_column' = regs[w].col + 1
  /\ Go(w, "test_col")
  /\ UNCHANGED <<terminal_row, terminal_buffer, paper, torn, met>>

TestCol(w) ==
  /\ At(w, "test_col")
  /\ Go(w, IF terminal_column = VGA_WIDTH THEN "reset_col" ELSE "idle")
  /\ UNCHANGED <<termVars, torn, met>>

(* In all three cases of the switch, in its place of each. *)
ResetCol(w) ==
  /\ At(w, "reset_col")
  /\ terminal_column' = 0
  /\ Go(w, CASE regs[w].c = "\n" -> "test_row"
             [] regs[w].c = "\r" -> "idle"
             [] OTHER            -> "load_row")
  /\ UNCHANGED <<terminal_row, terminal_buffer, paper, torn, met>>

LoadRow(w) ==
  /\ At(w, "load_row")
  /\ regs' = [regs EXCEPT ![w].row = terminal_row, ![w].pc = "store_row"]
  /\ Loads(Writers \ {w})
  /\ UNCHANGED <<termVars, torn>>

StoreRow(w) ==
  /\ At(w, "store_row")
  /\ terminal_row' = regs[w].row + 1
  /\ Go(w, IF regs[w].c = "\n" THEN "reset_col" ELSE "test_row")
  /\ UNCHANGED <<terminal_column, terminal_buffer, paper, torn, met>>

(* Mutant: the screen is scrolled one line late. *)
TestRowLate(w) ==
  /\ At(w, "test_row")
  /\ Go(w, IF terminal_row > VGA_HEIGHT THEN "shift" ELSE "idle")
  /\ UNCHANGED <<termVars, torn, met>>

TestRow(w) ==
  /\ At(w, "test_row")
  /\ Go(w, IF terminal_row = VGA_HEIGHT THEN "shift" ELSE "idle")
  /\ UNCHANGED <<termVars, torn, met>>

(* Mutant: the line from below the screen is not copied. *)
ShiftShort(w) ==
  /\ At(w, "shift")
  /\ terminal_buffer' = IF regs[w].y = VGA_HEIGHT THEN terminal_buffer
                        ELSE ShiftLine(terminal_buffer, regs[w].y)
  /\ regs' = [regs EXCEPT ![w].y = @ + 1,
                          ![w].pc = IF regs[w].y = VGA_HEIGHT THEN "load_row_up" ELSE "shift"]
  /\ UNCHANGED <<cursorVars, paper, torn, met>>

(* A turn of the loop in terminal_shift_buffer. *)
Shift(w) ==
  /\ At(w, "shift")
  /\ terminal_buffer' = ShiftLine(terminal_buffer, regs[w].y)
  /\ regs' = [regs EXCEPT ![w].y = @ + 1,
                          ![w].pc = IF regs[w].y = VGA_HEIGHT THEN "load_row_up" ELSE "shift"]
  /\ UNCHANGED <<cursorVars, paper, torn, met>>

LoadRowUp(w) ==
  /\ At(w, "load_row_up")
  /\ regs' = [regs EXCEPT ![w].row = terminal_row, ![w].pc = "store_row_up"]
  /\ UNCHANGED <<termVars, torn, met>>

StoreRowUp(w) ==
  /\ At(w, "store_row_up")
  /\ terminal_row' = regs[w].row - 1
  /\ Go(w, "idle")
  /\ UNCHANGED <<terminal_column, terminal_buffer, paper, torn, met>>

PutStep(w) ==
  /\ \/ ArgRow(w) \/ ArgCol(w) \/ StoreCell(w) \/ LoadCol(w) \/ StoreCol(w) \/ TestCol(w)
     \/ ResetCol(w) \/ LoadRow(w) \/ StoreRow(w) \/ TestRow(w) \/ Shift(w)
     \/ LoadRowUp(w) \/ StoreRowUp(w)
  /\ UNCHANGED <<printkVars, others>>

-----------------------------------------------------------------------------
(* vprintk goes on when its terminal_write has returned. *)
PrinterStep ==
  /\ Idle(Printer)
  /\ vprintk
  /\ UNCHANGED <<termVars, regs, others, torn, met>>

(* A turn of the loop in terminal_write. *)
PrinterPut ==
  /\ out # <<>>
  /\ StartPut(Printer, Head(out))
  /\ out' = Tail(out)
  /\ UNCHANGED <<msg, cursor, idle, arg, ppc, numVars, printed, others>>

syscall_print ==
  /\ others < MaxOthers
  /\ others' = others + 1
  /\ \E c \in PrintChars : StartPut(Caller, c)
  /\ UNCHANGED printkVars

(* handle_keypress, called from keyboard_irq. *)
handle_keypress(c) ==
  /\ others < MaxOthers
  /\ others' = others + 1
  /\ terminal_putchar_color(c)
  /\ Begins(Writers, c)
  /\ Loads(Writers)
  /\ UNCHANGED <<printkVars, regs>>

AllIdle == \A w \in Writers : Idle(w)

ConsoleNext ==
  \/ \E w \in Writers : PutStep(w)
  \/ PrinterStep \/ PrinterPut \/ syscall_print
  \/ \E c \in EchoChars : handle_keypress(c)
  \/ Returned /\ AllIdle /\ UNCHANGED consoleVars

ConsoleSpec == ConsoleInit /\ [][ConsoleNext]_consoleVars

-----------------------------------------------------------------------------
(* Between two characters the cursor is on the screen, even when prints    *)
(* of tasks and echoes have interrupted each other in the middle: updates  *)
(* of the cursor that are lost within a line leave it there.  It gets away *)
(* (and stays away, as the edges are tested for equality) only if one      *)
(* writer moves it during the line break of another.                       *)
CursorOnScreen == AllIdle /\ ~met => OnScreen

(* While nobody was interrupted in the middle of a character, the screen   *)
(* shows what was printed and echoed: the scroll, the wrap and the newline *)
(* of terminal_putchar_color lose no character and repeat none.            *)
ScreenShowsPaper == AllIdle /\ ~torn => OnScreen /\ ShowsPaper
=============================================================================
