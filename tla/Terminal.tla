------------------------------ MODULE Terminal ------------------------------
(***************************************************************************)
(* The VGA text terminal of vga.c, as it behaves for a writer that is not  *)
(* interrupted: kernel_main and panic run with interrupts off, and so does *)
(* the echo of keyboard_irq.  Module Console adds the writers that are.    *)
(*                                                                         *)
(* terminal_buffer is the video memory, one line longer than the screen:   *)
(* terminal_shift_buffer reads that line, which nobody writes unless the   *)
(* cursor has left the screen; writes behind it are lost.  A cell is its   *)
(* character; the colour travels with it and is left out.                  *)
(***************************************************************************)
EXTENDS Naturals, Sequences

CONSTANTS
  VGA_WIDTH, VGA_HEIGHT,
  Junk      \* what the video memory behind the screen holds

ASSUME TerminalAssumption == VGA_WIDTH \in Nat \ {0} /\ VGA_HEIGHT \in Nat \ {0}

Blank == " "

VARIABLES
  terminal_row, terminal_column, terminal_buffer,
  paper   \* history: all lines from the first to the cursor's

cursorVars == <<terminal_row, terminal_column>>
termVars == <<cursorVars, terminal_buffer, paper>>

Columns == 0 .. (VGA_WIDTH - 1)
Rows == 0 .. (VGA_HEIGHT - 1)
VGA_INDEX(x, y) == y * VGA_WIDTH + x
Memory == 0 .. ((VGA_HEIGHT + 1) * VGA_WIDTH - 1)

BlankRow == [x \in Columns |-> Blank]

(* The line behind the last one: the screen was cleared, what is scrolled  *)
(* in was not.                                                             *)
NewRow == [x \in Columns |-> IF Len(paper) < VGA_HEIGHT THEN Blank ELSE Junk]

(* terminal_initialize *)
TermInit ==
  /\ terminal_row = 0
  /\ terminal_column = 0
  /\ terminal_buffer = [k \in Memory |-> IF k < VGA_HEIGHT * VGA_WIDTH THEN Blank ELSE Junk]
  /\ paper = <<BlankRow>>

terminal_putentryat(mem, c, x, y) ==
  [k \in Memory |-> IF k = VGA_INDEX(x, y) THEN c ELSE mem[k]]

(* One turn of terminal_shift_buffer: line y is copied up. *)
ShiftLine(mem, y) ==
  [k \in Memory |-> IF k \div VGA_WIDTH = y - 1 THEN mem[k + VGA_WIDTH] ELSE mem[k]]

(* All of them, from the first line down. *)
terminal_shift_buffer(mem) ==
  LET Upto[y \in 0 .. VGA_HEIGHT] == IF y = 0 THEN mem ELSE ShiftLine(Upto[y - 1], y)
  IN  Upto[VGA_HEIGHT]

(* terminal_row++, and the scroll when that leaves the screen. *)
NextRow(mem) ==
  IF terminal_row + 1 = VGA_HEIGHT
    THEN terminal_buffer' = terminal_shift_buffer(mem) /\ UNCHANGED terminal_row
    ELSE terminal_buffer' = mem /\ terminal_row' = terminal_row + 1

(* terminal_putchar_color, in one step. *)
terminal_putchar_color(c) ==
  LET mem == terminal_putentryat(terminal_buffer, c, terminal_column, terminal_row)
  IN  CASE c = "\n" -> terminal_column' = 0 /\ NextRow(terminal_buffer)
        [] c = "\r" -> terminal_column' = 0 /\ UNCHANGED <<terminal_row, terminal_buffer>>
        [] OTHER    -> IF terminal_column + 1 = VGA_WIDTH
                         THEN terminal_column' = 0 /\ NextRow(mem)
                         ELSE /\ terminal_column' = terminal_column + 1
                              /\ terminal_buffer' = mem
                              /\ UNCHANGED terminal_row

(* The paper when c is typed on it, as on a typewriter. *)
Typed(c) ==
  LET line == [paper EXCEPT ![Len(paper)][terminal_column] = c]
  IN  CASE c = "\n" -> Append(paper, NewRow)
        [] c = "\r" -> paper
        [] OTHER    -> IF terminal_column + 1 = VGA_WIDTH THEN Append(line, NewRow) ELSE line

(* The cursor is on the screen.                                            *)
OnScreen == terminal_row \in Rows /\ terminal_column \in Columns

(* The screen shows the end of the paper, line by line up to the cursor's, *)
(* and behind it nothing.                                                  *)
ShowsPaper ==
  \A x \in Columns, y \in Rows :
    terminal_buffer[VGA_INDEX(x, y)] =
      IF y <= terminal_row THEN paper[Len(paper) - terminal_row + y][x] ELSE Blank
=============================================================================
