------------------------------- MODULE Printk -------------------------------
(***************************************************************************)
(* vprintk of printk.c and its number formatting, one action for each turn *)
(* of a loop.                                                              *)
(*                                                                         *)
(* A string is a sequence of one-character strings.  A message is a        *)
(* sequence of pieces, literal characters and conversions with their       *)
(* arguments; vprintk sees the characters of the format only, and takes    *)
(* the next argument with va_arg.  A number is its Width bits, unsigned.   *)
(***************************************************************************)
EXTENDS Naturals, Sequences

CONSTANTS
  Width,            \* bits of uint32_t
  PRINTK_BUF_SIZE,
  Messages          \* what is printed

(* b to the n-th. *)
Power(b, n) ==
  LET pow[k \in Nat] == IF k = 0 THEN 1 ELSE b * pow[k - 1]
  IN  pow[n]

(* The first n of the sequences ss, one behind the other. *)
Joined(ss, n) ==
  LET upto[k \in 0 .. Len(ss)] == IF k = 0 THEN <<>> ELSE upto[k - 1] \o ss[k]
  IN  upto[n]

(* A literal is one character, and no '%'. *)
IsPiece(p) ==
  /\ p.num \in 0 .. (Power(2, Width) - 1)
  /\ p.conv \in STRING /\ p.str \in Seq(STRING)
  /\ p.conv = "none" => Len(p.str) = 1 /\ p.str[1] # "%"

(* The buffer has room for the longest number of each conversion: that is  *)
(* what 11 bytes are to 32 bits.                                           *)
ASSUME PrintkAssumption ==
  /\ Width \in Nat \ {0}
  /\ PRINTK_BUF_SIZE \in Nat /\ PRINTK_BUF_SIZE >= 5
  /\ Power(2, Width) <= Power(10, PRINTK_BUF_SIZE)
  /\ Power(2, Width - 1) < Power(10, PRINTK_BUF_SIZE - 1)
  /\ Power(2, Width) <= Power(16, PRINTK_BUF_SIZE - 2)
  /\ \A m \in Messages : m \in Seq({m[k] : k \in DOMAIN m}) /\ \A k \in DOMAIN m : IsPiece(m[k])

VARIABLES
  msg,         \* the message, as pieces
  cursor,      \* the index of *cursor in the format
  idle,
  arg,         \* how many arguments va_arg has taken
  ppc,         \* "scan" the format, format "digits" or "write" buf
  buf, start,  \* the used part of buf, and where bprintu32 began in it
  a, base,     \* what bprintu32 has left to format
  out,         \* the rest of the data of the terminal_write that runs
  printed      \* history: all that was passed to terminal_write

numVars == <<buf, start, a, base>>
printkVars == <<msg, cursor, idle, arg, ppc, numVars, out, printed>>

Literal(c) == [conv |-> "none", num |-> 0, str |-> <<c>>]
Number(c, n) == [conv |-> c, num |-> n, str |-> <<>>]
String(s) == [conv |-> "s", num |-> 0, str |-> s]

digits == <<"0", "1", "2", "3", "4", "5", "6", "7", "8", "9", "a", "b", "c", "d", "e", "f">>

(* The characters of the format. *)
PieceFormat(p) == IF p.conv = "none" THEN p.str ELSE <<"%", p.conv>>
fmt == Joined([k \in 1 .. Len(msg) |-> PieceFormat(msg[k])], Len(msg))

(* The arguments, in order.  An unknown conversion takes none. *)
PieceArgs(p) == IF p.conv \in {"u", "x", "d", "p", "s"} THEN <<p>> ELSE <<>>
args == Joined([k \in 1 .. Len(msg) |-> PieceArgs(msg[k])], Len(msg))

PrintkInit ==
  /\ msg \in Messages
  /\ cursor = 1 /\ idle = TRUE /\ arg = 0
  /\ ppc = "scan"
  /\ buf = <<>> /\ start = 0 /\ a = 0 /\ base = 10
  /\ out = <<>> /\ printed = <<>>

terminal_write(data) == out' = data /\ printed' = printed \o data

AtCursor == ppc = "scan" /\ out = <<>> /\ cursor <= Len(fmt)

ScanIdle ==
  /\ AtCursor /\ idle
  /\ cursor' = cursor + 1
  /\ IF fmt[cursor] # "%"
       THEN terminal_write(<<fmt[cursor]>>) /\ UNCHANGED idle
       ELSE idle' = FALSE /\ UNCHANGED <<out, printed>>
  /\ UNCHANGED <<msg, arg, ppc, numVars>>

(* bprintu32, behind what is in the buffer already. *)
bprintu32(prefix, n, b) ==
  /\ start' = Len(prefix)
  /\ a' = n
  /\ base' = b
  /\ IF n = 0
       THEN buf' = Append(prefix, "0") /\ ppc' = "write"
       ELSE buf' = prefix /\ ppc' = "digits"

(* Mutant: the number is negated in one bit less. *)
NegatedShort(n) == (Power(2, Width) - n) % Power(2, Width - 1)

(* -a, as an unsigned number. *)
Negated(n) == Power(2, Width) - n

bprints32(n) ==
  IF n >= Power(2, Width - 1)
    THEN bprintu32(<<"-">>, Negated(n), 10)
    ELSE bprintu32(<<>>, n, 10)

bprintptr(n) ==
  IF n = 0
    THEN /\ buf' = <<"(", "n", "i", "l", ")">>
         /\ ppc' = "write"
         /\ UNCHANGED <<start, a, base>>
    ELSE bprintu32(<<"0", "x">>, n, 16)

(* The character behind a '%'. *)
Convert ==
  /\ AtCursor /\ ~idle
  /\ LET c == fmt[cursor]
         x == args[arg + 1].num
     IN  /\ arg' = IF c \in {"u", "x", "d", "p", "s"} THEN arg + 1 ELSE arg
         /\ CASE c = "u" -> bprintu32(<<>>, x, 10)
              [] c = "x" -> bprintu32(<<>>, x, 16)
              [] c = "d" -> bprints32(x)
              [] c = "p" -> bprintptr(x)
              [] OTHER   -> UNCHANGED <<numVars, ppc>>
         /\ IF c = "s" THEN terminal_write(args[arg + 1].str) ELSE UNCHANGED <<out, printed>>
  /\ idle' = TRUE
  /\ cursor' = cursor + 1
  /\ UNCHANGED msg

(* Mutant: the loop makes one more turn, for a leading zero. *)
DigitOver ==
  /\ ppc = "digits" /\ (IF a > 0 THEN TRUE ELSE buf[Len(buf)] # "0")
  /\ buf' = Append(buf, digits[(a % base) + 1])
  /\ a' = a \div base
  /\ UNCHANGED <<msg, cursor, idle, arg, ppc, start, base, out, printed>>

Digit ==
  /\ ppc = "digits" /\ a > 0
  /\ buf' = Append(buf, digits[(a % base) + 1])
  /\ a' = a \div base
  /\ UNCHANGED <<msg, cursor, idle, arg, ppc, start, base, out, printed>>

(* The digits come out lowest first; the second loop swaps them end for    *)
(* end.                                                                    *)
SwapDigits ==
  /\ ppc = "digits" /\ a = 0
  /\ buf' = [k \in 1 .. Len(buf) |->
               IF k <= start THEN buf[k] ELSE buf[Len(buf) + start + 1 - k]]
  /\ ppc' = "write"
  /\ UNCHANGED <<msg, cursor, idle, arg, start, a, base, out, printed>>

WriteBuf ==
  /\ ppc = "write"
  /\ terminal_write(buf)
  /\ ppc' = "scan"
  /\ UNCHANGED <<msg, cursor, idle, arg, numVars>>

vprintk == ScanIdle \/ Convert \/ Digit \/ SwapDigits \/ WriteBuf

(* vprintk has returned. *)
Returned == ppc = "scan" /\ out = <<>> /\ cursor > Len(fmt)

-----------------------------------------------------------------------------
(* The numeral of n in base b: as many digits as it takes, none leading.   *)
Numeral(n, b) ==
  LET len == CHOOSE k \in 1 .. Width : Power(b, k) > n /\ (k = 1 \/ Power(b, k - 1) <= n)
  IN  [k \in 1 .. len |-> digits[((n \div Power(b, len - k)) % b) + 1]]

(* What a piece of a message should come out as. *)
Text(p) ==
  CASE p.conv = "none"  -> p.str
    [] p.conv = "u" -> Numeral(p.num, 10)
    [] p.conv = "x" -> Numeral(p.num, 16)
    [] p.conv = "d" -> IF p.num < Power(2, Width - 1) THEN Numeral(p.num, 10)
                       ELSE <<"-">> \o Numeral(Power(2, Width) - p.num, 10)
    [] p.conv = "p" -> IF p.num = 0 THEN <<"(", "n", "i", "l", ")">>
                       ELSE <<"0", "x">> \o Numeral(p.num, 16)
    [] p.conv = "s" -> p.str
    [] OTHER        -> <<>>

MessageText == Joined([k \in 1 .. Len(msg) |-> Text(msg[k])], Len(msg))

(* No number runs over the buffer on vprintk's stack: neither the most     *)
(* negative one with its sign nor a pointer with its prefix.               *)
FitsBuffer == Len(buf) <= PRINTK_BUF_SIZE

(* A message comes out as its literals and the numerals of its arguments,  *)
(* each argument at its own conversion.                                    *)
PrintsMessage == Returned => printed = MessageText
=============================================================================
