----------------------------- MODULE MCConsole -----------------------------
(***************************************************************************)
(* Instances of Console for TLC: a screen of two lines of two cells, so    *)
(* that short messages wrap and scroll, numbers of 12 bits, for which a    *)
(* buffer of 5 is as tight as one of 11 is for 32 bits, one key and one    *)
(* system call.                                                            *)
(***************************************************************************)
EXTENDS Console

(* All short texts with newlines and returns, on the first line and on the *)
(* last.                                                                   *)
Short == {[k \in 1 .. 3 |-> Literal(t[k])] : t \in [1 .. 3 -> {"a", "\n", "\r"}]}
Texts == Short \cup {<<Literal("\n")>> \o t : t \in Short}

(* The numbers where the number of digits or the sign changes. *)
Edges == {0, 9, 10, 15, 16, 255, 256, 999, 1000, 2047, 2048, 4095}

Numbers == {<<Number(c, n)>> : c \in {"u", "x", "d", "p"}, n \in Edges}

(* Several arguments, with a conversion that takes none before the last. *)
Mixed == {<<Number("d", 4094), Number("%", 0), String(<<"b", "c">>), Number("x", 171)>>}

MCEchoChars == {"k", "\n", "\r"}

MCMessages == Texts \cup Numbers \cup Mixed
=============================================================================
