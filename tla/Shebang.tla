------------------------------ MODULE Shebang ------------------------------
(***************************************************************************)
(* What a "#!" line names: parse_shebang and parse_shebang_line of         *)
(* src/platform/unix/mod.rs, next to what the kernel makes of the line     *)
(* (load_script).  The kernel sees the first BufSize bytes of the file,    *)
(* zeroes after a shorter one, and decides from them whether the           *)
(* interpreter's name may have been cut off.                               *)
(*                                                                         *)
(* Bytes: "s" a space or tab, "n" a newline, "0" a NUL, others text.       *)
(***************************************************************************)
EXTENDS Naturals, Integers, Sequences

CONSTANT BufSize   \* LINUX_BINPRM_BUF_SIZE: 256

Fallback == [interpreter |-> <<>>, argument |-> <<>>]   \* execvp runs /bin/sh

Smallest(S) == CHOOSE k \in S : \A m \in S : k <= m
First(s, P(_), none) ==
    LET hits == {k \in DOMAIN s : P(s[k])}
    IN  IF hits = {} THEN none ELSE Smallest(hits)

IsSpace(b) == b = "s"
NotSpace(b) == b # "s"
IsEnd(b) == b \in {"n", "0"}

(* trim_shebang_space_start, trim_shebang_space_end *)
TrimStart(s) == SubSeq(s, First(s, NotSpace, Len(s) + 1), Len(s))
TrimEnd(s) ==
    LET kept == {k \in DOMAIN s : s[k] # "s"}
    IN  SubSeq(s, 1, IF kept = {} THEN 0 ELSE CHOOSE k \in kept : \A m \in kept : m <= k)

(* parse_shebang_line *)
Line(raw) ==
    LET rest == TrimStart(TrimEnd(raw))
        end  == First(rest, IsSpace, Len(rest) + 1)
    IN  IF rest = <<>> THEN Fallback
        ELSE [interpreter |-> SubSeq(rest, 1, end - 1),
              argument    |-> TrimStart(SubSeq(rest, end, Len(rest)))]

(* shebang_interpreter_is_terminated *)
Terminated(visible) ==
    LET rest == TrimStart(SubSeq(visible, 3, Len(visible)))
    IN  \E k \in DOMAIN rest : rest[k] \in {"s", "0"}

Lesser(a, b) == IF a < b THEN a ELSE b

MutVisible(bytes) == SubSeq(bytes, 1, Lesser(Len(bytes), BufSize - 1))

Visible(bytes) == SubSeq(bytes, 1, Lesser(Len(bytes), BufSize))

(* parse_shebang, for bytes that begin with "#!" *)
Parse(bytes) ==
    LET visible == Visible(bytes)
        end     == First(visible, IsEnd, 0)
    IN  CASE end > 0 -> Line(SubSeq(visible, 3, end - 1))
          [] end = 0 /\ (Len(bytes) < BufSize \/ Terminated(visible)) ->
                Line(SubSeq(visible, 3, Lesser(Len(visible), BufSize - 1)))
          [] OTHER -> Fallback

----------------------------------------------------------------------------
(* The kernel: positions are of its buffer; 0 stands for a null pointer.   *)

Buffer(bytes) == [k \in 1..BufSize |-> IF k <= Len(bytes) THEN bytes[k] ELSE "0"]

NextNonSpace(buf, i, last) ==
    LET ks == {k \in i..last : buf[k] # "s"} IN IF ks = {} THEN 0 ELSE Smallest(ks)
NextTerminator(buf, i, last) ==
    LET ks == {k \in i..last : buf[k] \in {"s", "0"}}
    IN  IF ks = {} THEN 0 ELSE Smallest(ks)

(* The string that begins at i. *)
String(buf, i, last) ==
    LET ks == {k \in i..last : buf[k] = "0"}
    IN  SubSeq(buf, i, IF ks = {} THEN last ELSE Smallest(ks) - 1)

NoExec == [refused |-> TRUE]

(* The line up to its limit: a newline, or the end of the buffer.          *)
Interpreted(buf, limit) ==
    LET kept == {k \in 3..(limit - 1) : buf[k] # "s"}
        end  == IF kept = {} THEN 3 ELSE 1 + CHOOSE k \in kept : \A m \in kept : m <= k
        name == NextNonSpace(buf, 3, end)
        stop == NextTerminator(buf, name, end - 1)
        arg  == IF stop = 0 \/ buf[stop] = "0" THEN 0
                ELSE NextNonSpace(buf, stop, end - 1)
    IN  IF kept = {} \/ name \in {0, end} THEN NoExec
        ELSE [interpreter |-> String(buf, name, IF stop = 0 THEN end - 1 ELSE stop - 1),
              argument    |-> IF arg = 0 THEN <<>> ELSE String(buf, arg, end - 1)]

Kernel(bytes) ==
    LET buf     == Buffer(bytes)
        nul     == First(buf, LAMBDA b : b = "0", BufSize + 1)
        newline == First(SubSeq(buf, 1, nul - 1), LAMBDA b : b = "n", 0)
        first   == NextNonSpace(buf, 3, BufSize)
        cut     == newline = 0
                   /\ (first = 0 \/ NextTerminator(buf, first, BufSize) = 0)
    IN  IF cut THEN NoExec
        ELSE Interpreted(buf, IF newline > 0 THEN newline ELSE BufSize)

(* tino finds the interpreter and the argument that the kernel will use,   *)
(* and falls back to the shell where the kernel refuses the line; trailing *)
(* blanks of an argument that no newline ends are all that differs.        *)
SeesWhatTheKernelSees(bytes) ==
    LET k == Kernel(bytes) t == Parse(bytes)
    IN  IF k = NoExec THEN t = Fallback
        ELSE k.interpreter # <<>> =>
               /\ t.interpreter = k.interpreter
               /\ TrimEnd(t.argument) = TrimEnd(k.argument)
=============================================================================
