----------------------------- MODULE ErrorBuffer -----------------------------
(***************************************************************************)
(* The error buffer of src/common.c: one Array of characters to which      *)
(* hmesh_error () appends and that hmesh_error_flush () prints and frees.  *)
(* The text is a sequence of pieces, each with its size in characters.     *)
(***************************************************************************)
EXTENDS Integers, SequencesExt

CONSTANTS
  Messages, Size,       \* Size[m]: characters of m once formatted
  ErrmsgSize,           \* errmsg[100]
  Step,                 \* array_append () asks for 4096 bytes at least
  MaxLen                \* bound on len, for TLC

ASSUME ErrorBufferAssumption ==
  Size \in [Messages -> Nat] /\ ErrmsgSize \in Nat \ {0} /\ Step \in Nat \ {0} /\ MaxLen \in Nat

VARIABLES status, buffer, printed

vars == <<status, buffer, printed>>

Piece(what, size) == [what |-> what, size |-> size]
Header  == Piece("header", 21)
Newline == Piece("newline", 1)
NUL     == Piece("NUL", 1)
Message(m) == Piece(m, Size[m])
\* vsnprintf (errmsg, 100, ..) keeps room for its NUL
Truncated(p) == [p EXCEPT !.size = IF @ < ErrmsgSize THEN @ ELSE ErrmsgSize - 1]

Freed == [text |-> <<>>, len |-> 0, max |-> 0]
Init  == status = 0 /\ buffer = Freed /\ printed = <<>>

TooSmallAlready(b, size) == b.len >= b.max        \* mutant
TooSmall(b, size) == b.len + size >= b.max

\* array_append (): realloc (), then memcpy () behind the first len characters
Appended(b, piece) ==
  [text |-> Append(b.text, piece),
   len  |-> b.len + piece.size,
   max  |-> IF ~TooSmall(b, piece.size) THEN b.max
            ELSE b.max + (IF piece.size > Step THEN piece.size ELSE Step)]

\* mutant: the NUL of the last message stays
Kept(b) == b

\* "b->len--": the next piece goes over the last character
WithoutLast(b) == [b EXCEPT !.text = Front(@), !.len = @ - 1]

Opened(b) == IF b.len > 0 THEN WithoutLast(b) ELSE Appended(b, Header)

\* hmesh_error (); the newline and the NUL are one append, "end"
HmeshError(m) ==
  LET b == Appended(Opened(buffer), Truncated(Message(m)))
      e == Appended(b, Piece("end", 2))
  IN  /\ status' = 1
      /\ buffer' = [e EXCEPT !.text = b.text \o <<Newline, NUL>>]
      /\ UNCHANGED printed

AfterFree(b) == Freed

\* hmesh_error_flush (): "%s" prints up to the first NUL
Flush ==
  /\ buffer.max > 0
  /\ printed' = SubSeq(buffer.text, 1, SelectInSeq(buffer.text, LAMBDA p : p = NUL) - 1)
  /\ buffer' = AfterFree(buffer) /\ status' = 0

Next == (\E m \in Messages : buffer.len + 2 * ErrmsgSize <= MaxLen /\ HmeshError(m)) \/ Flush

Spec == Init /\ [][Next]_vars
-----------------------------------------------------------------------------
(***************************************************************************)
(* Properties                                                              *)
(***************************************************************************)
TotalSize(text) == FoldSeq(LAMBDA p, n : n + p.size, 0, text)

\* array_append () writes only into what realloc () gave, whatever was cut off,
\* printed or freed before; the buffer ends where its text does, and there is an
\* error status exactly while there is a text to print.
Room == /\ buffer.len <= buffer.max /\ buffer.len = TotalSize(buffer.text)
        /\ status \in {0, 1} /\ (status = 1 <=> buffer.len > 0)

\* The messages reported since the last flush are what the next flush prints.
MessagesOf(text) == LET ps == SelectSeq(text, LAMBDA p : p.what \in Messages)
                    IN  [i \in DOMAIN ps |-> ps[i].what]

Log == INSTANCE MessageLog WITH pending <- MessagesOf(buffer.text),
                                printed <- MessagesOf(printed)

ImplementsLog == Log!Spec
=============================================================================
