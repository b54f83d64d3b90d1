------------------------------ MODULE LogStream ------------------------------
(***************************************************************************)
(* base::LogStream (base/LogStream.h, base/LogStream.cpp): how the text of *)
(* a statement comes about in its buffer.  The buffer is never read from   *)
(* before it is written out, so it is the sequence of what has been put in *)
(* (ByteQueue, which FixedBuffer implements), and its avail is the room    *)
(* after mWritePtr.                                                        *)
(*                                                                         *)
(* A statement is a record: the text, how far the block of memory has been *)
(* written, and which items are in the text, with where they end.          *)
(***************************************************************************)
EXTENDS Integers, Sequences, SequencesExt

CONSTANTS kBufferSize,
          kMaxNumericSize,
          MinInt, MaxInt,   \* the least and the greatest value of the integer types
          Newline

ASSUME LogStreamAssumption ==
    /\ kBufferSize \in Nat /\ kMaxNumericSize \in Nat
    /\ MinInt \in Int /\ MaxInt \in Nat /\ MinInt <= 0

Ints == MinInt..MaxInt

Empty == [text |-> <<>>, reach |-> 0, items |-> <<>>]

avail(s) == kBufferSize - Len(s.text)

\* What FixedBuffer::append leaves in the block when it appends chars.
Put(s, chars) ==
    IF avail(s) >= Len(chars)
    THEN LET end == Len(s.text) + Len(chars)
         IN  [s EXCEPT !.text = @ \o chars, !.reach = IF @ < end THEN end ELSE @]
    ELSE s

-----------------------------------------------------------------------------
(* Numbers.                                                                  *)

\* C's / and %, which round towards zero.
Quotient(i, b) == IF i < 0 THEN -((-i) \div b) ELSE i \div b
Remainder(i, b) == i - b * Quotient(i, b)

digits == <<"9", "8", "7", "6", "5", "4", "3", "2", "1", "0",
            "1", "2", "3", "4", "5", "6", "7", "8", "9">>
digitsHex == <<"0", "1", "2", "3", "4", "5", "6", "7", "8", "9", "A", "B", "C", "D", "E", "F">>

\* Mutant: the loop goes on while i is positive.
MorePositive(i) == i > 0

\* The loop of convert goes on.
More(i) == i # 0

\* The digits of i, the least significant first.
lsds[i \in Ints] ==
    <<digits[10 + Remainder(i, 10)]>> \o
    (IF More(Quotient(i, 10)) THEN lsds[Quotient(i, 10)] ELSE <<>>)

convert(v) == Reverse(lsds[v] \o (IF v < 0 THEN <<"-">> ELSE <<>>))

\* The same for uintptr_t.
lsdsHex[i \in 0..MaxInt] ==
    <<digitsHex[1 + (i % 16)]>> \o (IF More(i \div 16) THEN lsdsHex[i \div 16] ELSE <<>>)

convertHex(v) == Reverse(lsdsHex[v])

\* Mutant: room for the longest number, not for the '\0' behind it.
NumberFitsBare(s) == avail(s) >= kMaxNumericSize - 1

NumberFits(s) == avail(s) >= kMaxNumericSize

\* formatInteger and its like write the characters and a '\0' at writePtr(), and
\* then add the characters.
Format(s, chars) ==
    IF NumberFits(s)
    THEN [s EXCEPT !.text = @ \o chars, !.reach = Len(s.text) + Len(chars) + 1]
    ELSE s

-----------------------------------------------------------------------------
(* operator<<, for each kind of item.                                        *)

\* The characters an item is shown as: bool, char and strings, and a null pointer to
\* one; the integer types, pointers, and doubles, of which snprintf makes a text that
\* is no longer than a number may be.
TextOf(item) ==
    CASE item.kind = "null"    -> <<"(", "n", ")">>
      [] item.kind = "int"     -> convert(item.value)
      [] item.kind = "pointer" -> <<"0", "x">> \o convertHex(item.value)
      [] OTHER                 -> item.value

Shown(s, item) ==
    IF item.kind \in {"text", "null"} THEN Put(s, TextOf(item)) ELSE Format(s, TextOf(item))

\* With the record of what it has put in.
Insert(s, item) ==
    LET t == Shown(s, item)
    IN  IF t.text = s.text THEN s
        ELSE [t EXCEPT !.items = Append(@, [item |-> item, from |-> Len(s.text) + 1,
                                            to |-> Len(t.text)])]

\* Mutant: the destructor writes out what there is.
ClosedBare(s) == s

\* The destructor appends '\n' before it writes the text out.
Finished(s) == Put(s, <<Newline>>)

-----------------------------------------------------------------------------
(* What a reader makes of it.                                                *)

Digit(c) == CHOOSE d \in 0..15 : digitsHex[d + 1] = c

\* The number that chars are to the base.
ValueOf(chars, base) ==
    LET upTo[n \in 0..Len(chars)] ==
            IF n = 0 THEN 0 ELSE upTo[n - 1] * base + Digit(chars[n])
    IN  upTo[Len(chars)]

\* chars is the usual numeral of v.
Reads(chars, v) ==
    LET body == IF v < 0 THEN Tail(chars) ELSE chars
    IN  /\ v < 0 => Head(chars) = "-"
        /\ body # <<>>
        /\ ValueOf(body, 10) = IF v < 0 THEN -v ELSE v
        /\ Len(body) > 1 => body[1] # "0"

\* Every item of s that is there at all is there in full, where it was put; a number
\* reads as the number it was, the smallest of its type included.
Legible(s) ==
    \A k \in DOMAIN s.items :
        LET e == s.items[k]
            chars == SubSeq(s.text, e.from, e.to)
        IN  CASE e.item.kind = "int"     -> Reads(chars, e.item.value)
              [] e.item.kind = "pointer" ->
                     /\ SubSeq(chars, 1, 2) = <<"0", "x">>
                     /\ ValueOf(SubSeq(chars, 3, Len(chars)), 16) = e.item.value
              [] e.item.kind = "null"    -> TRUE
              [] OTHER                   -> chars = e.item.value
=============================================================================
