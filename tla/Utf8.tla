--------------------------------- MODULE Utf8 ---------------------------------
(***************************************************************************)
(* The check that a query is UTF-8 (parser/utf8.go) and the position an    *)
(* error is reported at (errorAt, parser/parser.go). One sequence of bytes *)
(* is looked at in a step.                                                 *)
(***************************************************************************)
EXTENDS Integers, SequencesExt, FiniteSets

CONSTANTS Queries \* sequences of bytes

VARIABLES src,
          i,      \* the bytes found valid
          reason, \* utf8Valid until something is wrong
          error   \* where, as reported; the offset is -1 before that
vars == <<src, i, reason, error>>

At(k) == src[k + 1]
Continuation(byte) == byte \div 64 = 2

\* How many bytes follow a first byte, and its own bits of the code point;
\* -1 bytes follow what is no first byte.
Lead(byte) ==
    CASE byte \div 128 = 0 -> [cont |-> 0, bits |-> byte]
      [] byte \div 32 = 6  -> [cont |-> 1, bits |-> byte % 32]
      [] byte \div 16 = 14 -> [cont |-> 2, bits |-> byte % 16]
      [] byte \div 8 = 30  -> [cont |-> 3, bits |-> byte % 8]
      [] OTHER             -> [cont |-> -1, bits |-> 0]

\* The bits of the first byte and six of each of the others.
CodePoint(k) ==
    FoldLeft(LAMBDA cp, byte : cp * 64 + (byte % 64), Lead(At(k)).bits, SubSeq(src, k + 2, k + 1 + Lead(At(k)).cont))

\* Mutant: the surrogates end one too early.
InvalidUnicodeShort(cp) == cp > 1114111 \/ cp \in 55296..57342

InvalidUnicode(cp) == cp > 1114111 \/ cp \in 55296..57343

\* All the bytes that have to follow do.
Complete(k) == \A j \in 1..Lead(At(k)).cont : k + j < Len(src) /\ Continuation(At(k + j))

-----------------------------------------------------------------------------
\* errorAt: lines are counted, and columns are bytes since the last break.
ErrorAt(offset) ==
    LET Step(pos, byte) == IF byte = 10 THEN [pos EXCEPT !.line = @ + 1, !.column = 1] ELSE [pos EXCEPT !.column = @ + 1]
    IN  FoldLeft(Step, [offset |-> offset, line |-> 1, column |-> 1], SubSeq(src, 1, offset))

-----------------------------------------------------------------------------
NoError == [offset |-> -1, line |-> 1, column |-> 1]
Init == src \in Queries /\ i = 0 /\ reason = "valid" /\ error = NoError

Found(why) == reason' = why /\ error' = ErrorAt(i) /\ UNCHANGED <<src, i>>

\* Bytes below 128.
Ascii == i < Len(src) /\ reason = "valid" /\ Lead(At(i)).cont = 0 /\ i' = i + 1 /\ UNCHANGED <<src, reason, error>>

\* A start byte that is none, or too few continuations.
Mismatch ==
    /\ i < Len(src) /\ reason = "valid"
    /\ Lead(At(i)).cont = -1 \/ ~Complete(i)
    /\ Found("byte sequence mismatch")

Encoded == i < Len(src) /\ reason = "valid" /\ Lead(At(i)).cont > 0 /\ Complete(i)

\* A code point of several bytes, however few would have done.
Character ==
    /\ Encoded /\ ~InvalidUnicode(CodePoint(i))
    /\ i' = i + Lead(At(i)).cont + 1
    /\ UNCHANGED <<src, reason, error>>

NoCharacter == Encoded /\ InvalidUnicode(CodePoint(i)) /\ Found("invalid unicode")

Next == Ascii \/ Mismatch \/ Character \/ NoCharacter
Spec == Init /\ [][Next]_vars

-----------------------------------------------------------------------------
(* Correctness. *)
\* Reference definition: a code point is written as its bits in groups of
\* six, in one to four bytes, not necessarily the fewest.
Pow(n) == 64 ^ n
Group(cp, n) == 128 + ((cp \div Pow(n)) % 64)
FirstOf == <<0, 192, 224, 240>>   \* the first byte of as many, without bits
Room    == <<128, 2048, 65536, 2097152>>
\* The bytes at k are the code point cp written in n bytes.
Written(k, n, cp) ==
    /\ k + n <= Len(src) /\ cp < Room[n]
    /\ At(k) = FirstOf[n] + cp \div Pow(n - 1)
    /\ \A j \in 1..(n - 1) : At(k + j) = Group(cp, n - 1 - j)
\* The only candidate for n bytes at k.
Bits(byte, n) == byte - FirstOf[n]
Candidate(k, n) ==
    CASE n = 1 -> At(k)
      [] n = 2 -> Bits(At(k), 2) * 64 + (At(k + 1) - 128)
      [] n = 3 -> Bits(At(k), 3) * 4096 + (At(k + 1) - 128) * 64 + (At(k + 2) - 128)
      [] n = 4 -> Bits(At(k), 4) * 262144 + (At(k + 1) - 128) * 4096 + (At(k + 2) - 128) * 64 + (At(k + 3) - 128)
SomeWritten(k, n) == k + n <= Len(src) /\ Candidate(k, n) >= 0 /\ Written(k, n, Candidate(k, n))
IsCharacter(cp) == cp <= 1114111 /\ ~(cp >= 55296 /\ cp < 57344)

\* A prefix of this many bytes is code points written one after another.
RECURSIVE Text(_)
Text(m) ==
    m = 0 \/ \E n \in 1..4 : n <= m /\ SomeWritten(m - n, n) /\ IsCharacter(Candidate(m - n, n)) /\ Text(m - n)

Finished == reason # "valid" \/ i = Len(src)

-----------------------------------------------------------------------------
\* The type invariant; an error has a position within the query, and only an
\* error has one.
TypeOK ==
    /\ i \in 0..Len(src) /\ reason \in {"valid", "byte sequence mismatch", "invalid unicode"}
    /\ IF reason = "valid" THEN error = NoError ELSE error.offset \in 0..(Len(src) - 1)

\* A query passes exactly if it is a sequence of written code points; what
\* is before the error is one, and no longer prefix is.
PassesText ==
    /\ Text(i)
    /\ Finished => (reason = "valid" <=> Text(Len(src)))
    /\ reason # "valid" => \A m \in (i + 1)..Len(src) : ~Text(m)

\* The two errors are told apart: invalid unicode is a code point written
\* as it should be that no character has, a mismatch is none at all.
ReasonsApart ==
    /\ reason = "invalid unicode" =>
         \E n \in 2..4 : SomeWritten(i, n) /\ ~IsCharacter(Candidate(i, n))
    /\ reason = "byte sequence mismatch" => \A n \in 1..4 : ~SomeWritten(i, n)

\* The line and the column find the byte again: there are so many breaks
\* before it, and so many bytes since the last one.
PositionFindsByte ==
    reason # "valid" =>
        LET breaks == {k \in 0..(error.offset - 1) : At(k) = 10}
        IN  /\ error.offset = i
            /\ error.line = Cardinality(breaks) + 1
            /\ LET begin == error.offset - (error.column - 1)
               IN  /\ begin = 0 \/ (begin > 0 /\ At(begin - 1) = 10)
                   /\ \A k \in begin..(error.offset - 1) : At(k) # 10
=============================================================================
