---------------------------- MODULE TextPositions ----------------------------
(***************************************************************************)
(* Positions in a text, as internal/ls converts them: the server counts    *)
(* bytes of UTF-8, the client lines and characters, where a character is a *)
(* UTF-16 code unit or, if the client knows that encoding, a byte.         *)
(* A text is a sequence of characters; only their widths and the line ends *)
(* matter.                                                                 *)
(***************************************************************************)
EXTENDS Integers, Sequences, FiniteSetsExt

Ascii == "a"     \* one byte, one unit
Accented == "e"  \* two bytes, one unit
Emoji == "u"     \* four bytes, two units
LF == "lf"
CR == "cr"

Width8(c) == CASE c = Emoji -> 4 [] c = Accented -> 2 [] OTHER -> 1
Width16(c) == IF c = Emoji THEN 2 ELSE 1

\* The bytes, and the units, of the first n characters of t.
Bytes(t, n) == LET b[i \in 0..n] == IF i = 0 THEN 0 ELSE b[i-1] + Width8(t[i]) IN b[n]
Units(t, n) == LET u[i \in 0..n] == IF i = 0 THEN 0 ELSE u[i-1] + Width16(t[i]) IN u[n]

ByteLen(t) == Bytes(t, Len(t))

\* The positions of t that are not inside a character.
Boundaries(t) == {Bytes(t, n) : n \in 0..Len(t)}

\* How many characters are before a position.
CharsBefore(t, pos) == CHOOSE n \in 0..Len(t) : Bytes(t, n) = pos

-----------------------------------------------------------------------------
(* linemap.go: a line ends after "\n", "\r\n" or a lone "\r".              *)

EndsLine(t, i) == t[i] = LF \/ (t[i] = CR /\ ~(i < Len(t) /\ t[i+1] = LF))

\* LineStarts, as the set of its elements: ordered, a set says as much as the slice.
LineStarts(t) == {0} \cup {Bytes(t, i) : i \in {k \in 1..Len(t) : EndsLine(t, k)}}

LineStart(t, line) == CHOOSE s \in LineStarts(t) : Cardinality({r \in LineStarts(t) : r < s}) = line

AsciiOnly(t) == \A i \in DOMAIN t : Width8(t[i]) = 1

-----------------------------------------------------------------------------
(* converters.go.  "utf8" or "utf16" is the encoding the server chose.     *)

BadLine == -1

\* Variant: every character is one unit.
ScanUnitsVariant(t, start, char) ==
  LET n == CharsBefore(t, start) IN Bytes(t, Min({n + char, Len(t)}))

\* The longest run of characters from start that has at most char units: it does not
\* stop at the end of the line.
ScanUnits(t, start, char) ==
  LET n == CharsBefore(t, start)
      fits == {m \in n..Len(t) : Units(t, m) - Units(t, n) <= char}
  IN  Bytes(t, Max(fits))

\* Variant: a character is a byte, whatever the client counts in.
CharactersAreBytes(t, encoding, p) ==
  IF p.line >= Cardinality(LineStarts(t)) THEN BadLine ELSE LineStart(t, p.line) + p.character

\* LineAndCharacterToPosition, which panics on a line there is not.
FromLineAndCharacter(t, encoding, p) ==
  IF p.line >= Cardinality(LineStarts(t)) THEN BadLine
  ELSE LET start == LineStart(t, p.line) IN
       IF AsciiOnly(t) \/ encoding = "utf8" THEN start + p.character
       ELSE ScanUnits(t, start, p.character)

\* Variant: the units of the line are its bytes.
ToLineAndCharacterVariant(t, encoding, pos) ==
  LET line == Max({0, Cardinality({s \in LineStarts(t) : s < pos}) - 1})
      start == LineStart(t, line)
  IN  [line |-> line, character |-> pos - start]

\* PositionToLineAndCharacter: the binary search finds how many lines start before pos
\* (pos itself may be one), and the line is the one before that.
ToLineAndCharacter(t, encoding, pos) ==
  LET line == Max({0, Cardinality({s \in LineStarts(t) : s < pos}) - 1})
      start == LineStart(t, line)
  IN  [line |-> line,
       character |-> IF AsciiOnly(t) \/ encoding = "utf8" THEN pos - start
                     ELSE Units(t, CharsBefore(t, pos)) - Units(t, CharsBefore(t, start))]

-----------------------------------------------------------------------------
(* What the protocol says a position denotes: a character of its line, or  *)
(* the end of the line, which is before its line end characters.           *)

\* The last boundary of the line that starts at s, before its line end.
LineEnd(t, s) ==
  LET ends == {n \in CharsBefore(t, s)..Len(t) : n = Len(t) \/ t[n+1] \in {LF, CR}}
  IN  Min(ends)

\* The positions a client may send: line and character of every place between two
\* characters of a line.
ClientPosition(t, encoding, n) ==
  LET s == Max({r \in LineStarts(t) : r <= Bytes(t, n)})
      m == CharsBefore(t, s)
  IN  [line |-> Cardinality({r \in LineStarts(t) : r < s}),
       character |-> IF encoding = "utf8" THEN Bytes(t, n) - s ELSE Units(t, n) - Units(t, m)]

\* Places that have a position: not those inside "\r\n".
ClientPlaces(t) == {n \in 0..Len(t) : \A i \in 1..Len(t) : ~(n = i /\ t[i] = CR /\ ~EndsLine(t, i))}

\* The place the client takes a position for: past the end of a line is its end.
Denotes(t, encoding, p) ==
  LET s == LineStart(t, p.line)
      e == LineEnd(t, s)
      at == {n \in CharsBefore(t, s)..e : ClientPosition(t, encoding, n).character <= p.character}
  IN  Max(at)

-----------------------------------------------------------------------------
\* TextChange.ApplyTo on bytes; OutOfRange when the slice expressions panic or would cut
\* a character.
OutOfRange == <<"out of range">>

Splice(t, from, to, new) ==
  IF from > to \/ {from, to} \cap Boundaries(t) # {from, to} THEN OutOfRange
  ELSE SubSeq(t, 1, CharsBefore(t, from)) \o new \o SubSeq(t, CharsBefore(t, to) + 1, Len(t))
==============================================================================
