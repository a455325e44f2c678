---------------------------- MODULE Interpolate ----------------------------
(***************************************************************************)
(* The parser of interpolate/interpolate.go.  Its input is a sequence of   *)
(* characters.  Every iteration of one of its three loops is a step.  A    *)
(* variable that is not closed sends the parser back to the beginning of   *)
(* its name.  Parse and ParsePercent differ in one character, here Sigil.  *)
(***************************************************************************)
EXTENDS Naturals, Sequences, SequencesExt

CONSTANTS
  Char,    \* the bytes of a string
  Texts,   \* the strings that are parsed
  Sigil    \* the character before "{": "$" or "%"

ASSUME TextAssumption ==
  /\ Sigil \in {"$", "%"}
  /\ {Sigil, "{", "}", "-", "\\"} \subseteq Char
  /\ Texts \subseteq Seq(Char)

VARIABLES
  in,      \* p.in
  pos,     \* p.pos, counted from 1
  loop,    \* the loop it is in: of "parse", "variable" or "default", or "done"
  litBuf,  \* p.litBuf
  varBuf,  \* p.varBuf
  defBuf,  \* p.defBuf
  def,     \* def of parseVariable
  begin,   \* pos of parseVariable
  out      \* p.out

variable == <<varBuf, defBuf, def, begin>>
vars == <<in, pos, loop, litBuf, variable, out>>

Variable(name, default, hasDefault) ==
  [typ |-> "var", name |-> name, default |-> default, hasDefault |-> hasDefault]
Literal(s) == [typ |-> "lit", literal |-> s]

Part ==
  [typ : {"lit"}, literal : Seq(Char)]
    \cup [typ : {"var"}, name : Seq(Char), default : Seq(Char), hasDefault : BOOLEAN]

TypeOK ==
  /\ in \in Seq(Char)
  /\ pos \in 1..(Len(in) + 1)
  /\ loop \in {"parse", "variable", "default", "done"}
  /\ litBuf \in Seq(Char) /\ varBuf \in Seq(Char) /\ defBuf \in Seq(Char)
  /\ def \in BOOLEAN
  /\ begin \in 1..(Len(in) + 1)
  /\ out \in Seq(Part)

-----------------------------------------------------------------------------
hasNext(p) == p =< Len(in)

nextToken(token) == hasNext(pos) /\ IsPrefix(token, SubSeq(in, pos, Len(in)))

tokenVarBegin == <<Sigil, "{">>
tokenBackslash == <<"\\">>
tokenDefaultVal == <<"-">>
tokenVarEnd == <<"}">>

\* Mutant: a piece of text may be empty.
UntilNone(stops) ==
  CHOOSE q \in pos..(Len(in) + 1) :
    /\ q = Len(in) + 1 \/ in[q] \in stops
    /\ \A r \in pos..(q - 1) : in[r] \notin stops

\* nextBytesUntilAnyOf: where the bytes end; the first one is always taken.
Until(stops) ==
  CHOOSE q \in (pos + 1)..(Len(in) + 1) :
    /\ q = Len(in) + 1 \/ in[q] \in stops
    /\ \A r \in (pos + 1)..(q - 1) : in[r] \notin stops

\* The bytes up to stops are added to a buffer.
TakeBytes(buf, stops) ==
  /\ pos' = Until(stops)
  /\ buf' = buf \o SubSeq(in, pos, pos' - 1)

\* A backslash is passed over and the byte behind it is added to a buffer; one
\* at the end of the input adds what atEnd is.
TakeEscaped(buf, atEnd) ==
  /\ nextToken(tokenBackslash)
  /\ IF hasNext(pos + 1)
     THEN buf' = Append(buf, in[pos + 1]) /\ pos' = pos + 2
     ELSE buf' = buf \o atEnd /\ pos' = pos + 1

appendBuffer == IF litBuf = <<>> THEN out ELSE Append(out, Literal(litBuf))
appendVariable(v) == Append(appendBuffer, v)

-----------------------------------------------------------------------------
Init ==
  /\ in \in Texts
  /\ pos = 1
  /\ loop = "parse"
  /\ litBuf = <<>>
  /\ varBuf = <<>> /\ defBuf = <<>> /\ def = FALSE /\ begin = 1
  /\ out = <<>>

\* parseBackslash; at the end of the input it is a literal backslash.
ParseBackslash ==
  /\ loop = "parse"
  /\ TakeEscaped(litBuf, tokenBackslash)
  /\ UNCHANGED <<in, loop, variable, out>>

\* parseVariable is called.
BeginVariable ==
  /\ loop = "parse"
  /\ nextToken(tokenVarBegin)
  /\ pos' = pos + Len(tokenVarBegin)
  /\ loop' = "variable"
  /\ varBuf' = <<>> /\ defBuf' = <<>> /\ def' = FALSE /\ begin' = pos'
  /\ UNCHANGED <<in, litBuf, out>>

ParseLiteral ==
  /\ loop = "parse"
  /\ hasNext(pos)
  /\ ~nextToken(tokenBackslash) /\ ~nextToken(tokenVarBegin)
  /\ TakeBytes(litBuf, {Sigil, "\\"})
  /\ UNCHANGED <<in, loop, variable, out>>

ParseEnd ==
  /\ loop = "parse"
  /\ ~hasNext(pos)
  /\ out' = appendBuffer
  /\ litBuf' = <<>>
  /\ loop' = "done"
  /\ UNCHANGED <<in, pos, variable>>

VariableBackslash ==
  /\ loop = "variable"
  /\ TakeEscaped(varBuf, <<>>)
  /\ UNCHANGED <<in, loop, litBuf, defBuf, def, begin, out>>

\* parseDefault is called.
BeginDefault ==
  /\ loop = "variable"
  /\ nextToken(tokenDefaultVal)
  /\ pos' = pos + Len(tokenDefaultVal)
  /\ loop' = "default"
  /\ def' = TRUE
  /\ UNCHANGED <<in, litBuf, varBuf, defBuf, begin, out>>

\* The variable is a part, and parseVariable returns.
CloseVariable ==
  /\ loop = "variable"
  /\ nextToken(tokenVarEnd)
  /\ pos' = pos + Len(tokenVarEnd)
  /\ loop' = "parse"
  /\ out' = appendVariable(Variable(varBuf, defBuf, def))
  /\ litBuf' = <<>>
  /\ UNCHANGED <<in, variable>>

VariableBytes ==
  /\ loop = "variable"
  /\ hasNext(pos)
  /\ ~nextToken(tokenBackslash) /\ ~nextToken(tokenDefaultVal) /\ ~nextToken(tokenVarEnd)
  /\ TakeBytes(varBuf, {"}", "-", "\\"})
  /\ UNCHANGED <<in, loop, litBuf, defBuf, def, begin, out>>

\* Mutant: the parser does not go back.
NotClosedStays ==
  /\ loop = "variable"
  /\ ~hasNext(pos)
  /\ litBuf' = litBuf \o tokenVarBegin
  /\ loop' = "parse"
  /\ UNCHANGED <<in, pos, variable, out>>

\* p.pos = pos: the name of a variable that is not closed is parsed again.
NotClosed ==
  /\ loop = "variable"
  /\ ~hasNext(pos)
  /\ litBuf' = litBuf \o tokenVarBegin
  /\ pos' = begin
  /\ loop' = "parse"
  /\ UNCHANGED <<in, variable, out>>

DefaultBackslash ==
  /\ loop = "default"
  /\ TakeEscaped(defBuf, <<>>)
  /\ UNCHANGED <<in, loop, litBuf, varBuf, def, begin, out>>

\* parseDefault returns at the closing token, which it leaves, or at the end
\* of the input.
EndDefault ==
  /\ loop = "default"
  /\ nextToken(tokenVarEnd) \/ ~hasNext(pos)
  /\ loop' = "variable"
  /\ UNCHANGED <<in, pos, litBuf, variable, out>>

DefaultBytes ==
  /\ loop = "default"
  /\ hasNext(pos)
  /\ ~nextToken(tokenBackslash) /\ ~nextToken(tokenVarEnd)
  /\ TakeBytes(defBuf, {"}", "\\"})
  /\ UNCHANGED <<in, loop, litBuf, varBuf, def, begin, out>>

Next ==
  \/ ParseBackslash \/ BeginVariable \/ ParseLiteral \/ ParseEnd
  \/ VariableBackslash \/ BeginDefault \/ CloseVariable \/ VariableBytes \/ NotClosed
  \/ DefaultBackslash \/ EndDefault \/ DefaultBytes

Spec == Init /\ [][Next]_vars /\ WF_vars(Next)

-----------------------------------------------------------------------------
(***************************************************************************)
(* What a text means, position by position.                                *)
(***************************************************************************)
\* The character at i follows an odd number of backslashes.
Escaped(s, i) ==
  \E n \in 0..Len(s) : /\ 2 * n + 1 < i
                       /\ \A k \in 1..(2 * n + 1) : s[i - k] = "\\"
                       /\ i = 2 * n + 2 \/ s[i - 2 * n - 2] # "\\"

Raw(s, i, c) == s[i] = c /\ ~Escaped(s, i)

\* A backslash that escapes something is left out.
Kept(s, i) == Raw(s, i, "\\") => i = Len(s)

\* A part of the text without the backslashes that escape something.
Plain(s, from, to) ==
  LET plain[i \in 0..Len(s)] ==
        IF i < from THEN <<>>
        ELSE IF Kept(s, i) THEN Append(plain[i - 1], s[i]) ELSE plain[i - 1]
  IN  plain[to]

LiteralOf(s, from, to) ==
  IF Plain(s, from, to) = <<>> THEN <<>> ELSE <<Literal(Plain(s, from, to))>>

\* The places where a variable begins, and where it may end.
Begins(s, from) == {i \in from..(Len(s) - 1) : Raw(s, i, Sigil) /\ s[i + 1] = "{"}
Ends(s, from) == {j \in from..Len(s) : Raw(s, j, "}")}

\* The variable whose text begins at from: the first unescaped "-" in it
\* begins the default.
VariableAt(s, from) ==
  LET end == Min(Ends(s, from))
      dashes == {d \in from..(end - 1) : Raw(s, d, "-")}
      dash == IF dashes = {} THEN end ELSE Min(dashes)
  IN  Variable(Plain(s, from, dash - 1), Plain(s, dash + 1, end - 1), dashes # {})

\* The text of the first variable from a position on begins here.
Name(s, from) == Min(Begins(s, from)) + 2

\* The first unescaped "${" begins a variable if an unescaped "}" comes after it.
HasVariable(s, from) == Begins(s, from) # {} /\ Ends(s, Name(s, from)) # {}

\* What the text means from every position on.
Meanings(s) ==
  LET parts[p \in 1..(Len(s) + 1)] ==
        IF HasVariable(s, p)
        THEN LiteralOf(s, p, Name(s, p) - 3) \o <<VariableAt(s, Name(s, p))>>
               \o parts[Min(Ends(s, Name(s, p))) + 1]
        ELSE LiteralOf(s, p, Len(s))
  IN  parts

(***************************************************************************)
(* The parser, with its buffers and its way back, finds exactly the parts  *)
(* the text means: "Variables are enclosed in ${...} and may contain any   *)
(* character", "If a variable is not closed, it is treated as a literal".  *)
(***************************************************************************)
ParseMeansText == loop = "done" => out = Meanings(in)[1]

\* Parsing ends, although an unclosed variable sends the parser back.
Terminates == <>(loop = "done")
=============================================================================
