-------------------------- MODULE DocCommentProofs --------------------------
(***************************************************************************)
(* Proofs about DocComment, for comments of any length over any alphabet:  *)
(* the printed comment ends where it is meant to end, and its lines are    *)
(* those of the comment.                                                   *)
(***************************************************************************)
EXTENDS DocComment, SequenceTheorems, FiniteSetTheorems, TLAPS

(* No slash follows an asterisk.                                           *)
Safe(text) ==
  \A k \in 1 .. Len(text) - 1 : ~(text[k] = "*" /\ text[k + 1] = "/")

EscapedSafe ==
  /\ Safe(result)
  /\ result # <<>> /\ result[Len(result)] = "*" => prev = "*"

LinesSafe == \A n \in DOMAIN lines : Safe(lines[n])

PrintedSafe ==
  /\ printed # <<>>
  /\ ~Closed => Safe(printed) /\ printed[Len(printed)] = "\n"

IndInv == TypeOK /\ EscapedSafe /\ LinesSafe /\ PrintedSafe /\ ClosesAtEnd

(* Text that does not begin with a slash may follow text that does not end *)
(* with an asterisk.                                                       *)
LEMMA ConcatSafe ==
  ASSUME NEW S, NEW s \in Seq(S), NEW t \in Seq(S), Safe(s), Safe(t),
         s # <<>> /\ t # <<>> => ~(s[Len(s)] = "*" /\ t[1] = "/")
  PROVE  Safe(s \o t)
<1> SUFFICES ASSUME NEW k \in 1 .. Len(s \o t) - 1,
                    (s \o t)[k] = "*", (s \o t)[k + 1] = "/"
             PROVE  FALSE
  BY DEF Safe
<1>1. Len(s \o t) = Len(s) + Len(t) /\ Len(s) \in Nat /\ Len(t) \in Nat
  OBVIOUS
<1>2. \A j \in 1 .. Len(s) + Len(t) :
        (s \o t)[j] = IF j <= Len(s) THEN s[j] ELSE t[j - Len(s)]
  OBVIOUS
<1>3. CASE k + 1 <= Len(s)
  BY <1>1, <1>2, <1>3 DEF Safe
<1>4. CASE k = Len(s)
  BY <1>1, <1>2, <1>4
<1>5. CASE k > Len(s)
  <2>1. k - Len(s) \in 1 .. Len(t) - 1
    BY <1>1, <1>5
  <2>2. t[k - Len(s)] = "*" /\ t[(k - Len(s)) + 1] = "/"
    BY <1>1, <1>2, <1>5
  <2>3. QED
    BY <2>1, <2>2 DEF Safe
<1>6. QED
  BY <1>1, <1>3, <1>4, <1>5

(* The shape of a piece of a sequence.                                     *)
LEMMA PieceOfSeq ==
  ASSUME NEW S, NEW s \in Seq(S),
         NEW m \in 1 .. Len(s), NEW n \in m .. Len(s)
  PROVE  /\ SubSeq(s, m, n) \in Seq(S)
         /\ Len(SubSeq(s, m, n)) = n - m + 1
<1>1. m \in Int /\ n \in Int /\ m <= n
  OBVIOUS
<1>2. \A k \in m .. n : s[k] \in S
  OBVIOUS
<1>3. QED
  BY <1>1, <1>2, SubSeqProperties

(* A piece of such text is such text.                                      *)
LEMMA PieceSafe ==
  ASSUME NEW S, NEW s \in Seq(S), Safe(s),
         NEW m \in 1 .. Len(s), NEW n \in m .. Len(s)
  PROVE  Safe(SubSeq(s, m, n))
<1>1. Len(SubSeq(s, m, n)) = n - m + 1
  OBVIOUS
<1>2. \A k \in 1 .. n - m + 1 : SubSeq(s, m, n)[k] = s[m + k - 1]
  OBVIOUS
<1>3. ASSUME NEW k \in 1 .. (n - m + 1) - 1
      PROVE  ~(SubSeq(s, m, n)[k] = "*" /\ SubSeq(s, m, n)[k + 1] = "/")
  <2>1. SubSeq(s, m, n)[k] = s[m + k - 1] /\ SubSeq(s, m, n)[k + 1] = s[(m + k - 1) + 1]
    BY <1>2
  <2>2. m + k - 1 \in 1 .. Len(s) - 1
    OBVIOUS
  <2>3. QED
    BY <2>1, <2>2 DEF Safe
<1>4. QED
  BY <1>1, <1>3 DEF Safe

(* What EscapeJavadoc writes for a character.                              *)
LEMMA EscapedToken ==
  ASSUME NEW c \in Chars, NEW before
  PROVE  /\ Escaped(c, before) \in Tokens
         /\ Escaped(c, before) = "*" => c = "*"
         /\ Escaped(c, before) = "/" => before # "*"
BY DEF Escaped, Entity, Markup, Tokens, Entities

(* Lengths are natural numbers.                                            *)
LEMMA LenNat ==
  ASSUME Texts
  PROVE  /\ Len(comments) \in Nat /\ Len(result) \in Nat
         /\ Len(lines) \in Nat /\ Len(printed) \in Nat
<1>1. comments \in Seq(Chars) /\ result \in Seq(Tokens)
  BY DEF Texts
<1>2. lines \in Seq(Seq(Tokens) \ {<<>>}) /\ printed \in Seq(Printable)
  BY DEF Texts
<1>3. QED
  BY <1>1, <1>2, LenProperties

(* Nothing is escaped, split or printed at first.                          *)
LEMMA InitInv == Init => IndInv
<1> SUFFICES ASSUME Init PROVE IndInv
  OBVIOUS
<1>1. comments \in Seq(Chars)
  BY CommentsAssumption DEF Init, Start, GetCommentsForDescriptor
<1>2. TypeOK
  BY <1>1 DEF Init, Start, TypeOK, Texts, Positions, Opening, Printable
<1>3. Safe(printed) /\ printed # <<>> /\ printed[Len(printed)] = "\n"
  BY DEF Init, Start, Opening, Safe
<1>4. ClosesAtEnd
  BY <1>3 DEF ClosesAtEnd, Safe
<1>5. EscapedSafe /\ LinesSafe
  BY DEF Init, Start, EscapedSafe, LinesSafe, Safe
<1>6. QED
  BY <1>2, <1>3, <1>4, <1>5 DEF IndInv, PrintedSafe

(* EscapeJavadoc puts nothing that closes a comment into its result.       *)
LEMMA EscapeInv ==
  ASSUME IndInv, EscapeJavadoc
  PROVE  IndInv'
<1> DEFINE c == comments[i]
           t == Escaped(comments[i], prev)
<1>0. /\ comments \in Seq(Chars) /\ i \in 1 .. Len(comments)
      /\ result \in Seq(Tokens) /\ Len(result) = i - 1
      /\ p \in 1 .. Len(result) + 1 /\ row = 0
  <2>1. Positions /\ Texts
    BY DEF IndInv, TypeOK
  <2>2. comments \in Seq(Chars) /\ result \in Seq(Tokens)
    BY <2>1 DEF Texts
  <2>3. QED
    BY <2>1, <2>2, LenNat DEF Positions, EscapeJavadoc
<1>1. c \in Chars /\ i \in Nat /\ i = Len(result) + 1 /\ result \in Seq(Tokens)
  BY <1>0
<1>2. t \in Tokens /\ (t = "*" => c = "*") /\ (t = "/" => prev # "*")
  BY <1>1, EscapedToken
<1>3. result' = Append(result, t) /\ prev' = c /\ i' = i + 1
  BY DEF EscapeJavadoc
<1> HIDE DEF t, c
<1>4. UNCHANGED <<comments, preTag, p, lines, row, printed>> /\ i <= Len(comments)
  BY DEF EscapeJavadoc
<1>5. TypeOK'
  <2>1. result' \in Seq(Tokens) /\ Len(result') = Len(result) + 1
    BY <1>0, <1>2, <1>3
  <2>2. i' \in 1 .. Len(comments) + 1 /\ Len(result') = i' - 1
    BY <1>0, <1>3, <2>1
  <2>3. p \in 1 .. Len(result') + 1
    BY <1>0, <2>1
  <2>4. QED
    BY <1>0, <1>1, <1>3, <1>4, <2>1, <2>2, <2>3 DEF IndInv, TypeOK, Texts, Positions
<1>6. EscapedSafe'
  <2>1. \A k \in 1 .. Len(result) : result'[k] = result[k]
    BY <1>1, <1>3
  <2>2. Len(result') = Len(result) + 1 /\ result'[Len(result) + 1] = t
    BY <1>1, <1>2, <1>3
  <2>3. ASSUME NEW k \in 1 .. Len(result') - 1, result'[k] = "*", result'[k + 1] = "/"
        PROVE  FALSE
    <3>1. CASE k = Len(result)
      <4>1. result # <<>> /\ result[Len(result)] = "*" /\ t = "/"
        BY <1>1, <2>1, <2>2, <2>3, <3>1
      <4>2. QED
        BY <4>1, <1>2 DEF IndInv, EscapedSafe
    <3>2. CASE k # Len(result)
      BY <1>1, <2>1, <2>2, <2>3, <3>2 DEF IndInv, EscapedSafe, Safe
    <3>3. QED
      BY <3>1, <3>2
  <2>4. Safe(result')
    BY <2>3 DEF Safe
  <2>5. QED
    BY <2>2, <2>4, <1>2, <1>3 DEF EscapedSafe, Safe
<1>7. LinesSafe' /\ PrintedSafe' /\ ClosesAtEnd'
  BY <1>4 DEF IndInv, LinesSafe, Safe, PrintedSafe, ClosesAtEnd, Closed
<1>8. QED
  BY <1>5, <1>6, <1>7 DEF IndInv

(* The lexer passes a newline over.                                        *)
LEMMA SkipInv ==
  ASSUME IndInv, SkipNewline
  PROVE  IndInv'
<1>1. UNCHANGED <<comments, preTag, i, prev, result, lines, row, printed>>
  BY DEF SkipNewline
<1>2. TypeOK'
  <2>1. Positions /\ Texts
    BY DEF IndInv, TypeOK
  <2>2. Positions'
    BY <1>1, <2>1, LenNat DEF Positions, SkipNewline
  <2>3. Texts'
    BY <1>1, <2>1 DEF Texts
  <2>4. QED
    BY <2>2, <2>3 DEF TypeOK
<1>3. QED
  BY <1>1, <1>2 DEF IndInv, EscapedSafe, LinesSafe, Safe, PrintedSafe,
                    ClosesAtEnd, Closed

(* A line is a part of what was escaped.                                   *)
LEMMA TakeInv ==
  ASSUME IndInv, TakeLine
  PROVE  IndInv'
<1>1. UNCHANGED <<comments, preTag, i, prev, result, row, printed>>
  BY DEF TakeLine
<1>2. PICK to \in p .. Len(result) :
        lines' = Append(lines, SubSeq(result, p, to)) /\ p' = to + 1
  BY DEF TakeLine
<1> DEFINE line == SubSeq(result, p, to)
<1> Positions /\ Texts
  BY DEF IndInv, TypeOK
<1>3. p \in 1 .. Len(result) /\ result \in Seq(Tokens) /\ row = 0
      /\ lines \in Seq(Seq(Tokens) \ {<<>>}) /\ i > Len(comments)
  <2>1. result \in Seq(Tokens) /\ lines \in Seq(Seq(Tokens) \ {<<>>})
    BY DEF Texts
  <2>2. QED
    BY <2>1, LenNat DEF Positions, TakeLine
<1>4. line \in Seq(Tokens) /\ line # <<>>
  <2>1. line \in Seq(Tokens) /\ Len(line) = to - p + 1
    BY <1>3, PieceOfSeq
  <2> HIDE DEF line
  <2>2. QED
    BY <1>3, <2>1
<1>5. Safe(line)
  BY <1>2, <1>3, PieceSafe DEF IndInv, EscapedSafe
<1> HIDE DEF line
<1>6. TypeOK'
  <2> DEFINE Line == Seq(Tokens) \ {<<>>}
  <2>0. line \in Line /\ lines \in Seq(Line) /\ lines' = Append(lines, line)
    BY <1>2, <1>3, <1>4 DEF line
  <2> HIDE DEF Line
  <2>1. lines' \in Seq(Line) /\ Len(lines') = Len(lines) + 1
    BY <2>0, AppendProperties
  <2> USE DEF Line
  <2>2. p' \in 1 .. Len(result) + 1
    BY <1>2, <1>3
  <2>3. row \in 0 .. Len(lines') + 2
    BY <1>3, <2>1
  <2>4. QED
    <3>1. Positions'
      BY <1>1, <1>3, <2>2, <2>3 DEF Positions
    <3>2. Texts'
      BY <1>1, <2>1 DEF Texts
    <3>3. QED
      BY <3>1, <3>2 DEF TypeOK
<1>7. LinesSafe'
  <2>1. \A n \in DOMAIN lines' :
          lines'[n] = IF n <= Len(lines) THEN lines[n] ELSE line
    BY <1>2, <1>3 DEF line
  <2>2. \A n \in DOMAIN lines' : n <= Len(lines) => n \in DOMAIN lines
    BY <1>2, <1>3
  <2>3. QED
    BY <1>5, <2>1, <2>2 DEF IndInv, LinesSafe
<1>8. ~Closed /\ ~Closed'
  BY <1>1, <1>2, <1>3 DEF Closed
<1>9. EscapedSafe' /\ PrintedSafe' /\ ClosesAtEnd'
  BY <1>1, <1>8 DEF IndInv, EscapedSafe, Safe, PrintedSafe, ClosesAtEnd
<1>10. QED
  BY <1>6, <1>7, <1>9 DEF IndInv

(* Printing more, between newlines, keeps what was printed safe.           *)
LEMMA PrintMore ==
  ASSUME NEW text, NEW more \in Seq(Printable), text \in Seq(Printable),
         Safe(text), text # <<>>, text[Len(text)] # "*",
         Safe(more), more # <<>>
  PROVE  /\ text \o more \in Seq(Printable) /\ text \o more # <<>>
         /\ Safe(text \o more)
         /\ (text \o more)[Len(text \o more)] = more[Len(more)]
<1>1. Safe(text \o more)
  BY ConcatSafe
<1>2. Len(more) \in Nat \ {0} /\ Len(text) \in Nat
  BY EmptySeq, LenProperties
<1>3. Len(text \o more) = Len(text) + Len(more) /\ text \o more \in Seq(Printable)
  BY ConcatProperties
<1>4. (text \o more)[Len(text) + Len(more)] = more[Len(more)]
  BY <1>2, ConcatProperties
<1>5. QED
  BY <1>1, <1>2, <1>3, <1>4

(* Short sequences.                                                        *)
LEMMA Tuples ==
  ASSUME NEW S, NEW a \in S, NEW b \in S, NEW c \in S, NEW d \in S, NEW e \in S
  PROVE  /\ <<a, b>> \in Seq(S) /\ Len(<<a, b>>) = 2
         /\ <<a, b, c>> \in Seq(S) /\ Len(<<a, b, c>>) = 3
         /\ <<a, b, c, d, e>> \in Seq(S) /\ Len(<<a, b, c, d, e>>) = 5
OBVIOUS

(* The lines WriteDocCommentBody prints around the comment.                *)
LEMMA TagLine ==
  ASSUME NEW tag \in {"<pre>", "</pre>"}
  PROVE  LET line == <<" ", "*", " ", tag, "\n">>
         IN  /\ line \in Seq(Printable) /\ line # <<>> /\ Safe(line)
             /\ line[Len(line)] = "\n"
<1> DEFINE line == <<" ", "*", " ", tag, "\n">>
<1>1. Len(line) = 5 /\ line # <<>>
  OBVIOUS
<1>2. line[1] = " " /\ line[2] = "*" /\ line[3] = " " /\ line[4] = tag
      /\ line[5] = "\n"
  OBVIOUS
<1>3. line \in Seq(Printable)
  <2>1. " " \in Printable /\ "*" \in Printable /\ "\n" \in Printable
        /\ tag \in Printable
    BY DEF Printable
  <2>2. QED
    BY <2>1, Tuples
<1> HIDE DEF line
<1>4. \A k \in 1 .. 4 : line[k] = "*" => k = 2
  <2>1. \A k \in 1 .. 4 : k = 1 \/ k = 2 \/ k = 3 \/ k = 4
    OBVIOUS
  <2>2. line[1] # "*" /\ line[3] # "*" /\ line[4] # "*"
    BY <1>2
  <2>3. QED
    BY <2>1, <2>2
<1>5. Safe(line)
  <2>0. 2 + 1 = 3
    OBVIOUS
  <2>1. line[3] # "/"
    BY <1>2
  <2>2. \A k \in 1 .. 4 : ~(line[k] = "*" /\ line[k + 1] = "/")
    BY <1>4, <2>0, <2>1
  <2>3. QED
    BY <1>1, <2>2 DEF Safe
<1>6. QED
  BY <1>1, <1>2, <1>3, <1>5 DEF line

(* And those before a line.                                                *)
LEMMA MarginSafe ==
  ASSUME NEW line
  PROVE  LET margin == Margin(line)
         IN  /\ margin \in Seq(Printable) /\ margin # <<>> /\ Safe(margin)
             /\ margin[Len(margin)] = IF line[1] = "/" THEN " " ELSE "*"
<1>1. " " \in Printable /\ "*" \in Printable
  BY DEF Printable
<1>2. CASE line[1] = "/"
  <2> DEFINE margin == <<" ", "*", " ">>
  <2>1. Len(margin) = 3 /\ margin # <<>> /\ margin \in Seq(Printable)
    BY <1>1, Tuples
  <2>2. margin[1] = " " /\ margin[2] = "*" /\ margin[3] = " "
    OBVIOUS
  <2>3. Margin(line) = margin
    BY <1>2 DEF Margin
  <2> HIDE DEF margin
  <2>4. \A k \in 1 .. 2 : k = 1 \/ k = 2
    OBVIOUS
  <2>5. 2 + 1 = 3
    OBVIOUS
  <2>6. margin[1] # "*" /\ margin[3] # "/"
    BY <2>2
  <2>7. \A k \in 1 .. 2 : ~(margin[k] = "*" /\ margin[k + 1] = "/")
    BY <2>4, <2>5, <2>6
  <2>8. Safe(margin)
    BY <2>1, <2>7 DEF Safe
  <2>9. QED
    BY <1>2, <2>1, <2>2, <2>3, <2>8
<1>3. CASE line[1] # "/"
  <2> DEFINE margin == <<" ", "*">>
  <2>1. Len(margin) = 2 /\ margin # <<>> /\ margin \in Seq(Printable)
    BY <1>1, Tuples
  <2>2. margin[1] = " " /\ margin[2] = "*"
    OBVIOUS
  <2>3. Margin(line) = margin
    BY <1>3 DEF Margin
  <2> HIDE DEF margin
  <2>4. Safe(margin)
    <3>1. \A k \in 1 .. 1 : k = 1 /\ k + 1 = 2
      OBVIOUS
    <3>2. margin[2] # "/"
      BY <2>2
    <3>3. QED
      BY <2>1, <3>1, <3>2 DEF Safe
  <2>5. QED
    BY <1>3, <2>1, <2>2, <2>3, <2>4
<1>4. QED
  BY <1>2, <1>3

(* The opening line closes nothing.                                        *)
LEMMA OpeningInv ==
  ASSUME IndInv, PrintOpening
  PROVE  IndInv'
<1>1. UNCHANGED <<comments, preTag, i, prev, result, p, lines>> /\ row' = 1
  BY DEF PrintOpening
<1>2. Texts /\ Positions /\ row = 0 /\ HaveDocLines
  BY DEF IndInv, TypeOK, PrintOpening
<1>3. ~Closed /\ ~Closed'
  BY <1>1, <1>2, LenNat DEF Closed
<1>4. printed \in Seq(Printable) /\ Safe(printed) /\ printed # <<>>
      /\ printed[Len(printed)] = "\n"
  BY <1>2, <1>3 DEF IndInv, PrintedSafe, Texts
<1>5. /\ printed' \in Seq(Printable) /\ Safe(printed') /\ printed' # <<>>
      /\ printed'[Len(printed')] = "\n"
  <2>1. CASE Body
    BY <1>4, <2>1, TagLine, PrintMore DEF PrintOpening
  <2>2. CASE ~Body
    BY <1>4, <2>2, ConcatEmptySeq DEF PrintOpening
  <2>3. QED
    BY <2>1, <2>2
<1>6. TypeOK'
  <2>1. Texts'
    BY <1>1, <1>2, <1>5 DEF Texts
  <2>2. Positions'
    BY <1>1, <1>2, LenNat DEF Positions, HaveDocLines
  <2>3. QED
    BY <2>1, <2>2 DEF TypeOK
<1>7. PrintedSafe' /\ ClosesAtEnd'
  BY <1>5 DEF PrintedSafe, ClosesAtEnd, Safe
<1>8. QED
  BY <1>1, <1>6, <1>7 DEF IndInv, EscapedSafe, LinesSafe, Safe

(* Nor does a line of the text, with the star and the blank before it.     *)
LEMMA LineInv ==
  ASSUME IndInv, PrintLine
  PROVE  IndInv'
<1>1. UNCHANGED <<comments, preTag, i, prev, result, p, lines>> /\ row' = row + 1
  BY DEF PrintLine
<1>2. Texts /\ Positions /\ row \in DOMAIN lines /\ HaveDocLines
  BY DEF IndInv, TypeOK, PrintLine
<1>3. ~Closed /\ ~Closed' /\ row \in 1 .. Len(lines)
  BY <1>1, <1>2, LenNat, LenProperties DEF Closed, Texts
<1>4. printed \in Seq(Printable) /\ Safe(printed) /\ printed # <<>>
      /\ printed[Len(printed)] = "\n"
  BY <1>2, <1>3 DEF IndInv, PrintedSafe, Texts
<1> DEFINE line == lines[row]
           margin == Margin(line)
<1>5. line \in Seq(Tokens) /\ line # <<>> /\ Safe(line)
  <2>1. line \in Seq(Tokens) \ {<<>>}
    BY <1>2, <1>3, ElementOfSeq DEF Texts
  <2>2. QED
    BY <1>2, <2>1 DEF IndInv, LinesSafe
<1>6. /\ margin \in Seq(Printable) /\ margin # <<>> /\ Safe(margin)
      /\ margin[Len(margin)] = IF line[1] = "/" THEN " " ELSE "*"
  BY MarginSafe
<1>7. line \in Seq(Printable)
  BY <1>5, SeqMonotonic DEF Printable
<1>8. printed' = ((printed \o margin) \o line) \o <<"\n">>
  BY DEF PrintLine
<1> HIDE DEF line, margin
<1> DEFINE start == printed \o margin
<1>9. /\ start \in Seq(Printable) /\ start # <<>> /\ Safe(start)
      /\ start[Len(start)] = margin[Len(margin)]
  BY <1>4, <1>6, PrintMore
<1> HIDE DEF start
<1> DEFINE text == start \o line
<1>10. text \in Seq(Printable) /\ text # <<>> /\ Safe(text)
  <2>1. Safe(text)
    BY <1>5, <1>6, <1>7, <1>9, ConcatSafe
  <2>2. QED
    BY <1>7, <1>9, <2>1, ConcatProperties, ConcatEqualIffEmpty
<1> HIDE DEF text
<1>11. /\ printed' \in Seq(Printable) /\ Safe(printed') /\ printed' # <<>>
       /\ printed'[Len(printed')] = "\n"
  <2>1. <<"\n">> \in Seq(Printable) /\ Safe(<<"\n">>) /\ Len(<<"\n">>) = 1
        /\ <<"\n">>[1] = "\n"
    BY DEF Printable, Safe
  <2>2. printed' = text \o <<"\n">>
    BY <1>8 DEF text, start
  <2>3. Safe(text \o <<"\n">>)
    BY <1>10, <2>1, ConcatSafe
  <2>4. /\ Len(text \o <<"\n">>) = Len(text) + 1 /\ Len(text) \in Nat
        /\ text \o <<"\n">> \in Seq(Printable)
        /\ (text \o <<"\n">>)[Len(text) + 1] = "\n"
    BY <1>10, <2>1, ConcatProperties, LenProperties
  <2>5. QED
    BY <2>2, <2>3, <2>4
<1>12. TypeOK'
  <2>1. Texts'
    BY <1>1, <1>2, <1>11 DEF Texts
  <2>2. Positions'
    BY <1>1, <1>2, <1>3, LenNat DEF Positions, HaveDocLines
  <2>3. QED
    BY <2>1, <2>2 DEF TypeOK
<1>13. PrintedSafe' /\ ClosesAtEnd'
  BY <1>11 DEF PrintedSafe, ClosesAtEnd, Safe
<1>14. QED
  BY <1>1, <1>12, <1>13 DEF IndInv, EscapedSafe, LinesSafe, Safe

(* The last line closes the comment and is the last.                       *)
LEMMA ClosingInv ==
  ASSUME IndInv, PrintClosing
  PROVE  IndInv'
<1>1. UNCHANGED <<comments, preTag, i, prev, result, p, lines>> /\ row' = row + 1
  BY DEF PrintClosing
<1>2. Texts /\ Positions /\ row = Len(lines) + 1 /\ HaveDocLines
  BY DEF IndInv, TypeOK, PrintClosing
<1>3. ~Closed /\ Closed'
  BY <1>1, <1>2, LenNat DEF Closed
<1>4. printed \in Seq(Printable) /\ Safe(printed) /\ printed # <<>>
      /\ printed[Len(printed)] = "\n"
  BY <1>2, <1>3 DEF IndInv, PrintedSafe, Texts
<1> DEFINE text == printed \o (IF Body THEN <<" ", "*", " ", "</pre>", "\n">> ELSE <<>>)
           end == <<" ", "*", "/", "\n">>
<1>5. text \in Seq(Printable) /\ Safe(text) /\ text # <<>>
      /\ text[Len(text)] = "\n"
  <2>1. CASE Body
    BY <1>4, <2>1, TagLine, PrintMore
  <2>2. CASE ~Body
    BY <1>4, <2>2, ConcatEmptySeq
  <2>3. QED
    BY <2>1, <2>2
<1>6. printed' = text \o end
  BY DEF PrintClosing
<1> HIDE DEF text
<1>7. end \in Seq(Printable) /\ Len(end) = 4 /\ end[1] = " " /\ end[2] = "*"
      /\ end[3] = "/" /\ end[4] = "\n"
  BY DEF Printable
<1> HIDE DEF end
<1>8. /\ printed' \in Seq(Printable) /\ Len(printed') = Len(text) + 4
      /\ Len(text) \in Nat \ {0}
      /\ \A k \in 1 .. Len(text) + 4 :
           printed'[k] = IF k <= Len(text) THEN text[k] ELSE end[k - Len(text)]
  <2>1. Len(text) \in Nat \ {0}
    BY <1>5, EmptySeq
  <2>2. /\ text \o end \in Seq(Printable)
        /\ Len(text \o end) = Len(text) + Len(end)
        /\ \A k \in 1 .. Len(text) + Len(end) : (text \o end)[k] =
             IF k <= Len(text) THEN text[k] ELSE end[k - Len(text)]
    BY <1>5, <1>7, ConcatProperties
  <2>3. QED
    BY <1>6, <1>7, <2>1, <2>2
<1>9. ClosesAtEnd'
  <2> SUFFICES ASSUME NEW k \in 1 .. Len(printed') - 1,
                      printed'[k] = "*", printed'[k + 1] = "/"
               PROVE  k + 2 = Len(printed')
    BY <1>3 DEF ClosesAtEnd
  <2>1. CASE k + 1 <= Len(text)
    BY <1>5, <1>8, <2>1 DEF Safe
  <2>2. CASE k = Len(text)
    BY <1>5, <1>8, <2>2
  <2>3. CASE k > Len(text)
    <3>1. k - Len(text) \in 1 .. 3
      BY <1>8, <2>3
    <3>2. end[k - Len(text)] = "*"
      BY <1>8, <2>3
    <3>3. k - Len(text) = 2
      <4>1. \A j \in 1 .. 3 : j = 1 \/ j = 2 \/ j = 3
        OBVIOUS
      <4>2. end[1] # "*" /\ end[3] # "*"
        BY <1>7
      <4>3. QED
        BY <3>1, <3>2, <4>1, <4>2
    <3>4. QED
      BY <1>8, <3>3
  <2>4. QED
    BY <1>8, <2>1, <2>2, <2>3
<1>10. TypeOK'
  <2>1. Texts'
    BY <1>1, <1>2, <1>8 DEF Texts
  <2>2. Positions'
    BY <1>1, <1>2, LenNat DEF Positions, HaveDocLines
  <2>3. QED
    BY <2>1, <2>2 DEF TypeOK
<1>11. PrintedSafe'
  BY <1>3, <1>8, EmptySeq DEF PrintedSafe
<1>12. QED
  BY <1>1, <1>9, <1>10, <1>11 DEF IndInv, EscapedSafe, LinesSafe, Safe

(* Every step keeps the invariant.                                         *)
LEMMA NextInv == IndInv /\ [Next]_vars => IndInv'
<1> SUFFICES ASSUME IndInv, [Next]_vars PROVE IndInv'
  OBVIOUS
<1>1. CASE EscapeJavadoc
  BY <1>1, EscapeInv
<1>2. CASE SkipNewline
  BY <1>2, SkipInv
<1>3. CASE TakeLine
  BY <1>3, TakeInv
<1>4. CASE PrintOpening
  BY <1>4, OpeningInv
<1>5. CASE PrintLine
  BY <1>5, LineInv
<1>6. CASE PrintClosing
  BY <1>6, ClosingInv
<1>7. CASE UNCHANGED vars
  BY <1>7 DEF IndInv, TypeOK, Texts, Positions, EscapedSafe, LinesSafe, Safe,
              PrintedSafe, ClosesAtEnd, Closed, vars
<1>8. QED
  BY <1>1, <1>2, <1>3, <1>4, <1>5, <1>6, <1>7 DEF Next

(* The positions stay within the texts, and Split makes no empty line      *)
(* (java_generator.cpp:111 to :300).                                       *)
THEOREM TypeCorrect == Spec => []TypeOK
<1>1. IndInv => TypeOK
  BY DEF IndInv
<1>2. QED
  BY <1>1, InitInv, NextInv, PTL DEF Spec

(* No comment, however long, ends the printed comment before its end: a    *)
(* slash follows an asterisk only where the comment is closed              *)
(* (java_generator.cpp:158 to :271).                                       *)
THEOREM CommentClosesAtEnd == Spec => []ClosesAtEnd
<1>1. IndInv => ClosesAtEnd
  BY DEF IndInv
<1>2. QED
  BY <1>1, InitInv, NextInv, PTL DEF Spec
-----------------------------------------------------------------------------
(* No character looks like an entity.                                      *)
CharsAreNoEntities == Chars \cap Entities = {}

(* Each token stands for the character it was written for, and newlines    *)
(* stay what they are.                                                     *)
EscapedReads ==
  \A k \in DOMAIN result :
    /\ Raw(result[k]) = comments[k]
    /\ result[k] \notin Markup
    /\ result[k] = "\n" <=> comments[k] = "\n"

(* The runs Split has passed, and how many runs there are up to r.         *)
Passed(runs, to) == {r \in runs : r[2] < to}
UpTo(runs, r)    == {q \in runs : q[1] <= r[1]}

(* Split stops before a newline, behind one, or at an end of the text.     *)
BetweenLines ==
  \/ p = 1 \/ p = Len(comments) + 1
  \/ p \in 2 .. Len(comments) /\ (comments[p] = "\n" \/ comments[p - 1] = "\n")

Spells(text, line, r) ==
  /\ [k \in DOMAIN line |-> Raw(line[k])] = SubSeq(text, r[1], r[2])
  /\ \A k \in DOMAIN line : line[k] \notin Markup

(* Split has taken a line for every run it has passed, in order.           *)
Taken(text, runs, taken, to) ==
  /\ Len(taken) = Cardinality(Passed(runs, to))
  /\ \A r \in Passed(runs, to) :
       Spells(text, taken[Cardinality(UpTo(runs, r))], r)
LinesRead == Taken(comments, Runs, lines, p)

ReadInv == EscapedReads /\ BetweenLines /\ LinesRead

(* An entity stands for one character.                                     *)
LEMMA EntityReads ==
  ASSUME NEW c \in Markup \cup {"*", "/"}
  PROVE  /\ Entity(c) \in Entities /\ Entity(c) \notin Markup /\ Entity(c) # "\n"
         /\ Raw(Entity(c)) = c
<1>1. Entity(c) \in Entities /\ Entity(c) \notin Markup /\ Entity(c) # "\n"
  BY DEF Entity, Entities, Markup
<1>2. \A d \in Markup \cup {"*", "/"} : Entity(d) = Entity(c) => d = c
  BY DEF Entity, Markup
<1>3. (CHOOSE d \in Markup \cup {"*", "/"} : Entity(d) = Entity(c)) = c
  BY <1>2
<1>4. QED
  BY <1>1, <1>3 DEF Raw

(* What a reader makes of an escaped character.                            *)
LEMMA EscapedReadsBack ==
  ASSUME CharsAreNoEntities, NEW c \in Chars, NEW before
  PROVE  /\ Raw(Escaped(c, before)) = c
         /\ Escaped(c, before) \notin Markup
         /\ Escaped(c, before) = "\n" <=> c = "\n"
<1>1. CASE c \in Markup \/ (c = "*" /\ before = "/") \/ (c = "/" /\ before = "*")
  <2>1. c \in Markup \cup {"*", "/"} /\ c # "\n"
    BY <1>1 DEF Markup
  <2>2. Escaped(c, before) = Entity(c)
    BY <1>1 DEF Escaped
  <2>3. QED
    BY <2>1, <2>2, EntityReads
<1>2. CASE ~(c \in Markup \/ (c = "*" /\ before = "/") \/ (c = "/" /\ before = "*"))
  <2>1. Escaped(c, before) = c /\ c \notin Markup
    BY <1>2 DEF Escaped
  <2>2. c \notin Entities
    BY DEF CharsAreNoEntities
  <2>3. QED
    BY <2>1, <2>2 DEF Raw
<1>3. QED
  BY <1>1, <1>2

(* The texts and the position in them.                                     *)
LEMMA Shape ==
  ASSUME TypeOK
  PROVE  /\ comments \in Seq(Chars) /\ Len(comments) \in Nat
         /\ result \in Seq(Tokens) /\ Len(result) \in Nat
         /\ lines \in Seq(Seq(Tokens) \ {<<>>}) /\ Len(lines) \in Nat
         /\ p \in 1 .. Len(result) + 1
         /\ i \in 1 .. Len(comments) + 1 /\ Len(result) = i - 1
         /\ i > Len(comments) => Len(result) = Len(comments)
<1>1. comments \in Seq(Chars) /\ result \in Seq(Tokens)
      /\ lines \in Seq(Seq(Tokens) \ {<<>>})
  BY DEF TypeOK, Texts
<1>2. Len(comments) \in Nat /\ Len(result) \in Nat /\ Len(lines) \in Nat
  BY LenNat DEF TypeOK
<1>3. /\ p \in 1 .. Len(result) + 1
      /\ i \in 1 .. Len(comments) + 1 /\ Len(result) = i - 1
  BY DEF TypeOK, Positions
<1>4. QED
  BY <1>1, <1>2, <1>3

(* Comments are finite, and so are the sets of their runs.                 *)
LEMMA RunsFinite ==
  ASSUME TypeOK
  PROVE  /\ IsFiniteSet(Runs)
         /\ \A S \in SUBSET Runs : IsFiniteSet(S) /\ Cardinality(S) \in Nat
<1>1. comments \in Seq(Chars) /\ Len(comments) \in Nat
  BY Shape
<1>2. IsFiniteSet(1 .. Len(comments))
  BY <1>1, FS_Interval
<1>3. DOMAIN comments = 1 .. Len(comments)
  BY <1>1
<1>4. IsFiniteSet((DOMAIN comments) \X (DOMAIN comments))
  BY <1>2, <1>3, FS_Product
<1>5. Runs \in SUBSET ((DOMAIN comments) \X (DOMAIN comments))
  BY DEF Runs
<1>6. IsFiniteSet(Runs)
  BY <1>4, <1>5, FS_Subset
<1>7. QED
  BY <1>6, FS_Subset, FS_CardinalityType

(* The runs change with the comment only.                                  *)
LEMMA SameRuns ==
  ASSUME comments' = comments PROVE Runs' = Runs
BY DEF Runs

(* A run has bounds within the comment, holds no newline and is as long as *)
(* it can be.                                                              *)
LEMMA RunFacts ==
  ASSUME TypeOK, NEW r \in Runs
  PROVE  /\ r = <<r[1], r[2]>>
         /\ r[1] \in 1 .. Len(comments) /\ r[2] \in r[1] .. Len(comments)
         /\ r[1] \in Nat /\ r[2] \in Nat /\ Len(comments) \in Nat
         /\ \A k \in r[1] .. r[2] : comments[k] # "\n"
         /\ r[1] > 1 => comments[r[1] - 1] = "\n"
         /\ r[2] < Len(comments) => comments[r[2] + 1] = "\n"
<1>1. comments \in Seq(Chars) /\ Len(comments) \in Nat
  BY Shape
<1>2. DOMAIN comments = 1 .. Len(comments)
  BY <1>1
<1>3. r \in (1 .. Len(comments)) \X (1 .. Len(comments)) /\ r[1] <= r[2]
  BY <1>2 DEF Runs
<1>4. QED
  BY <1>1, <1>3 DEF Runs

(* Runs that share a position are one run.                                 *)
LEMMA RunsApart ==
  ASSUME TypeOK, NEW r \in Runs, NEW q \in Runs, r[1] <= q[2], q[1] <= r[2]
  PROVE  r = q
<1>1. r[1] = q[1]
  <2>1. CASE r[1] < q[1]
    <3>1. comments[q[1] - 1] = "\n" /\ q[1] - 1 \in r[1] .. r[2]
      BY <2>1, RunFacts
    <3>2. QED
      BY <3>1, RunFacts
  <2>2. CASE q[1] < r[1]
    <3>1. comments[r[1] - 1] = "\n" /\ r[1] - 1 \in q[1] .. q[2]
      BY <2>2, RunFacts
    <3>2. QED
      BY <3>1, RunFacts
  <2>3. QED
    BY <2>1, <2>2, RunFacts
<1>2. r[2] = q[2]
  <2>1. CASE r[2] < q[2]
    <3>1. comments[r[2] + 1] = "\n" /\ r[2] + 1 \in q[1] .. q[2]
      BY <2>1, RunFacts
    <3>2. QED
      BY <3>1, RunFacts
  <2>2. CASE q[2] < r[2]
    <3>1. comments[q[2] + 1] = "\n" /\ q[2] + 1 \in r[1] .. r[2]
      BY <2>2, RunFacts
    <3>2. QED
      BY <3>1, RunFacts
  <2>3. QED
    BY <2>1, <2>2, RunFacts
<1>3. QED
  BY <1>1, <1>2, RunFacts

(* The run that starts where Split takes a line is the line.               *)
LEMMA LineIsRun ==
  ASSUME TypeOK, EscapedReads, BetweenLines, i > Len(comments),
         NEW to \in p .. Len(result), LineEnd(p, to)
  PROVE  /\ <<p, to>> \in Runs
         /\ to \in p .. Len(comments) /\ p \in 1 .. Len(comments)
<1>1. /\ comments \in Seq(Chars) /\ Len(comments) \in Nat
      /\ result \in Seq(Tokens) /\ Len(result) \in Nat
      /\ p \in 1 .. Len(result) + 1 /\ Len(result) = Len(comments)
  BY Shape
<1>2. DOMAIN comments = 1 .. Len(comments) /\ DOMAIN result = 1 .. Len(comments)
  BY <1>1
<1>3. p \in 1 .. Len(comments) /\ to \in p .. Len(comments)
  BY <1>1
<1>4. \A k \in 1 .. Len(comments) : result[k] = "\n" <=> comments[k] = "\n"
  BY <1>2 DEF EscapedReads
<1>5. \A k \in p .. to : comments[k] # "\n"
  BY <1>1, <1>3, <1>4 DEF LineEnd
<1>6. to < Len(comments) => comments[to + 1] = "\n"
  <2>1. to < Len(comments) => to + 1 \in 1 .. Len(comments)
    BY <1>1, <1>3
  <2>2. QED
    BY <1>1, <1>4, <2>1 DEF LineEnd
<1>7. p > 1 => comments[p - 1] = "\n"
  BY <1>1, <1>3, <1>5 DEF BetweenLines
<1>8. <<p, to>> \in (DOMAIN comments) \X (DOMAIN comments) /\ p <= to
  BY <1>1, <1>2, <1>3
<1>9. QED
  BY <1>3, <1>5, <1>6, <1>7, <1>8 DEF Runs

(* It spells the line.                                                     *)
LEMMA LineSpells ==
  ASSUME TypeOK, EscapedReads, i > Len(comments),
         NEW from \in 1 .. Len(result), NEW to \in from .. Len(result)
  PROVE  Spells(comments, SubSeq(result, from, to), <<from, to>>)
<1>1. /\ comments \in Seq(Chars) /\ Len(comments) \in Nat
      /\ result \in Seq(Tokens) /\ Len(result) \in Nat
      /\ Len(result) = Len(comments)
  BY Shape
<1> DEFINE line == SubSeq(result, from, to)
           text == SubSeq(comments, from, to)
<1>2. from \in Nat /\ to \in Nat /\ from <= to /\ to <= Len(result)
      /\ from \in Int /\ to \in Int
  BY <1>1
<1>3. line \in Seq(Tokens) /\ Len(line) = to - from + 1
      /\ \A k \in 1 .. to - from + 1 : line[k] = result[from + k - 1]
  <2>1. \A k \in from .. to : result[k] \in Tokens
    BY <1>1
  <2>2. QED
    BY <1>2, <2>1, SubSeqProperties
<1>4. text \in Seq(Chars) /\ Len(text) = to - from + 1
      /\ \A k \in 1 .. to - from + 1 : text[k] = comments[from + k - 1]
  <2>1. \A k \in from .. to : comments[k] \in Chars
    BY <1>1
  <2>2. QED
    BY <1>2, <2>1, SubSeqProperties
<1> HIDE DEF line, text
<1>5. DOMAIN line = 1 .. to - from + 1 /\ DOMAIN text = 1 .. to - from + 1
  BY <1>3, <1>4
<1>6. ASSUME NEW k \in 1 .. to - from + 1
      PROVE  Raw(line[k]) = text[k] /\ line[k] \notin Markup
  <2>1. from + k - 1 \in 1 .. Len(result)
    BY <1>1, <1>2
  <2>2. from + k - 1 \in DOMAIN result
    BY <1>1, <2>1
  <2>3. QED
    BY <1>3, <1>4, <2>2 DEF EscapedReads
<1>7. [k \in DOMAIN line |-> Raw(line[k])] = text
  <2>1. text = [k \in DOMAIN text |-> text[k]]
    BY <1>4
  <2>2. QED
    BY <1>5, <1>6, <2>1
<1>8. QED
  BY <1>5, <1>6, <1>7 DEF Spells, line, text

(* Split takes the next run.                                               *)
LEMMA TakeRead ==
  ASSUME TypeOK, ReadInv, TakeLine
  PROVE  ReadInv'
<1>1. UNCHANGED <<comments, result>> /\ i > Len(comments) /\ p <= Len(result)
  BY DEF TakeLine
<1>2. PICK to \in p .. Len(result) :
        /\ LineEnd(p, to) /\ lines' = Append(lines, SubSeq(result, p, to))
        /\ p' = to + 1
  BY DEF TakeLine
<1> DEFINE line == SubSeq(result, p, to)
           new  == <<p, to>>
<1>3. /\ new \in Runs /\ to \in p .. Len(comments) /\ p \in 1 .. Len(comments)
  BY <1>1, <1>2, LineIsRun DEF ReadInv
<1>4. /\ p \in Nat /\ to \in Nat /\ Len(comments) \in Nat /\ p <= to
      /\ Len(result) = Len(comments) /\ lines \in Seq(Seq(Tokens) \ {<<>>})
      /\ Len(lines) \in Nat
  BY <1>1, <1>3, Shape
<1>5. Spells(comments, line, new)
  <2>1. p \in 1 .. Len(result) /\ to \in p .. Len(result)
    BY <1>3, <1>4
  <2>2. QED
    BY <1>1, <2>1, LineSpells DEF ReadInv
<1>6. new[1] = p /\ new[2] = to
  OBVIOUS
<1> HIDE DEF line, new
<1>7. \A r \in Runs : r[2] < to + 1 <=> r[2] < p \/ r = new
  <2> SUFFICES ASSUME NEW r \in Runs, r[2] < to + 1, ~(r[2] < p) PROVE r = new
    BY <1>4, <1>6, RunFacts
  <2>1. r[1] <= new[2] /\ new[1] <= r[2]
    BY <1>4, <1>6, RunFacts
  <2>2. QED
    BY <1>3, <2>1, RunsApart
<1>8. Passed(Runs, to + 1) = Passed(Runs, p) \cup {new}
  BY <1>3, <1>7 DEF Passed
<1>9. new \notin Passed(Runs, p)
  BY <1>4, <1>6 DEF Passed
<1>10. UpTo(Runs, new) = Passed(Runs, to + 1)
  <2>1. ASSUME NEW r \in Runs PROVE r[1] <= p <=> r[2] < to + 1
    <3>1. CASE r = new
      BY <1>4, <1>6, <3>1
    <3>2. CASE r # new
      <4>1. r[1] > new[2] \/ new[1] > r[2]
        BY <1>3, <1>4, <1>6, <3>2, RunsApart, RunFacts
      <4>2. QED
        BY <1>4, <1>6, <4>1, RunFacts
    <3>3. QED
      BY <3>1, <3>2
  <2>2. QED
    BY <1>6, <2>1 DEF UpTo, Passed
<1>11. IsFiniteSet(Passed(Runs, p)) /\ Cardinality(Passed(Runs, p)) \in Nat
  BY RunsFinite DEF Passed
<1>12. Cardinality(Passed(Runs, to + 1)) = Len(lines) + 1
  BY <1>8, <1>9, <1>11, FS_AddElement DEF ReadInv, LinesRead, Taken
<1>13. /\ Len(lines') = Len(lines) + 1 /\ lines'[Len(lines) + 1] = line
       /\ \A n \in 1 .. Len(lines) : lines'[n] = lines[n]
  BY <1>2, <1>4, AppendProperties DEF line
<1>14. \A r \in Passed(Runs, p) : Cardinality(UpTo(Runs, r)) \in 1 .. Len(lines)
  <2> SUFFICES ASSUME NEW r \in Passed(Runs, p)
               PROVE  Cardinality(UpTo(Runs, r)) \in 1 .. Len(lines)
    OBVIOUS
  <2>1. r \in Runs /\ r[2] < p
    BY DEF Passed
  <2>2. ASSUME NEW q \in UpTo(Runs, r) PROVE q \in Passed(Runs, p)
    <3>1. q \in Runs /\ q[1] <= r[1]
      BY <2>2 DEF UpTo
    <3>2. CASE r[1] <= q[2]
      BY <2>1, <3>1, <3>2, RunsApart, RunFacts DEF Passed
    <3>3. CASE ~(r[1] <= q[2])
      BY <1>4, <2>1, <3>1, <3>3, RunFacts DEF Passed
    <3>4. QED
      BY <3>2, <3>3
  <2>3. Cardinality(UpTo(Runs, r)) <= Cardinality(Passed(Runs, p))
    BY <1>11, <2>2, FS_Subset
  <2>4. r \in UpTo(Runs, r)
    BY <2>1, RunFacts DEF UpTo
  <2>5. IsFiniteSet(UpTo(Runs, r)) /\ Cardinality(UpTo(Runs, r)) \in Nat
    BY RunsFinite DEF UpTo
  <2>6. Cardinality(UpTo(Runs, r)) # 0
    BY <2>4, <2>5, FS_EmptySet
  <2>7. QED
    BY <1>4, <2>3, <2>5, <2>6 DEF ReadInv, LinesRead, Taken
<1>15. \A r \in Passed(Runs, to + 1) : Spells(comments, lines'[Cardinality(UpTo(Runs, r))], r)
  <2> SUFFICES ASSUME NEW r \in Passed(Runs, to + 1)
               PROVE  Spells(comments, lines'[Cardinality(UpTo(Runs, r))], r)
    OBVIOUS
  <2>1. CASE r = new
    BY <1>5, <1>10, <1>12, <1>13, <2>1
  <2>2. CASE r \in Passed(Runs, p)
    BY <1>13, <1>14, <2>2 DEF ReadInv, LinesRead, Taken
  <2>3. QED
    BY <1>8, <2>1, <2>2
<1>16. LinesRead'
  <2>1. Taken(comments, Runs, lines', to + 1)
    BY <1>12, <1>13, <1>15 DEF Taken
  <2>2. QED
    BY <1>1, <1>2, <2>1, SameRuns DEF LinesRead
<1>17. BetweenLines'
  <2>1. to < Len(comments) => comments[to + 1] = "\n"
    BY <1>3, <1>6, RunFacts
  <2>2. \/ p' = Len(comments) + 1
        \/ p' \in 2 .. Len(comments) /\ comments[p'] = "\n"
    BY <1>2, <1>3, <1>4, <2>1
  <2>3. QED
    BY <1>1, <2>2 DEF BetweenLines
<1>18. EscapedReads'
  BY <1>1 DEF ReadInv, EscapedReads
<1>19. QED
  BY <1>16, <1>17, <1>18 DEF ReadInv

(* There is no run that ends at a newline.                                 *)
LEMMA SkipRead ==
  ASSUME TypeOK, ReadInv, SkipNewline
  PROVE  ReadInv'
<1>1. UNCHANGED <<comments, result, lines>> /\ p' = p + 1
  BY DEF SkipNewline
<1>2. /\ p \in Nat \ {0} /\ p <= Len(comments) /\ Len(comments) \in Nat
      /\ p \in DOMAIN result
  <2>1. /\ result \in Seq(Tokens) /\ Len(result) = Len(comments)
        /\ p \in 1 .. Len(result) + 1 /\ p <= Len(result)
        /\ Len(comments) \in Nat
    BY Shape DEF SkipNewline
  <2>2. QED
    BY <2>1
<1>3. comments[p] = "\n"
  BY <1>2 DEF SkipNewline, ReadInv, EscapedReads
<1>4. \A r \in Runs : r[2] # p
  BY <1>2, <1>3, RunFacts
<1>5. Passed(Runs, p + 1) = Passed(Runs, p)
  BY <1>2, <1>4, RunFacts DEF Passed
<1>6. LinesRead'
  <2>1. Taken(comments, Runs, lines, p + 1)
    BY <1>5 DEF ReadInv, LinesRead, Taken
  <2>2. QED
    BY <1>1, <2>1, SameRuns DEF LinesRead
<1>7. BetweenLines'
  BY <1>1, <1>2, <1>3 DEF BetweenLines
<1>8. EscapedReads'
  BY <1>1 DEF ReadInv, EscapedReads
<1>9. QED
  BY <1>6, <1>7, <1>8 DEF ReadInv

(* A character more is escaped.                                            *)
LEMMA EscapeRead ==
  ASSUME CharsAreNoEntities, TypeOK, ReadInv, EscapeJavadoc
  PROVE  ReadInv'
<1>1. UNCHANGED <<comments, p, lines>> /\ i <= Len(comments)
      /\ result' = Append(result, Escaped(comments[i], prev))
  BY DEF EscapeJavadoc
<1>2. /\ comments \in Seq(Chars) /\ result \in Seq(Tokens)
      /\ Len(result) = i - 1 /\ Len(comments) \in Nat
      /\ i \in 1 .. Len(comments)
  BY <1>1, Shape
<1>3. comments[i] \in Chars /\ i \in Nat /\ Len(result) + 1 = i
  BY <1>2
<1> DEFINE t == Escaped(comments[i], prev)
<1>4. Raw(t) = comments[i] /\ t \notin Markup /\ (t = "\n" <=> comments[i] = "\n")
  BY <1>3, EscapedReadsBack
<1>5. t \in Tokens /\ result' = Append(result, t)
  BY <1>1, <1>3, EscapedToken
<1> HIDE DEF t
<1>6. /\ DOMAIN result' = 1 .. i /\ result'[i] = t
      /\ \A k \in 1 .. i - 1 : result'[k] = result[k] /\ k \in DOMAIN result
  BY <1>2, <1>3, <1>5
<1>7. EscapedReads'
  <2> SUFFICES ASSUME NEW k \in 1 .. i
               PROVE  /\ Raw(result'[k]) = comments[k]
                      /\ result'[k] \notin Markup
                      /\ result'[k] = "\n" <=> comments[k] = "\n"
    BY <1>1, <1>6 DEF EscapedReads
  <2>1. CASE k = i
    BY <1>4, <1>6, <2>1
  <2>2. CASE k # i
    BY <1>3, <1>6, <2>2 DEF ReadInv, EscapedReads
  <2>3. QED
    BY <2>1, <2>2
<1>8. BetweenLines' /\ LinesRead'
  BY <1>1, SameRuns DEF ReadInv, BetweenLines, LinesRead
<1>9. QED
  BY <1>7, <1>8 DEF ReadInv

(* Once all runs are passed, the lines are the comment's.                  *)
LEMMA ReadInvMeans ==
  ASSUME TypeOK, ReadInv
  PROVE  ReadsBack
<1> SUFFICES ASSUME HaveDocLines PROVE ReadsBack
  BY DEF ReadsBack
<1>1. p > Len(comments) /\ Len(comments) \in Nat /\ p \in Nat
  BY Shape DEF HaveDocLines
<1>2. Passed(Runs, p) = Runs
  BY <1>1, RunFacts DEF Passed
<1>3. Len(lines) = Cardinality(Runs)
      /\ \A r \in Runs : Spells(comments, lines[Cardinality(UpTo(Runs, r))], r)
  BY <1>2 DEF ReadInv, LinesRead, Taken
<1>4. QED
  BY <1>3 DEF ReadsBack, Spells, UpTo

(* Whatever a comment of the .proto file holds, the doc comment has a line *)
(* for each of its lines that is not empty, in order, that says the same   *)
(* when the entities are read as the characters they stand for, and has    *)
(* no markup in it (java_generator.cpp:111 to :271).                       *)
THEOREM AlwaysReadsBack ==
  ASSUME CharsAreNoEntities PROVE Spec => []ReadsBack
<1> DEFINE Inv == IndInv /\ ReadInv
<1>1. Init => Inv
  <2> SUFFICES ASSUME Init PROVE ReadInv
    BY InitInv
  <2>1. p = 1 /\ lines = <<>> /\ result = <<>>
    BY DEF Init, Start
  <2>2. TypeOK
    BY InitInv DEF IndInv
  <2>3. Passed(Runs, p) = {}
    BY <2>1, <2>2, RunFacts DEF Passed
  <2>4. QED
    BY <2>1, <2>3, FS_EmptySet
       DEF ReadInv, EscapedReads, BetweenLines, LinesRead, Taken
<1>2. Inv /\ [Next]_vars => Inv'
  <2> SUFFICES ASSUME Inv, [Next]_vars PROVE ReadInv'
    BY NextInv
  <2>1. TypeOK
    BY DEF IndInv
  <2>2. CASE EscapeJavadoc
    BY <2>1, <2>2, EscapeRead
  <2>3. CASE SkipNewline
    BY <2>1, <2>3, SkipRead
  <2>4. CASE TakeLine
    BY <2>1, <2>4, TakeRead
  <2>5. CASE UNCHANGED <<comments, result, p, lines>>
    BY <2>5, SameRuns DEF ReadInv, EscapedReads, BetweenLines, LinesRead
  <2>6. QED
    BY <2>2, <2>3, <2>4, <2>5
       DEF Next, PrintOpening, PrintLine, PrintClosing, vars
<1>3. Inv => ReadsBack
  BY ReadInvMeans DEF IndInv
<1>4. QED
  BY <1>1, <1>2, <1>3, PTL DEF Spec
=============================================================================
