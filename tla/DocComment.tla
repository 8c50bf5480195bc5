----------------------------- MODULE DocComment -----------------------------
(***************************************************************************)
(* compiler/src/java_plugin/cpp/java_generator.cpp: the comment of a       *)
(* service or a method in a .proto file becomes a doc comment of the       *)
(* printed Java.  EscapeJavadoc rewrites it a character at a time, Split   *)
(* cuts it at the newlines and WriteDocCommentBody prints the lines, each  *)
(* behind an asterisk.                                                     *)
(*                                                                         *)
(* Text is a sequence of tokens: a character, an HTML entity or one of the *)
(* <pre> tags.  An entity or a tag has neither a leading slash nor a       *)
(* trailing asterisk, so tokens meet as their characters would.            *)
(***************************************************************************)
EXTENDS Naturals, Sequences, FiniteSets

CONSTANTS Chars,    \* the characters comments are made of
          Comments  \* the comments of a .proto file

ASSUME CommentsAssumption == Comments \subseteq Seq(Chars)

VARIABLES comments,  \* the comment of the descriptor
          preTag,    \* surroundWithPreTag
          i,         \* EscapeJavadoc: the next character
          prev,      \*   and the one before it
          result,    \*   the text so far
          p,         \* Split: the position in the escaped text
          lines,     \*   the lines so far
          row,       \* WriteDocCommentBody: the next line
          printed    \* what was printed

vars == <<comments, preTag, i, prev, result, p, lines, row, printed>>

(* Always written as an entity.                                            *)
Markup == {"@", "<", ">", "&", "\\"}

Entity(c) == CASE c = "*" -> "&#42;" [] c = "/" -> "&#47;"
               [] c = "@" -> "&#64;" [] c = "<" -> "&lt;"
               [] c = ">" -> "&gt;"  [] c = "&" -> "&amp;"
               [] c = "\\" -> "&#92;"

Entities == {"&#42;", "&#47;", "&#64;", "&lt;", "&gt;", "&amp;", "&#92;"}
Tokens   == Chars \cup Entities

Printable == Tokens \cup {"*", "/", " ", "\n", "<pre>", "</pre>"}

(* SourceLocation's leading comments, its trailing ones if there are none, *)
(* and nothing if the descriptor has no location.                          *)
GetCommentsForDescriptor(located, leading, trailing) ==
  IF ~located THEN <<>> ELSE IF leading = <<>> THEN trailing ELSE leading

Opening == <<"/", "*", "*", "\n">>

(* WriteServiceDocComment, WriteMethodDocComment and WriteDocComment,      *)
(* which differ in the tags.                                               *)
Start(text, tag) == /\ comments = text /\ preTag = tag
                    /\ i = 1 /\ prev = "*" /\ result = <<>>
                    /\ p = 1 /\ lines = <<>>
                    /\ row = 0 /\ printed = Opening

Init == \E located, tag \in BOOLEAN, leading, trailing \in Comments :
          Start(GetCommentsForDescriptor(located, leading, trailing), tag)
-----------------------------------------------------------------------------
(* The entity breaks up what would open or close a comment.                *)
Escaped_Mutant(c, before) ==
  IF c \in Markup \/ (c = "*" /\ before = "/") THEN Entity(c) ELSE c
Escaped(c, before) ==
  IF \/ c \in Markup
     \/ c = "*" /\ before = "/"
     \/ c = "/" /\ before = "*"
  THEN Entity(c) ELSE c

EscapeJavadoc ==
  /\ i <= Len(comments)
  /\ result' = Append(result, Escaped(comments[i], prev))
  /\ prev' = comments[i]
  /\ i' = i + 1
  /\ UNCHANGED <<comments, preTag, p, lines, row, printed>>

SkipNewline ==
  /\ i > Len(comments) /\ p <= Len(result)
  /\ result[p] = "\n"
  /\ p' = p + 1
  /\ UNCHANGED <<comments, preTag, i, prev, result, lines, row, printed>>

(* A line ends before the next newline or with the text.                   *)
LineEnd_Mutant(from, to) ==
  to < Len(result) => result[to + 1] = "\n"
LineEnd(from, to) ==
  /\ \A k \in from .. to : result[k] # "\n"
  /\ to < Len(result) => result[to + 1] = "\n"

TakeLine ==
  /\ i > Len(comments) /\ p <= Len(result)
  /\ \E to \in p .. Len(result) :
        /\ LineEnd(p, to)
        /\ lines' = Append(lines, SubSeq(result, p, to))
        /\ p' = to + 1
  /\ UNCHANGED <<comments, preTag, i, prev, result, row, printed>>

(* GetDocLines goes on to drop empty lines at the end; Split makes none.   *)
HaveDocLines == i > Len(comments) /\ p > Len(result)

Body == lines # <<>> /\ preTag

PrintOpening ==
  /\ HaveDocLines /\ row = 0
  /\ printed' = printed \o IF Body THEN <<" ", "*", " ", "<pre>", "\n">> ELSE <<>>
  /\ row' = 1
  /\ UNCHANGED <<comments, preTag, i, prev, result, p, lines>>

(* Before a line; one that starts with a slash is kept off the asterisk.   *)
Margin(line) == IF line[1] = "/" THEN <<" ", "*", " ">> ELSE <<" ", "*">>

PrintLine ==
  /\ HaveDocLines /\ row \in DOMAIN lines
  /\ printed' = printed \o Margin(lines[row]) \o lines[row] \o <<"\n">>
  /\ row' = row + 1
  /\ UNCHANGED <<comments, preTag, i, prev, result, p, lines>>

PrintClosing ==
  /\ HaveDocLines /\ row = Len(lines) + 1
  /\ printed' = printed
       \o (IF Body THEN <<" ", "*", " ", "</pre>", "\n">> ELSE <<>>)
       \o <<" ", "*", "/", "\n">>
  /\ row' = row + 1
  /\ UNCHANGED <<comments, preTag, i, prev, result, p, lines>>

Closed == row = Len(lines) + 2

Next == \/ EscapeJavadoc \/ SkipNewline \/ TakeLine
        \/ PrintOpening \/ PrintLine \/ PrintClosing

Spec == Init /\ [][Next]_vars
-----------------------------------------------------------------------------
(* Properties.                                                             *)

Texts == /\ comments \in Seq(Chars) /\ preTag \in BOOLEAN
         /\ prev \in Chars \cup {"*"}
         /\ result \in Seq(Tokens)
         /\ lines \in Seq(Seq(Tokens) \ {<<>>})
         /\ printed \in Seq(Printable)

Positions == /\ i \in 1 .. Len(comments) + 1 /\ Len(result) = i - 1
             /\ p \in 1 .. Len(result) + 1
             /\ row \in 0 .. Len(lines) + 2
             /\ p <= Len(result) \/ i <= Len(comments) => row = 0

(* The shapes of the state; Split makes no empty line.                     *)
TypeOK == Texts /\ Positions

(* No comment of a .proto file ends the printed comment early, whatever    *)
(* way asterisks, slashes and newlines follow each other: the only place   *)
(* where a slash follows an asterisk is the end that is printed last       *)
(* (java_generator.cpp:177 and :262).                                      *)
ClosesAtEnd ==
  \A k \in 1 .. Len(printed) - 1 :
    (printed[k] = "*" /\ printed[k + 1] = "/") =>
      Closed /\ k + 2 = Len(printed)

Raw(t) == IF t \in Entities THEN CHOOSE c \in Markup \cup {"*", "/"} : Entity(c) = t
          ELSE t

(* The runs of characters between newlines.                                *)
Runs == {r \in (DOMAIN comments) \X (DOMAIN comments) :
           /\ r[1] <= r[2]
           /\ \A k \in r[1] .. r[2] : comments[k] # "\n"
           /\ r[1] > 1 => comments[r[1] - 1] = "\n"
           /\ r[2] < Len(comments) => comments[r[2] + 1] = "\n"}

(* A reader of the Java doc, who sees the entities as the characters they  *)
(* stand for, finds the lines of the .proto file's comment that are not    *)
(* empty, in order and with nothing lost or read as markup.                *)
ReadsBack ==
  HaveDocLines =>
    /\ Len(lines) = Cardinality(Runs)
    /\ \A r \in Runs :
         LET line == lines[Cardinality({q \in Runs : q[1] <= r[1]})]
         IN  /\ [k \in DOMAIN line |-> Raw(line[k])] = SubSeq(comments, r[1], r[2])
             /\ \A k \in DOMAIN line : line[k] \notin Markup
=============================================================================
