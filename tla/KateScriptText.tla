--------------------------- MODULE KateScriptText ---------------------------
(***************************************************************************)
(* The text of an event in a description: what kateenc makes of a quoted   *)
(* string (kate_parser.c) and what katedec prints for a text (kkate.c).    *)
(* A text is a sequence of characters, of which the name of an entity, as  *)
(* in "&", "amp", "semicolon", is one here.  A numeric entity of a         *)
(* description, such as "#amp" for &#38;, is one token, and so is "backn", *)
(* a backslash and an n.                                                   *)
(***************************************************************************)
EXTENDS Integers, Sequences, SequencesExt

Numeric == {"#a", "#amp", "#lt", "#nl", "#quote"}
CharOf ==
  [c \in Numeric |-> CASE c = "#a" -> "a" [] c = "#amp" -> "&" [] c = "#lt" -> "<"
                       [] c = "#nl" -> "nl" [] OTHER -> "quote"]
NameOf == [c \in {"&", "<", ">"} |-> CASE c = "&" -> "amp" [] c = "<" -> "lt" [] OTHER -> "gt"]
EntityNames == {NameOf[c] : c \in DOMAIN NameOf}

(* backslash_n_to_newline                                                    *)
Backslashed(text) == [i \in DOMAIN text |-> IF text[i] = "backn" THEN "nl" ELSE text[i]]

(* Bytes that are no characters of UTF-8.                                    *)
Broken(text) == \E i \in DOMAIN text : text[i] = "broken"

(* A slip: a numeric entity always stands for its own character.             *)
EscapedNever(c) == <<c>>

(* What is written for the character of a numeric entity: the entity of its  *)
(* name for one that would be read as markup.                                *)
Escaped(c) == IF c \in DOMAIN NameOf THEN <<"&", NameOf[c], "semicolon">> ELSE <<c>>

(* expand_numeric_entities: "text", "amp" just after an ampersand, or        *)
(* "named", which goes on to the next semicolon, wherever that is.           *)
ExpandedBy(a, c) ==
  CASE c \in Numeric /\ a.state = "text" -> [a EXCEPT !.out = @ \o Escaped(CharOf[c])]
    [] c \in Numeric /\ a.state # "text" -> [state |-> "text", out |-> Append(a.out, c)]
    [] OTHER ->
         [state |-> CASE a.state = "amp" -> "named"
                      [] a.state = "text" /\ c = "&" -> "amp"
                      [] a.state = "named" /\ c = "semicolon" -> "text"
                      [] OTHER -> a.state,
          out |-> Append(a.out, c)]
Expanded(text) ==
  LET at[k \in 0 .. Len(text)] ==
        IF k = 0 THEN [state |-> "text", out |-> <<>>] ELSE ExpandedBy(at[k - 1], text[k])
  IN at[Len(text)].out

(* trimtext: each line without the blanks around it, and no empty line: the *)
(* lines that are done, and the one that is read.                            *)
Stripped(line) ==
  LET ink == {i \in DOMAIN line : line[i] # "blank"}
  IN IF ink = {} THEN <<>> ELSE SubSeq(line, Min(ink), Max(ink))
JoinedBy(text, line) ==
  CASE line = <<>> -> text [] text = <<>> -> line [] OTHER -> text \o <<"nl">> \o line
Joined(a) == JoinedBy(a.done, Stripped(a.line))
LineBy(a, c) ==
  IF c = "nl" THEN [done |-> Joined(a), line |-> <<>>] ELSE [a EXCEPT !.line = Append(@, c)]
Trimmed(text) ==
  LET at[k \in 0 .. Len(text)] ==
        IF k = 0 THEN [done |-> <<>>, line |-> <<>>] ELSE LineBy(at[k - 1], text[k])
  IN Joined(at[Len(text)])

(* trimtext_pre: without one newline at the start, and one at the end.       *)
TrimmedPre(text) ==
  LET from == IF text # <<>> /\ text[1] = "nl" THEN 2 ELSE 1
      to == IF Len(text) >= from /\ text[Len(text)] = "nl" THEN Len(text) - 1 ELSE Len(text)
  IN SubSeq(text, from, to)

(* set_event_text                                                            *)
EventText(text, pre) ==
  LET expanded == Expanded(Backslashed(text))
  IN IF pre THEN TrimmedPre(expanded) ELSE Trimmed(expanded)

(* get_num_glyphs: the characters that are not in a tag, those of an entity  *)
(* included.                                                                 *)
Width(c) == CASE c = "amp" -> 3 [] c \in {"lt", "gt"} -> 2 [] OTHER -> 1
GlyphBy(a, c) ==
  LET in == IF c = "<" THEN a.in + 1 ELSE a.in
  IN [in |-> IF c = ">" THEN in - 1 ELSE in, n |-> IF in = 0 THEN a.n + Width(c) ELSE a.n]
GlyphCount(text) ==
  LET at[k \in 0 .. Len(text)] ==
        IF k = 0 THEN [in |-> 0, n |-> 0] ELSE GlyphBy(at[k - 1], text[k])
  IN at[Len(text)].n

(* A slip: a quote is printed as it is.                                      *)
WrittenTextQuoting(text) ==
  [i \in DOMAIN text |-> IF text[i] = "nl" THEN "#nl" ELSE text[i]]

(* write_text of kkate.c: quotes and newlines as numeric entities, and an    *)
(* ampersand as it is.                                                       *)
WrittenText(text) ==
  [i \in DOMAIN text |-> CASE text[i] = "nl" -> "#nl" [] text[i] = "quote" -> "#quote"
                           [] OTHER -> text[i]]

-----------------------------------------------------------------------------
(* What a reader of a text sees in it.                                       *)

EntityAt(text, i) ==
  /\ i + 2 <= Len(text)
  /\ text[i] = "&" /\ text[i + 1] \in EntityNames /\ text[i + 2] = "semicolon"
CharNamed(name) == CHOOSE c \in DOMAIN NameOf : NameOf[c] = name
(* Each entity as the character it stands for.                               *)
SeenBy(seen, text, i) ==
  CASE EntityAt(text, i) -> Append(seen, CharNamed(text[i + 1]))
    [] \E j \in {i - 1, i - 2} : j > 0 /\ EntityAt(text, j) -> seen
    [] OTHER -> Append(seen, IF text[i] \in Numeric THEN CharOf[text[i]] ELSE text[i])
Seen(text) ==
  LET at[k \in 0 .. Len(text)] == IF k = 0 THEN <<>> ELSE SeenBy(at[k - 1], text, k)
  IN at[Len(text)]

(* An ampersand that starts no entity.                                       *)
HasBareAmpersand(text) == \E i \in DOMAIN text : text[i] = "&" /\ ~EntityAt(text, i)
(* A character that is printed as a numeric entity while an ampersand before *)
(* it is still open, so that it is not expanded when it is read.             *)
Swallows(text) ==
  \E i, j \in DOMAIN text : /\ i < j /\ text[i] = "&" /\ text[j] \in {"nl", "quote"}
                            /\ \A k \in i + 2 .. j - 1 : text[k] # "semicolon"
=============================================================================
