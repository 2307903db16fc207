-------------------------- MODULE HeuristicSummary --------------------------
(***************************************************************************)
(* HeuristicSummaryProvider (vikingfs/heuristic_summary.rs).                *)
(*                                                                          *)
(* A text is the sequence of its bytes.  "w1" "w2" "w3" are the bytes of a  *)
(* letter, "p1" "p2" "p3" those of the ideographic full stop, every other   *)
(* element is a character of one byte.  The code counts and slices bytes;   *)
(* a slice that cuts a character in two is Rust's panic, Panic here.        *)
(***************************************************************************)
EXTENDS SequencesExt

CONSTANTS
  Panic,
  MaxAbstract,  \* max_abstract_chars, 400 by default
  MaxOverview,  \* max_overview_chars, 8000 by default
  Meaningful    \* what headings and a first paragraph must at least have: 50

ASSUME SummaryAssumption == MaxAbstract \in Nat \ {0} /\ MaxOverview \in Nat \ {0} /\ Meaningful \in Nat

White == {" ", "\n"}
Ending == {".", "p3"}
Inside == {"w2", "w3", "p2", "p3"}
Ellipsis == <<".", ".", ".">>

Boundary(t, k) == k = Len(t) \/ (k < Len(t) /\ t[k + 1] \notin Inside)

\* &t[from..to] for a from that is a boundary.
Between(t, from, to) == IF Boundary(t, to) THEN SubSeq(t, from + 1, to) ELSE Panic

Trim(t) ==
  LET ink == {i \in DOMAIN t : t[i] \notin White}
  IN IF ink = {} THEN <<>> ELSE SubSeq(t, Min(ink), Max(ink))

RECURSIVE Split(_, _)
Split(t, sep) ==
  LET hits == {i \in 1..(Len(t) - Len(sep) + 1) : SubSeq(t, i, i + Len(sep) - 1) = sep}
  IN IF hits = {} THEN <<t>>
     ELSE <<SubSeq(t, 1, Min(hits) - 1)>> \o Split(SubSeq(t, Min(hits) + Len(sep), Len(t)), sep)

Lines(t) == [i \in DOMAIN Split(t, <<"\n">>) |-> Trim(Split(t, <<"\n">>)[i])]

RECURSIVE Join(_, _)
Join(parts, sep) ==
  IF Len(parts) <= 1 THEN FlattenSeq(parts) ELSE Head(parts) \o sep \o Join(Tail(parts), sep)

(***************************************************************************)
(* extract_markdown_headings, extract_first_paragraph.                      *)
(***************************************************************************)
Copies(c, n) == [i \in 1..n |-> c]

HeadingMark(n) == Append(Copies("#", n), " ")

IsHeading(line) == \E n \in 1..3 : IsPrefix(HeadingMark(n), line)

\* An item of the list, indented by the heading's level.
HeadingItem(line) ==
  LET n == CHOOSE n \in 1..3 : IsPrefix(HeadingMark(n), line)
  IN Copies(" ", 2 * (n - 1)) \o <<"-", " ">> \o SubSeq(line, n + 2, Len(line))

Headings(t) ==
  LET found == SelectSeq(Lines(t), IsHeading)
  IN Join([i \in DOMAIN found |-> HeadingItem(found[i])], <<"\n">>)

Fence == <<"tick", "tick", "tick">>
Rule == <<"-", "-", "-">>

RECURSIVE Prose(_, _)
Prose(paragraphs, inCode) ==
  IF paragraphs = <<>> THEN <<>>
  ELSE LET p == Trim(Head(paragraphs))
           rest == Tail(paragraphs)
       IN IF p = <<>> THEN Prose(rest, inCode)
          ELSE IF IsPrefix(Fence, p) THEN Prose(rest, ~inCode)
          ELSE IF inCode \/ IsPrefix(Rule, p) \/ Head(p) = "#" THEN Prose(rest, inCode)
          ELSE [i \in DOMAIN p |-> IF p[i] = "\n" THEN " " ELSE p[i]]

IsProseLine(line) == line # <<>> /\ Head(line) # "#"

FirstParagraph(t) ==
  LET prose == Prose(Split(t, <<"\n", "\n">>), FALSE)
      lines == SelectSeq(Lines(t), IsProseLine)
  IN IF prose # <<>> THEN prose ELSE IF lines # <<>> THEN Head(lines) ELSE <<>>

(***************************************************************************)
(* extract_sentences: sentences are gathered until the limit is reached,    *)
(* and what is over is cut behind the last ending within the limit.         *)
(***************************************************************************)
EndsSentence(t, e) == t[e] \in Ending /\ (e = Len(t) \/ t[e + 1] \in White)

\* Mutant: the character behind the ending goes with the white space.
SkipWhite_One(t, from) == Min({Len(t), from + 1})

SkipWhite(t, from) ==
  LET ink == {i \in (from + 1)..Len(t) : t[i] \notin White}
  IN IF ink = {} THEN Len(t) ELSE Min(ink) - 1

Extend(result, sentence) ==
  IF sentence = <<>> THEN result
  ELSE IF result = <<>> THEN sentence ELSE result \o <<" ">> \o sentence

RECURSIVE Gather(_, _, _, _)
Gather(t, limit, from, result) ==
  IF from >= Len(t) \/ Len(result) >= limit THEN result
  ELSE LET ends == {e \in (from + 1)..Len(t) : EndsSentence(t, e)}
           end == IF ends # {} THEN Min(ends) ELSE Min({Len(t), from + limit})
           sentence == Between(t, from, end)
       IN IF sentence = Panic THEN Panic
          ELSE Gather(t, limit, SkipWhite(t, end), Extend(result, Trim(sentence)))

\* rfind gives the first byte of the ending, and the cut is one byte behind.
CutSentences(s, limit) ==
  LET head == Between(s, 0, limit)
      starts == {i \in 1..limit : s[i] \in {".", "p1"}}
      kept == Between(s, 0, IF starts = {} THEN limit ELSE Max(starts))
  IN IF head = Panic \/ kept = Panic THEN Panic ELSE kept

\* Mutant: the last sentence gathered stays whole.
Sentences_Uncut(t, limit) ==
  LET s == Gather(t, limit, 0, <<>>) IN IF s = Panic THEN Panic ELSE Trim(s)

Sentences(t, limit) ==
  LET gathered == Gather(t, limit, 0, <<>>)
      cut == IF gathered = Panic \/ Len(gathered) <= limit THEN gathered
             ELSE CutSentences(gathered, limit)
  IN IF cut = Panic THEN Panic ELSE Trim(cut)

(***************************************************************************)
(* smart_truncate: behind the last full stop or line within the limit, else *)
(* before the last white space, else at the limit; then three dots.         *)
(***************************************************************************)
SmartTruncate(t, limit) ==
  IF Len(t) <= limit THEN t
  ELSE LET stops == {i \in 1..limit : t[i] \in {".", "\n"}}
           spaces == {i \in 1..limit : t[i] \in White}
           cut == IF stops # {} THEN Max(stops)
                  ELSE IF spaces # {} THEN Max(spaces) - 1 ELSE limit
       IN IF Between(t, 0, limit) = Panic THEN Panic
          ELSE IF cut < Len(t) THEN SubSeq(t, 1, cut) \o Ellipsis ELSE SubSeq(t, 1, cut)

(***************************************************************************)
(* generate_abstract and generate_overview.                                 *)
(***************************************************************************)
EmptyDocument == <<"(", ")">>

GenerateAbstract(raw) ==
  LET t == Trim(raw)
      headings == Headings(t)
      paragraph == FirstParagraph(t)
      sentences == Sentences(t, MaxAbstract)
  IN IF t = <<>> THEN EmptyDocument
     ELSE IF headings # <<>> /\ Len(headings) >= Meaningful THEN SmartTruncate(headings, MaxAbstract)
     ELSE IF paragraph # <<>> /\ Len(paragraph) >= Meaningful THEN SmartTruncate(paragraph, MaxAbstract)
     ELSE IF sentences = Panic \/ sentences # <<>> THEN sentences
     ELSE SmartTruncate(t, MaxAbstract)

\* "1. ", "2. ", ...: one digit for up to nine abstracts.
Numbered(i, t) == <<ToString(i), ".", " ">> \o t

\* The running total is a little below the length that the join will have.
RECURSIVE Listed(_, _, _, _)

\* Mutant: the numbers and blank lines count twice.
Listed_Tight(texts, i, parts, total) ==
  IF i > Len(texts) THEN parts
  ELSE LET t == SmartTruncate(texts[i], MaxAbstract) IN
       IF t = Panic THEN Panic
       ELSE IF total + 2 * Len(Numbered(i, t)) > MaxOverview /\ parts # <<>> THEN parts
       ELSE Listed(texts, i + 1, Append(parts, Numbered(i, t)), total + Len(t) + 4)

Listed(texts, i, parts, total) ==
  IF i > Len(texts) THEN parts
  ELSE LET t == SmartTruncate(texts[i], MaxAbstract) IN
       IF t = Panic THEN Panic
       ELSE IF total + Len(Numbered(i, t)) + 2 > MaxOverview /\ parts # <<>> THEN parts
       ELSE Listed(texts, i + 1, Append(parts, Numbered(i, t)), total + Len(t) + 4)

GenerateOverview(texts) ==
  LET parts == Listed(texts, 1, <<>>, 0)
  IN IF texts = <<>> THEN EmptyDocument
     ELSE IF parts = Panic THEN Panic
     ELSE SmartTruncate(Join(parts, <<"\n", "\n">>), MaxOverview)
=============================================================================
