------------------------------ MODULE Summaries ------------------------------
(***************************************************************************)
(* Every list of texts that can be put together from a few pieces, and what *)
(* HeuristicSummary makes of it.  A state is a list; the last text grows.   *)
(***************************************************************************)
EXTENDS HeuristicSummary

CONSTANTS
  Piece,        \* what texts are made of
  MaxPieces     \* bound on the pieces of all texts together

VARIABLES
  texts,
  pieces

vars == <<texts, pieces>>

Init == texts = <<>> /\ pieces = 0

Grow ==
  /\ texts # <<>> /\ pieces < MaxPieces
  /\ \E p \in Piece : texts' = [texts EXCEPT ![Len(texts)] = @ \o p]
  /\ pieces' = pieces + 1

Begin ==
  /\ pieces < MaxPieces
  /\ \E p \in Piece : texts' = Append(texts, p)
  /\ pieces' = pieces + 1

Next == Grow \/ Begin

Spec == Init /\ [][Next]_vars

(***************************************************************************)
(* Properties.                                                              *)
(***************************************************************************)
Narrow(t) == Range(t) \cap {"w1", "p1"} = {}

Ink(t) == SelectSeq(t, LAMBDA b : b \notin White)

Latest == Last(texts)

\* Sentences and cut texts keep to their limit, the latter up to the three
\* dots, and so does the overview although its running total is not the
\* length of what it joins; and texts of one-byte characters always have an
\* abstract and an overview, for no position the code computes lies outside
\* its text (heuristic_summary.rs 105-200, 244-313).
WithinLimits ==
  texts # <<>> =>
    LET s == Sentences(Trim(Latest), MaxAbstract)
        a == GenerateAbstract(Latest)
        o == GenerateOverview(texts)
    IN
    /\ s # Panic => Len(s) <= MaxAbstract
    /\ a # Panic => Len(a) <= MaxAbstract + 3
    /\ o # Panic => Len(o) <= MaxOverview + 3
    /\ (\A i \in DOMAIN texts : Narrow(texts[i])) => Panic \notin {a, o}

\* The sentences are the beginning of the text, nothing skipped and nothing
\* twice, up to white space (heuristic_summary.rs 111-161).
SentencesAreABeginning ==
  texts # <<>> =>
    LET s == Sentences(Trim(Latest), MaxAbstract)
    IN s # Panic => IsPrefix(Ink(s), Ink(Latest))

\* The overview leaves a text out only when there is no room for all of them
\* (heuristic_summary.rs 286-304).
ListsWhatFits ==
  LET whole == Join([i \in DOMAIN texts |-> Numbered(i, texts[i])], <<"\n", "\n">>)
  IN (/\ texts # <<>> /\ \A i \in DOMAIN texts : Len(texts[i]) <= MaxAbstract
      /\ Len(whole) + 3 <= MaxOverview) => GenerateOverview(texts) = whole
=============================================================================
