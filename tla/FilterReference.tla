--------------------------- MODULE FilterReference ---------------------------
(***************************************************************************)
(* What the text of the label filter promises, over small texts and sets   *)
(* of labels: TLC evaluates the assumptions before it checks a module that *)
(* extends this one. PageProofs proves the first one for all labels.       *)
(***************************************************************************)
EXTENDS Table

CONSTANTS FilterSize  \* the texts compared have up to this many words and marks

Texts(n) == UNION {[1..k -> {"a", "b", "comma", "equals", "colon", "blank"}] : k \in 0..n}

Labelled == [labels : UNION {[keys -> {<<>>, <<"a">>, <<"b">>}] :
                              keys \in SUBSET {<<"a">>, <<"b">>}}]

\* A suggested text (resourceFilters.ts:12-23) selects the objects that have the
\* label it was taken from, and with the value it names, if it names one: no way
\* of writing it is taken for another key or value (resourceFilters.ts:74-92).
ASSUME SuggestionsSelect ==
  \A o, p \in Labelled : \A k \in DOMAIN o.labels : \A text \in Suggested(k, o.labels[k]) :
    LabelsMatch(p, text) <=>
      /\ k \in DOMAIN p.labels
      /\ text = k \/ o.labels[k] = <<>> \/ p.labels[k] = o.labels[k]

\* A comma between two texts asks for both, wherever blanks are added, and a text
\* of blanks and commas asks for nothing (resourceFilters.ts:75-77).
ASSUME CommaJoins ==
  \A o \in Labelled : \A s, t \in Texts(FilterSize) :
    LET Both == LabelsMatch(o, s) /\ LabelsMatch(o, t)
        Padded(text) == <<"blank">> \o text \o <<"blank">>
    IN  /\ LabelsMatch(o, s \o <<"comma">> \o t) <=> Both
        /\ LabelsMatch(o, Padded(s) \o <<"comma">> \o Padded(t)) <=> Both
        /\ (\A i \in DOMAIN s : s[i] \in {"comma", "blank"}) => LabelsMatch(o, s)
=============================================================================
