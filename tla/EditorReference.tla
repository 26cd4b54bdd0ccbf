--------------------------- MODULE EditorReference ---------------------------
(***************************************************************************)
(* What the pure functions of YamlEditor promise, over all small texts:    *)
(* TLC evaluates the assumptions before it checks a module that extends    *)
(* this one. DetailsProofs proves the second one for all texts.            *)
(***************************************************************************)
EXTENDS YamlEditor

CONSTANTS DocLines,  \* the texts compared have up to this many lines
          TextSize   \* and up to this many characters

SeqsUpTo(S, n) == UNION {[1..k -> S] : k \in 0..n}

Line(indent, text) == [indent |-> indent, text |-> text]
Lines == {Line(0, ""), Line(0, "metadata:"), Line(0, "x"), Line(2, "managedFields:"),
          Line(2, "x"), Line(4, "managedFields:"), Line(4, "x")}

Documents == {doc \in SeqsUpTo(Lines, DocLines) :
                \A n, m \in DOMAIN doc :
                  doc[n].text = "metadata:" /\ doc[m].text = "metadata:" => n = m}

Written(doc, lines) == {i \in lines : doc[i].text # ""}

\* Line n is a key of the mapping at top level that "metadata:" in line m begins:
\* indented like the first line of that mapping, and nothing ends it before.
ChildOfMetadata(doc, n) ==
  \E m \in 1..n - 1 :
    LET block == Written(doc, m + 1..n)
    IN  /\ doc[m] = Line(0, "metadata:")
        /\ \A i \in block : doc[i].indent > 0
        /\ \E first \in block : /\ \A i \in block : first <= i
                                /\ doc[first].indent = doc[n].indent

\* The fold is the block below the first such managedFields, all of it.
IsFold(doc, n, m) ==
  /\ n < m /\ m <= Len(doc)
  /\ doc[n].text = "managedFields:" /\ ChildOfMetadata(doc, n)
  /\ \A i \in 1..n - 1 : ~(doc[i].text = "managedFields:" /\ ChildOfMetadata(doc, i))
  /\ \A i \in Written(doc, n + 1..m) : doc[i].indent > doc[n].indent
  /\ m = Len(doc) \/ (doc[m + 1].text # "" /\ doc[m + 1].indent <= doc[n].indent)

\* managedFieldsFoldRange (YamlEditor.tsx:20-54) finds the block of
\* metadata.managedFields whenever it has a line, and folds nothing else.
ASSUME FoldFindsManagedFields ==
  \A doc \in Documents :
    LET fold == ManagedFieldsFoldRange(doc)
    IN  IF fold = NoFold THEN \A n, m \in DOMAIN doc : ~IsFold(doc, n, m)
        ELSE IsFold(doc, fold[1], fold[2])

\* Applying documentChange (YamlEditor.tsx:56-68) to the old text gives the new
\* one, and what is replaced begins and ends with a difference.
ASSUME ChangeGivesNext ==
  \A p, q \in SeqsUpTo({"a", "b"}, TextSize) :
    LET c == DocumentChange(p, q)
    IN  /\ Splice(p, c) = q
        /\ c.from < c.to /\ c.insert # <<>> =>
             /\ p[c.from + 1] # c.insert[1]
             /\ p[c.to] # c.insert[Len(c.insert)]
        /\ p = q <=> c.from = c.to /\ c.insert = <<>>
=============================================================================
