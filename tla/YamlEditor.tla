------------------------------ MODULE YamlEditor ------------------------------
(***************************************************************************)
(* The YAML tab of the drawer (YamlEditor.tsx): an editor that is kept     *)
(* while its object changes, and follows it by the smallest change of the  *)
(* text, so that the user keeps the scroll position and the folds.         *)
(*                                                                         *)
(* The text is that of a deferred value: React draws the page first, with  *)
(* the old text, and renders the new one when there is time. That render   *)
(* writes pendingContentRef although it may be given up before it is       *)
(* committed. Only a committed text asks for a frame; the frame takes what *)
(* is pending when it runs.                                                *)
(*                                                                         *)
(* The module has the pure functions and the editor's steps on a record;   *)
(* Details has the page that drives them. A text is named by the version   *)
(* of its object: two versions differ in metadata.resourceVersion, or in   *)
(* the revision and the status of a Helm release.                          *)
(***************************************************************************)
EXTENDS Naturals, Sequences

-----------------------------------------------------------------------------
(* The fold of metadata.managedFields. A line has its indentation, and its *)
(* text as far as it matters: "metadata:", "managedFields:", "" or another.*)

Outside == <<>>  \* metadataIndentation is null
Fresh == <<0>>    \* in metadata, and metadataChildIndentation is null

\* Where the scan is after each line: in metadata it knows the indentation
\* of its children. The line that ends metadata is not looked at again.
Scan(doc) ==
  LET scan[n \in 0..Len(doc)] ==
        IF n = 0 THEN Outside
        ELSE LET line == doc[n]
                 before == scan[n - 1]
             IN  CASE line.text = "" -> before
                   [] line.text # "" /\ before = Outside ->
                        IF line = [indent |-> 0, text |-> "metadata:"] THEN Fresh ELSE Outside
                   [] line.text # "" /\ before # Outside /\ line.indent = 0 -> Outside
                   [] line.text # "" /\ before # Outside /\ line.indent > 0 ->
                        IF before = Fresh THEN <<line.indent>> ELSE before
  IN  scan

IsManagedFields(doc, n) ==
  /\ doc[n].text = "managedFields:"
  /\ Scan(doc)[n] = <<doc[n].indent>>

EndsBlock(doc, n, m) == doc[m].text # "" /\ doc[m].indent <= doc[n].indent

\* The fold goes from the end of one line to the end of another, or there is
\* none. Blank lines in front of the next key are folded with the block.
NoFold == <<>>
ManagedFieldsFoldRange(doc) ==
  LET found == {n \in 1..Len(doc) : IsManagedFields(doc, n)}
  IN  IF found = {} THEN NoFold
      ELSE LET n == CHOOSE n \in found : \A other \in found : n <= other
               ends == {m \in n + 1..Len(doc) : EndsBlock(doc, n, m)}
               to == IF ends = {} THEN Len(doc)
                     ELSE (CHOOSE m \in ends : \A other \in ends : m <= other) - 1
           IN  IF to > n THEN <<n, to>> ELSE NoFold

-----------------------------------------------------------------------------
(* The change that turns one text into another, texts being sequences.     *)

Shorter(p, q) == IF Len(p) <= Len(q) THEN Len(p) ELSE Len(q)

\* Where the loop over equal characters stops, from the front; and from the
\* back, where it may not pass the characters counted from the front.
CommonFront(p, q) ==
  CHOOSE k \in 0..Shorter(p, q) :
    /\ \A i \in 1..k : p[i] = q[i]
    /\ k < Shorter(p, q) => p[k + 1] # q[k + 1]

CommonBack(p, q, front) ==
  CHOOSE k \in 0..Shorter(p, q) - front :
    /\ \A i \in 0..k - 1 : p[Len(p) - i] = q[Len(q) - i]
    /\ k < Shorter(p, q) - front => p[Len(p) - k] # q[Len(q) - k]

DocumentChange(previous, next) ==
  LET front == CommonFront(previous, next)
      back == CommonBack(previous, next, front)
  IN  [from |-> front, to |-> Len(previous) - back,
       insert |-> SubSeq(next, front + 1, Len(next) - back)]

\* What the editor makes of a change: the characters from+1 to "to" go.
Splice(doc, change) ==
  SubSeq(doc, 1, change.from) \o change.insert \o SubSeq(doc, change.to + 1, Len(doc))

-----------------------------------------------------------------------------
(* The editor. It is mounted with the tab, an instance for each object.    *)

NoEditor == [mounted |-> FALSE]

Mounted(key, text) ==
  [mounted |-> TRUE, key |-> key, content |-> text, pending |-> text,
   applied |-> text, frame |-> FALSE]

\* The effect of a commit whose text is new.
AskFrame(e) == IF e.applied # e.content THEN [e EXCEPT !.frame = TRUE] ELSE e

\* Drawn with the rest of the page: the deferred value is still the old one.
Redrawn(e) == [e EXCEPT !.pending = e.content]

\* The render of the deferred value, and the commit of what it rendered.
Rendered(e, text) == [e EXCEPT !.pending = text]
Committed(e, text) == AskFrame([e EXCEPT !.content = text])

\* The frame: it runs with the text that is pending then.
BugFrameRuns(e) == [e EXCEPT !.applied = @]
FrameRuns(e) == [e EXCEPT !.frame = FALSE, !.applied = e.pending]
=============================================================================
