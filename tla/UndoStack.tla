------------------------------ MODULE UndoStack ------------------------------
(***************************************************************************)
(* What an undo history promises: a present, the states that led to it and *)
(* the states undone since.  At most Cap states are kept.                  *)
(***************************************************************************)
EXTENDS Naturals, Sequences

CONSTANTS State, Cap

VARIABLES past, present, future

Newest(s) == IF Len(s) < Cap THEN s ELSE SubSeq(s, Len(s) - Cap + 2, Len(s))

Init == past = <<>> /\ present \in State /\ future = <<>>

Do ==
  /\ present' \in State
  /\ past' = Newest(Append(past, present))
  /\ future' = <<>>

Undo ==
  /\ past # <<>>
  /\ present' = past[Len(past)]
  /\ past' = SubSeq(past, 1, Len(past) - 1)
  /\ future' = <<present>> \o future

Redo ==
  /\ future # <<>>
  /\ present' = Head(future)
  /\ past' = Append(past, present)
  /\ future' = Tail(future)

Reset == present' \in State /\ past' = <<>> /\ future' = <<>>

Next == Do \/ Undo \/ Redo \/ Reset

Spec == Init /\ [][Next]_<<past, present, future>>
=============================================================================
