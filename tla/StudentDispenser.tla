-------------------------- MODULE StudentDispenser --------------------------
(***************************************************************************)
(* What the shared cursor of part2.c promises, with every hand-out atomic: *)
(* a TA that asks gets the student under the cursor, and the cursor moves  *)
(* to the next cell of the list, back to the first after the last.         *)
(***************************************************************************)
EXTENDS Integers, Sequences

CONSTANTS
  TAs,                \* who asks
  NUM_LINES,          \* lines of the list
  STUDENTS_PER_LINE,  \* students on a line
  target_students     \* how many students each TA asks for

VARIABLES
  cursor,             \* the cell <<line, position>> handed out next
  handed              \* per TA: the students it got, in order

dvars == <<cursor, handed>>

NextCell(cell) ==
  IF cell[2] + 1 < STUDENTS_PER_LINE
  THEN <<cell[1], cell[2] + 1>>
  ELSE <<(cell[1] + 1) % NUM_LINES, 0>>

Init ==
  /\ cursor = <<0, 0>>
  /\ handed = [t \in TAs |-> <<>>]

HandOut(t) ==
  /\ Len(handed[t]) < target_students
  /\ handed' = [handed EXCEPT ![t] = Append(@, cursor)]
  /\ cursor' = NextCell(cursor)

Next == \E t \in TAs : HandOut(t)

Spec == Init /\ [][Next]_dvars

=============================================================================
