--------------------------- MODULE MCRecruitment ----------------------------
(* Small instances of Recruitment for TLC. *)
EXTENDS Recruitment, TLC

CONSTANTS e1, e2, u1, u2

\* Morning, afternoon and a whole day, and one more day.
Slot(date, start, end, headcount) ==
    [date |-> date, start |-> start, end |-> end, headcount |-> headcount]
TwoDays == {Slot(1, 1, 2, 1), Slot(1, 1, 3, 2), Slot(2, 3, 4, 1)}

\* Two candidates of one event; or one usher whom both events want.
Pairs == {[e \in {e1} |-> {u1, u2}], [e \in {e1, e2} |-> {u1}]}
=============================================================================
