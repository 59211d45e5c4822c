------------------------------ MODULE FrameLine ------------------------------
(* What the line from the meter promises its user: frames are passed on      *)
(* whole, in the order in which they were sent, each at most once.  A frame  *)
(* may be dropped.  Only when bytes were lost may something else be passed.  *)
EXTENDS Naturals, Sequences

VARIABLES complete,  \* how many frames have been sent to their end
          lost,      \* whether bytes were lost
          passed     \* the numbers of the frames passed on, 0 for anything else

vars == <<complete, lost, passed>>

Init == complete = 0 /\ lost = FALSE /\ passed = <<>>

Send == /\ complete' = complete + 1
        /\ UNCHANGED <<lost, passed>>

Lose == /\ lost' = TRUE
        /\ UNCHANGED <<complete, passed>>

Latest == IF passed = <<>> THEN 0 ELSE passed[Len(passed)]

Pass == /\ \E f \in (Latest + 1)..complete : passed' = Append(passed, f)
        /\ UNCHANGED <<complete, lost>>

\* What is put together from the two sides of a loss.
Garble == /\ lost
          /\ \E f \in 0..complete : passed' = Append(passed, f)
          /\ UNCHANGED <<complete, lost>>

Next == Send \/ Lose \/ Pass \/ Garble

Spec == Init /\ [][Next]_vars
=============================================================================
