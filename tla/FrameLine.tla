----------------------------- MODULE FrameLine ------------------------------
(* What the frame pipeline promises, with no semaphores and no threads: a    *)
(* line of numbered frames, of which at most Depth wait or are drawn at a    *)
(* time.  A frame joins the line once, as the newest; it leaves it at the    *)
(* head, to be drawn.  A drawn frame is done for good, or kept to be drawn   *)
(* again: then it goes back to a line that is empty, or it is given up.      *)
EXTENDS Naturals, Sequences, FiniteSets

CONSTANT Depth

VARIABLES line,      \* the frames that wait
          drawing,   \* those that are drawn
          kept,      \* those drawn, to be drawn again
          newest     \* the number of the newest frame

lineVars == <<line, drawing, kept, newest>>

LineInit == line = <<>> /\ drawing = {} /\ kept = {} /\ newest = 0

HasPlace == Len(line) + Cardinality(drawing) < Depth

Submit ==
  /\ HasPlace
  /\ newest' = newest + 1
  /\ line' = Append(line, newest')
  /\ UNCHANGED <<drawing, kept>>

Draw ==
  /\ line # <<>> /\ Head(line) \notin drawing \cup kept
  /\ drawing' = drawing \cup {Head(line)}
  /\ line' = Tail(line)
  /\ UNCHANGED <<kept, newest>>

Finish(f) ==
  /\ drawing' = drawing \ {f}
  /\ UNCHANGED <<line, kept, newest>>

Keep(f) ==
  /\ drawing' = drawing \ {f} /\ kept' = kept \cup {f}
  /\ UNCHANGED <<line, newest>>

GiveUp(f) ==
  /\ kept' = kept \ {f}
  /\ UNCHANGED <<line, drawing, newest>>

Redraw(f) ==
  /\ line = <<>> /\ HasPlace
  /\ kept' = kept \ {f} /\ line' = <<f>>
  /\ UNCHANGED <<drawing, newest>>

LineNext ==
  \/ Submit \/ Draw
  \/ \E f \in drawing : Finish(f) \/ Keep(f)
  \/ \E f \in kept : GiveUp(f) \/ Redraw(f)

LineSpec == LineInit /\ [][LineNext]_lineVars
=============================================================================
