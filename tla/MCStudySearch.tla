---------------------------- MODULE MCStudySearch ----------------------------
(* StudySearch with three points, four values and small budgets. *)
EXTENDS StudySearch

\* Budgets that end before, within and after the beams of two iterations.
MCOptions ==
  [max_solves : {0, 1, 3, 4, 5}, beam_width : {1, 2}, max_iterations : {0, 2},
   min_improvement : {0, 1}]

==============================================================================
