----------------------------- MODULE MCTailFollow -----------------------------
(* Instances of TailFollow. *)
EXTENDS TailFollow

MCOptions ==
  LET Command(F, style, local) == [F |-> F, style |-> style, off |-> 1, local |-> local]
  IN {Command(TRUE, "RLINES", TRUE), Command(TRUE, "RBYTES", FALSE),
      Command(FALSE, "FBYTES", TRUE), Command(FALSE, "FLINES", FALSE)}

MCScenarios ==
  LET Nothing == [append |-> 0, truncate |-> 0, move |-> 0, unlink |-> 0, create |-> 0, fail |-> 0]
  IN {[Nothing EXCEPT !.append = 3, !.truncate = 1],
      [Nothing EXCEPT !.append = 2, !.move = 1, !.create = 1],
      [Nothing EXCEPT !.append = 1, !.unlink = 1, !.create = 1],
      [Nothing EXCEPT !.append = 1, !.unlink = 1, !.fail = 1]}
=============================================================================
