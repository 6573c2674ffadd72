------------------------------ MODULE MCReview ------------------------------
(* Small instances of Review for TLC. *)
EXTENDS Review

CONSTANTS t1, t2

\* Two instances in one: the window, two programs for passes over two rows,
\* and commands beside it, without a tray; or the tray and its menu, silent
\* clients and one program that is blocked again and again.
Small == IF tray = "absent" THEN ~Queued("stuck")'
         ELSE /\ window' = "closed" /\ ~Queued("cli")'
              /\ t2 \notin map'

MCSpec == ReviewInit /\ [][ReviewNext /\ Small]_allVars /\ ReviewFairness
=============================================================================
