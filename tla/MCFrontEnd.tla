----------------------------- MODULE MCFrontEnd -----------------------------
(* All short files, and two long ones that fill every buffer. *)
EXTENDS FrontEnd

Kinds == {"atom", "open", "comment", "close", "bad", "odd"}
ShortAndLong ==
    UNION {[1 .. n -> Kinds] : n \in 0 .. 3}
    \cup {[i \in 1 .. 8 |-> IF i = 1 THEN "odd" ELSE "atom"],
          [i \in 1 .. 5 |-> "atom"]}
=============================================================================
