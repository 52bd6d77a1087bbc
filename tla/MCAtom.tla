------------------------------- MODULE MCAtom -------------------------------
(* Small instances of Atom: numbers modulo Modulus, and swap! with inc for  *)
(* one goroutine and with doubling for the others.                          *)
EXTENDS Atom

CONSTANTS Modulus, Incrementer

Numbers == 0 .. Modulus - 1

Function(g, v) == IF g = Incrementer THEN (v + 1) % Modulus ELSE (2 * v) % Modulus
=============================================================================
