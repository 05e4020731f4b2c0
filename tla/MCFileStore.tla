------------------------------ MODULE MCFileStore ------------------------------
(* A small instance of FileStore: the console makes two calls, the
   agent one, and both processes are pid 1 of their container.              *)
EXTENDS FileStore, TLC

CONSTANTS console, agent, edit, fill, seed

TwoPods == {console, agent}
ThreeCalls == {edit, fill, seed}


MadeIn3 == [c \in ThreeCalls |-> IF c = seed THEN agent ELSE console]
SamePid == [p \in TwoPods |-> 1]
================================================================================
