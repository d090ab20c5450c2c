------------------------------ MODULE BytePipe ------------------------------
(***************************************************************************)
(* What the reader of a connection may count on: the bytes the server sent *)
(* are handed out once and in order.  A call that fails may take bytes     *)
(* with it that nobody gets.                                               *)
(***************************************************************************)
EXTENDS Naturals

CONSTANT None     \* no answer yet

VARIABLES length,  \* bytes the server sends
          taken,   \* bytes that are accounted for
          answer   \* the last answer: the bytes from + 1 to to, or a failure

Bytes(a, b) == [ok |-> TRUE, from |-> a, to |-> b]
Failed(a, b) == [ok |-> FALSE, from |-> a, to |-> b]

Init == length \in Nat /\ taken = 0 /\ answer = None

\* The bytes from the first one not handed out.
Give == \E n \in taken..length : taken' = n /\ answer' = Bytes(taken, n)

\* A call fails.
Lose == \E n \in taken..length : taken' = n /\ answer' = Failed(taken, n)

\* A new call is made.
Ask == answer' = None /\ UNCHANGED taken

Next == (Give \/ Lose \/ Ask) /\ UNCHANGED length

Spec == Init /\ [][Next]_<<length, taken, answer>>
=============================================================================
