----------------------------- MODULE BufferOrder -----------------------------
(* The order of the buffer chain as a sequence, first to be re-used first:   *)
(* what BF_END, BF_START and the invalidating loop of buf.mac do to it.      *)
EXTENDS Sequences, Naturals, FiniteSets

Place(ch, b) == CHOOSE i \in DOMAIN ch : ch[i] = b

\* What was behind b moves up, and b goes last.
MoveToEnd(ch, b) ==
    [i \in DOMAIN ch |-> IF i < Place(ch, b) THEN ch[i]
                         ELSE IF i + 1 \in DOMAIN ch THEN ch[i + 1] ELSE b]

\* What was before b moves back, and b goes first.
MoveToStart(ch, b) ==
    [i \in DOMAIN ch |-> IF i = 1 THEN b
                         ELSE IF i <= Place(ch, b) THEN ch[i - 1] ELSE ch[i]]

\* Buffers taken one by one from the start of the chain and each put first: at
\* the end those of S come before the others, the last of them first.
NotAfter(ch, S, i, j) == IF ch[i] \in S THEN ch[j] \in S => i >= j
                                        ELSE ch[j] \notin S /\ i <= j

NewPlace(ch, S, j) == Cardinality({i \in DOMAIN ch : NotAfter(ch, S, i, j)})

AllToStart(ch, S) ==
    [k \in DOMAIN ch |-> ch[CHOOSE j \in DOMAIN ch : NewPlace(ch, S, j) = k]]

=============================================================================
