------------------------------ MODULE MCDeploy ------------------------------
(* Fleet a with fleet a-b, whose units a's prefix matches too, and with    *)
(* fleet c, next to two concurrent updates.                                *)
EXTENDS Deploy, TLC

CONSTANTS build1, build2, broken, stray, u1, u2

A == <<"a">>
AB == <<"a", "b">>
C == <<"c">>

Loop(name, mode, schedule, on) == [name |-> name, mode |-> mode, schedule |-> schedule, on |-> on]
X == <<"x">>
BX == <<"b", "x">>

Quarter == Loop(X, "oneshot", <<"every", 900>>, FALSE)
Odd == Loop(X, "oneshot", <<"every", 420>>, FALSE)
Daemon == Loop(X, "daemon", None, FALSE)
Listens == Loop(BX, "oneshot", None, TRUE)
Broken == Loop(BX, "oneshot", Bad, FALSE)

MCFleets == {A, AB, C}
MCYamls == [f \in MCFleets |->
  CASE f = A -> {<<Quarter, Listens>>, <<Daemon>>, <<Quarter, Broken>>}
    [] f = AB -> {<<Quarter>>}
    [] f = C -> {<<Odd>>}]

\* The minutes of the day at which systemd elapses a trigger: a gap that
\* divides the hour or the day leaves no shorter one at its end.
Elapses(t) ==
  IF t[1] = "minutes" THEN {60 * h + m : h \in 0..23, m \in {m \in 0..59 : m % t[2] = 0}}
                      ELSE {60 * h : h \in {h \in 0..23 : h % t[2] = 0}}

ASSUME GapsAreEven ==
  \A t \in ({"minutes"} \X (1..30)) \cup ({"hours"} \X (1..24)) :
    Gap(t) \in EvenGaps <=> Elapses(t) = {Gap(t) * k : k \in 0..((1439) \div Gap(t))}
                            /\ 1440 % Gap(t) = 0
=============================================================================
