-------------------------- MODULE UpdateArithmetic --------------------------
(***************************************************************************)
(* The pure time arithmetic of a package: how many buffered stamps a cut   *)
(* takes, and how much time ImuProcess::UndistortPcl integrates over.      *)
(***************************************************************************)
EXTENDS Integers, Sequences, FiniteSets, Functions

\* while (!s.empty()) { if (s.front() > t) break; s.pop_front(); } pops the
\* longest prefix whose stamps are all at most t.
UpTo(s, t) == Cardinality({i \in 1..Len(s) : \A j \in 1..i : s[j] <= t})

PropStep_NoTail(v, i, beg, end) ==
  IF v[i + 1] < beg THEN 0
  ELSE IF v[i] < beg THEN v[i + 1] - beg
  ELSE v[i + 1] - v[i]

\* dt of step i of the propagation loop over v = last_imu, then the package.
PropStep(v, i, beg, end) ==
  IF v[i + 1] < beg THEN 0
  ELSE IF v[i] < beg THEN v[i + 1] - beg
  ELSE IF i # Len(v) - 1 THEN v[i + 1] - v[i]
  ELSE end - v[i]

\* dt_all: the time the loop integrates over in one package.
Propagated(v, beg, end) ==
  SumFunction([i \in 1..(Len(v) - 1) |-> PropStep(v, i, beg, end)])
=============================================================================
