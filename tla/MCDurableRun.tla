---------------------------- MODULE MCDurableRun ----------------------------
(***************************************************************************)
(* Instances of DurableRun for TLC: user functions of three or four steps, *)
(* of which w is a wait.                                                   *)
(***************************************************************************)
EXTENDS DurableRun

CONSTANTS a, b, c, w, d, e    \* model values: four steps and two defers

MCSteps == {a, b, c, w}
MCWaits == {w}
MCDefers == {d}

\* a(); defer d; b(); c(); sleep w; return
SequentialCalls == (a :> {{}}) @@ (d :> {{a}}) @@ (b :> {{a}}) @@ (c :> {{b}}) @@ (w :> {{c}})
SequentialReturn == {{w}}

\* a(); defer d; race of b() and waiting for w; defer e; c(); return
TwoDefers == {d, e}
RaceCalls == (a :> {{}}) @@ (d :> {{a}}) @@ (b :> {{a}}) @@ (w :> {{a}}) @@ (e :> {{b}, {w}}) @@ (c :> {{b}, {w}})
RaceReturn == {{c}}

\* a(); start b(), c() and the wait w; defer d after b or c; return after all of them
ConcurrentCalls ==
  (a :> {{}}) @@ (b :> {{a}}) @@ (c :> {{a}}) @@ (w :> {{a}}) @@ (d :> {{b}, {c}})
ConcurrentReturn == {{b, c, w}}

\* a(); b() is not awaited; return
TwoSteps == {a, b}
DanglingCalls == (a :> {{}}) @@ (b :> {{a}}) @@ (d :> {{a}})
DanglingReturn == {{a}}

=============================================================================
