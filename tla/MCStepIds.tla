----------------------------- MODULE MCStepIds ------------------------------
(***************************************************************************)
(* An instance of StepIds for TLC: two parallel chains whose first steps  *)
(* share an id, and their second steps another; a sleep that a middleware  *)
(* gives the id of the first steps; a step another middleware makes before *)
(* one of them; and an id that looks like one with an index.               *)
(***************************************************************************)
EXTENDS StepIds, TLC

CONSTANTS x, y, p, s1, s2, w, c, d,     \* model values: calls
          idX, idP, idS, idW            \* model values: names

\* await Promise.all([x().then(s1), y().then(s2), sleep w]); c(); d()
MCProgram == <<x, y, w, s1, s2, c, d, p>>
MCCallAfter == (x :> {{}}) @@ (y :> {{}}) @@ (w :> {{}}) @@ (s1 :> {{x}}) @@ (s2 :> {{y}})
                 @@ (c :> {{s1, s2, w}}) @@ (d :> {{c}}) @@ (p :> {})
MCId == (x :> <<idX>>) @@ (y :> <<idX>>) @@ (w :> <<idW>>) @@ (s1 :> <<idS>>) @@ (s2 :> <<idS>>)
          @@ (c :> <<idS, 2>>) @@ (d :> <<idS>>) @@ (p :> <<idP>>)
\* A middleware gives w the id of x; another makes p before y.
MCRenamed == (w :> <<idX>>) @@ MCId
MCPrepended == (y :> p) @@ [k \in Calls |-> NoCall]
=============================================================================
