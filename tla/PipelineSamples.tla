--------------------------- MODULE PipelineSamples ---------------------------
(* Pipelines to run: three activities of their own, the middle one a container *)
(* of two others, over a choice of conditions, marks, loops and retries.       *)
EXTENDS Integers, TLC

CONSTANTS first, box, last, inner, handler

Act == {first, box, last, inner, handler}

On(a, when) == [on |-> a, when |-> when]

\* What the container and the last activity wait for: nothing, a success, a
\* failure, two activities, themselves in a circle, a name of another list.
BoxDeps == {{}, {On(first, {})}, {On(first, {"Failed", "Skipped"})}, {On(last, {})}}
LastDeps ==
  {{On(box, {"Failed"})}, {On(first, {"Completed"}), On(box, {})}, {On(inner, {})}}

Kinds == {"Leaf", "Branch", "ForEach", "Until"}

\* `again' may be tried twice.
Pipeline(kind, boxDeps, lastDeps, mark, again) ==
  [kind   |-> [a \in Act |-> IF a = box THEN kind ELSE "Leaf"],
   top    |-> <<last, box, first>>,
   bodies |-> [a \in Act |-> IF a # box THEN {}
                             ELSE IF kind = "Branch" THEN {<<inner, handler>>, <<>>}
                             ELSE {<<handler, inner>>}],
   deps   |-> (first :> {} @@ inner :> {} @@ handler :> {On(inner, {"Failed"})}
               @@ box :> boxDeps @@ last :> lastDeps),
   mark   |-> [a \in Act |-> IF a = first THEN mark ELSE "active"],
   retry  |-> [a \in Act |-> IF a = again THEN 1 ELSE 0],
   timed  |-> [a \in Act |-> a = box]]

Samples ==
  {Pipeline(kind, b, l, mark, again) :
     kind \in Kinds, b \in BoxDeps, l \in LastDeps, mark \in {"active", "Failed"}, again \in {inner, box}}

\* Every kind once, with and without a circle, and the retry at the container.
EndingSamples ==
  {Pipeline(kind, b, {On(first, {"Completed"}), On(box, {})}, "active", box) :
     kind \in Kinds, b \in {{On(first, {})}, {On(last, {})}}}
=============================================================================
