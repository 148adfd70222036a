-------------------------------- MODULE MCSteps --------------------------------
(* Workflows of two and three steps for TLC. *)
EXTENDS StepProperties

ABC == <<"a", "b", "c">>
Deps3(x, y, z) == [a |-> x, b |-> y, c |-> z]

\* Shapes: a chain, the same listed backwards, a fork and a join.
Shapes == { Deps3(<<>>, <<"a">>, <<"b">>),
            Deps3(<<"b">>, <<"c">>, <<>>),
            Deps3(<<>>, <<"a">>, <<"a">>),
            Deps3(<<>>, <<>>, <<"a", "b">>) }

\* All the dependencies three steps can have that no order satisfies.
AsDeps(S) == SelectSeq(ABC, LAMBDA s : s \in S)
Cyclic == {deps \in {[s \in Elements(ABC) |-> AsDeps(f[s])] :
                       f \in [Elements(ABC) -> SUBSET Elements(ABC)]} :
             ~Acyclic(Elements(ABC), deps)}

ThreeSteps == [listing : {ABC}, deps : Shapes \cup Cyclic,
               retry : {[a |-> 0, b |-> 0, c |-> 0]}]

\* Two steps: one behind the other, a depends_on that names a step twice, or one
\* that names no step.
TwoSteps == [listing : {<<"a", "b">>},
             deps : {[a |-> <<>>, b |-> <<"a">>], [a |-> <<>>, b |-> <<"a", "a">>],
                     [a |-> <<>>, b |-> <<"a", "d">>]},
             retry : {[a |-> 1, b |-> 1]}]

\* The plainest dependency, for the run about retries.
OnePair == [listing : {<<"a", "b">>}, deps : {[a |-> <<>>, b |-> <<"a">>]},
            retry : {[a |-> 1, b |-> 1]}]

SomeWorkflows == TwoSteps \cup ThreeSteps
===============================================================================
