-------------------------- MODULE MCMessageDelivery --------------------------
(* Two messages: copies of one envelope, requests for one business id with *)
(* different definitions, or unrelated messages of which one cannot be     *)
(* handled in one of the ways the consumers tell apart.                    *)
EXTENDS MessageDelivery, TLC

Plain == [id |-> "i1", kind |-> "envelope", scope |-> "own", mapped |-> "ok",
          digest |-> "any", input |-> "ok", target |-> "open"]

Seconds ==
  {Plain, [Plain EXCEPT !.digest = "d2"], [Plain EXCEPT !.id = "i2", !.kind = "event"],
   [Plain EXCEPT !.id = "i2", !.target = "gone", !.input = "rejected"],
   [Plain EXCEPT !.id = "i2", !.mapped = "bad_key", !.kind = "event"],
   [Plain EXCEPT !.id = "i2", !.mapped = "source", !.kind = "event"],
   [Plain EXCEPT !.id = "i2", !.kind = "garbage"],
   [Plain EXCEPT !.id = "i2", !.kind = "escapes"],
   [Plain EXCEPT !.id = "i2", !.target = "foreign"],
   [Plain EXCEPT !.id = "i2", !.scope = "foreign"]}

MCBodyChoices == {("m1" :> Plain) @@ ("m2" :> b) : b \in Seconds}

\* One of the first states that differ in nothing: the digests are interchangeable
\* while no message names one, a relay reads neither mappings nor digests, and only
\* a start finds its identity taken by another scope.
Representative ==
  /\ lane = "trigger" =>
       registry[Scope][Workflow].digest = "d1" \/ body["m2"].digest = "d2"
  /\ lane = "response" => /\ body["m2"].mapped = "ok" /\ body["m2"].digest = "any"
                          /\ body["m2"].target # "foreign"
                          /\ registry[Scope][Workflow].digest = "d1"

MCInit == Init /\ Representative
MCSpec == MCInit /\ [][Next]_vars /\ Fairness
=============================================================================
