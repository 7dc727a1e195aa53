--------------------------- MODULE MCIdempotency ----------------------------
(***************************************************************************)
(* Instances of the keyed writes for TLC.                                  *)
(***************************************************************************)
EXTENDS Idempotency

Capture == "POST /v1/holds/h/capture"
ReleaseHold == "POST /v1/holds/h/release"
Req(route, key, body) == [route |-> route, key |-> key, body |-> body]

\* A client that captures a hold, whose retry may overlap its first attempt, and
\* one that reuses its key and its body on another route, to release that hold.
MCRequest ==
    [c \in {"ana", "bo"} |->
        IF c = "ana" THEN Req(Capture, "k", "x") ELSE Req(ReleaseHold, "k", "x")]
MCTakes ==
    [c \in {"ana", "bo"} |-> IF c = "ana" THEN {"hold h", "ref x"} ELSE {"hold h"}]
MCAttempts == {<<"ana", 1>>, <<"ana", 2>>, <<"bo", 1>>}
MCThings == {"hold h", "ref x"}
=============================================================================
