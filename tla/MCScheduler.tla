----------------------------- MODULE MCScheduler -----------------------------
(* Instances of Scheduler.tla for TLC. *)
EXTENDS Scheduler, TLC

CONSTANTS a1, a2, b1, b2, c1, c2, ka, kb, kc

MCKey == {ka, kb, kc}
MCRequest == {a1, a2, b1, b2, c1, c2}
MCKeyOf == a1 :> ka @@ a2 :> ka @@ b1 :> kb @@ b2 :> kb @@ c1 :> kc @@ c2 :> kc

\* Key a may run one request at a time, b and c as many as there are slots.
MCLimitsOf == ka :> {1} @@ kb :> {NoLimit} @@ kc :> {NoLimit}

\* Four clients, for the temporal properties: one is served, two fill the queue
\* and the fourth is refused.
LiveRequest == {a1, a2, b1, b2}
LiveKeyOf == [r \in LiveRequest |-> MCKeyOf[r]]
LiveKey == {ka, kb}
LiveLimitsOf == [k \in LiveKey |-> MCLimitsOf[k]]

\* An admin edits key a between requests: it allows one at a time, then two.
\* b's and c's requests make room for a third one of a.
EditedRequest == {a1, a2, b1, b2, c1}
EditedKeyOf == a1 :> ka @@ a2 :> ka @@ b1 :> ka @@ b2 :> kb @@ c1 :> kc
EditedLimitsOf == ka :> {1, 2} @@ kb :> {NoLimit} @@ kc :> {NoLimit}
=============================================================================
