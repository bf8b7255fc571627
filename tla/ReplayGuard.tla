---------------------------- MODULE ReplayGuard ----------------------------
(***************************************************************************)
(* A relying party whose workers share one record of the receipts acted on *)
(* (VerifyInput.Replay). Verify only asks the record; the worker that acts *)
(* on a receipt records it afterwards, so other verifications of the same  *)
(* receipt run between the question, the act and the entry. A worker may   *)
(* crash at any point and forgets what it was doing; the record survives.  *)
(*                                                                         *)
(* The checks of Verify other than the three modelled here only refuse     *)
(* more. The workers and their record are the caller's code: external.     *)
(***************************************************************************)
EXTENDS Envelopes, FiniteSets

CONSTANTS Anchors,      \* the verifier's trust anchor set
          Presentable,  \* the envelopes that may be presented, as often as liked
          Workers,
          MaxCrashes

ASSUME ReplayGuardAssumption == IsFiniteSet(Workers) /\ MaxCrashes \in Nat

VARIABLES seen,      \* the record: digests of receipts acted on
          doing,     \* per worker: "nothing", "checked" or "acted"
          envelope,  \* per worker: the last envelope presented to it
          answer,    \* per worker: what replay_receipt_unseen last said
          acts,      \* how often each receipt was acted on
          crashes

vars == <<seen, doing, envelope, answer, acts, crashes>>

\* Mutant of ReplayKey: the record is kept per artifact, not per receipt.
ReplayKeyOfArtifact(env) == Digest([artifact_id |-> env.payload.artifact_id])

\* Mutant of ReplayKey: the record is kept per envelope.
ReplayKeyOfEnvelope(env) == Digest(env)

\* What the record is asked for: the digest of the payload, not the envelope.
ReplayKey(env) == Digest(env.payload)

Keys == {Digest(env.payload) : env \in Presentable}

Seen(env) == ReplayKey(env) \in seen

Init ==
    /\ seen = {}
    /\ doing = [w \in Workers |-> "nothing"]
    /\ envelope \in [Workers -> Presentable]
    /\ answer = [w \in Workers |-> "none"]
    /\ acts = [key \in Keys |-> 0]
    /\ crashes = 0

\* Mutant of Verify: an inspection is recorded as if it were an act.
VerifyRecording(w, env) ==
    /\ doing[w] = "nothing"
    /\ envelope' = [envelope EXCEPT ![w] = env]
    /\ answer' = [answer EXCEPT ![w] = IF Seen(env) THEN "failed" ELSE "passed"]
    /\ doing' = [doing EXCEPT ![w] =
                    IF ReceiptParses(env, Anchors) /\ ~env.payload.speculative /\ ~Seen(env)
                    THEN "checked" ELSE "nothing"]
    /\ seen' = seen \cup {ReplayKey(env)}
    /\ UNCHANGED <<acts, crashes>>

\* receipt_signature, replay_receipt_unseen and receipt_final, of which the first
\* is the one that ends the verification.
Verify(w, env) ==
    /\ doing[w] = "nothing"
    /\ envelope' = [envelope EXCEPT ![w] = env]
    /\ answer' = [answer EXCEPT ![w] =
                     IF ~ReceiptParses(env, Anchors) THEN "none"
                     ELSE IF Seen(env) THEN "failed" ELSE "passed"]
    /\ doing' = [doing EXCEPT ![w] =
                    IF ReceiptParses(env, Anchors) /\ ~env.payload.speculative /\ ~Seen(env)
                    THEN "checked" ELSE "nothing"]
    /\ UNCHANGED <<seen, acts, crashes>>

Act(w) ==
    /\ doing[w] = "checked"
    /\ doing' = [doing EXCEPT ![w] = "acted"]
    /\ acts' = [acts EXCEPT ![Digest(envelope[w].payload)] = @ + 1]
    /\ UNCHANGED <<seen, envelope, answer, crashes>>

\* A worker that only audits leaves nothing behind.
Discard(w) ==
    /\ doing[w] = "checked"
    /\ doing' = [doing EXCEPT ![w] = "nothing"]
    /\ UNCHANGED <<seen, envelope, answer, acts, crashes>>

\* Mutant of Record: the entry is left out.
RecordNothing(w) ==
    /\ doing[w] = "acted"
    /\ doing' = [doing EXCEPT ![w] = "nothing"]
    /\ UNCHANGED <<seen, envelope, answer, acts, crashes>>

Record(w) ==
    /\ doing[w] = "acted"
    /\ doing' = [doing EXCEPT ![w] = "nothing"]
    /\ seen' = seen \cup {ReplayKey(envelope[w])}
    /\ UNCHANGED <<envelope, answer, acts, crashes>>

Crash(w) ==
    /\ doing[w] # "nothing" /\ crashes < MaxCrashes
    /\ doing' = [doing EXCEPT ![w] = "nothing"]
    /\ crashes' = crashes + 1
    /\ UNCHANGED <<seen, envelope, answer, acts>>

Next ==
    \E w \in Workers :
        \/ \E env \in Presentable : Verify(w, env)
        \/ Act(w) \/ Discard(w) \/ Record(w) \/ Crash(w)

Spec == Init /\ [][Next]_vars

\* The caller's code runs on: a worker that acted records it, or crashes.
FairSpec == Spec /\ \A w \in Workers : WF_vars(Record(w))

------------------------------------------------------------------------------
(* What must hold.                                                          *)

\* Type invariant.
TypeOK ==
    /\ seen \subseteq Keys
    /\ doing \in [Workers -> {"nothing", "checked", "acted"}]
    /\ envelope \in [Workers -> Presentable]
    /\ answer \in [Workers -> {"none", "passed", "failed"}]
    /\ acts \in [Keys -> Nat]
    /\ crashes \in 0..MaxCrashes

On(key) == {w \in Workers : Digest(envelope[w].payload) = key}

\* The record alone does not make acting unique: a receipt can be acted on once for
\* each verification under way when it is first recorded, and once more for each
\* crash before the entry, and never more than that, however often and in whatever
\* envelopes it is presented (verify.go:49-63, 250-260).
ActsAccountedFor ==
    \A key \in Keys :
        acts[key] + Cardinality({w \in On(key) : doing[w] = "checked"})
            <= Cardinality(Workers) + crashes

\* A receipt nobody acted on is never refused as a replay: not because it was
\* looked at before, not because another receipt of the same artifact was acted on
\* (verify.go:68-83).
RefusedWasActed ==
    \A w \in Workers :
        answer[w] = "failed" => acts[Digest(envelope[w].payload)] > 0

\* A receipt acted on is presented in vain from some point on, unless a worker
\* crashed before recording it (verify.go:74-75).
ActedIsRecorded ==
    \A key \in Keys : (acts[key] > 0) ~> (key \in seen \/ crashes > 0)
=============================================================================
