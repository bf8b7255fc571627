---------------------------- MODULE ReceiptChain ----------------------------
(***************************************************************************)
(* The receipt log of one enforcement point and an auditor walking it with *)
(* Verify while it grows. Every receipt carries the digest of its          *)
(* predecessor (prior_hash) and may say which speculative receipt it       *)
(* settles (confirms). The log is kept by a third party that may lose,     *)
(* reorder, repeat, alter or re-envelope entries. The auditor gives Verify *)
(* the receipt it accepted last as PriorReceipt and, as ConfirmedReceipt,  *)
(* the one among those it accepted that the receipt names.                 *)
(*                                                                         *)
(* Only the checks that see beyond the receipt at hand are modelled; a     *)
(* speculative entry is not refused for being one. The enforcement point,  *)
(* the keeper of the log and the auditor's loop are not part of this       *)
(* repository: external.                                                   *)
(***************************************************************************)
EXTENDS Checks, SequencesExt

CONSTANTS Anchors,      \* the auditor's trust anchor set
          Kid,          \* the key id the enforcement point signs under
          Headers,      \* the values of an envelope's unsigned header
          MaxIssued,    \* bound: receipts issued
          MaxChanges    \* bound: changes the keeper makes to the log

\* The enforcement point is registered as one, and nobody's key is the signature
\* an altered payload is left with.
ASSUME ReceiptChainAssumption ==
    /\ MaxIssued \in Nat /\ MaxChanges \in Nat
    /\ Headers # {}
    /\ Kid \in DOMAIN Anchors /\ Kid # ""
    /\ Anchors[Kid].alg \in Algorithms /\ "enforcement_point" \in Anchors[Kid].roles
    /\ \A kid \in DOMAIN Anchors : \A i \in 1..Len(Anchors[kid].public) :
          Anchors[kid].public[i] # "stale"

VARIABLES issued,      \* the receipts issued, in order
          log,         \* the envelopes kept
          next,        \* the position in the log the auditor reads next
          walked,      \* the envelopes it has accepted
          refused,     \* the envelope it stopped at, <<>> while it walks
          changes      \* the changes made to the log so far

vars == <<issued, log, next, walked, refused, changes>>

Init ==
    /\ issued = <<>> /\ log = <<>>
    /\ next = 1 /\ walked = <<>> /\ refused = <<>>
    /\ changes = 0

------------------------------------------------------------------------------
(* The enforcement point.                                                   *)

DigestOfLast(s) == IF s = <<>> THEN <<>> ELSE Digest(Last(s))

Seal(rc) ==
    [decodes |-> TRUE, kid |-> Kid, alg |-> Anchors[Kid].alg,
     signature |-> Anchors[Kid].public, kind |-> "receipt", canonical |-> TRUE,
     payload |-> rc, unprotected |-> CHOOSE h \in Headers : TRUE]

\* It may claim to settle any receipt it issued, or one nobody knows.
Issue(speculative, confirms) ==
    /\ Len(issued) < MaxIssued
    /\ LET rc == [id |-> Len(issued) + 1, speculative |-> speculative,
                  confirms |-> confirms, prior_hash |-> DigestOfLast(issued)]
       IN  /\ issued' = Append(issued, rc)
           /\ log' = Append(log, Seal(rc))
    /\ UNCHANGED <<next, walked, refused, changes>>

Claims == {<<>>, <<"unknown">>} \cup {Digest(issued[i]) : i \in 1..Len(issued)}

------------------------------------------------------------------------------
(* The keeper of the log.                                                   *)

Change(changed) ==
    /\ changes < MaxChanges
    /\ changes' = changes + 1
    /\ log' = changed
    /\ UNCHANGED <<issued, next, walked, refused>>

Lose(i) == Change(RemoveAt(log, i))

Repeat(i) == Change(InsertAt(log, i, log[i]))

Swap(i) ==
    i < Len(log) /\ Change([log EXCEPT ![i] = log[i + 1], ![i + 1] = log[i]])

\* Another payload, under a signature that was made for the one before.
Alter(i) ==
    Change([log EXCEPT ![i] = [log[i] EXCEPT !.payload.id = 0,
                                             !.signature = <<"stale">>]])

\* The unsigned header is the keeper's to rewrite.
Reenvelope(i, h) == Change([log EXCEPT ![i].unprotected = h])

------------------------------------------------------------------------------
(* The auditor.                                                             *)

PriorReceipt == IF walked = <<>> THEN <<>> ELSE <<Last(walked).payload>>

Named(rc) == {i \in 1..Len(walked) : Digest(walked[i].payload) = rc.confirms}

Confirmed(rc) ==
    IF Named(rc) = {} THEN <<>> ELSE <<walked[CHOOSE i \in Named(rc) : TRUE].payload>>

\* Mutant of Valid: the claim to settle a receipt is read, not checked.
ValidUnconfirmed(env) ==
    /\ ReceiptParses(env, Anchors)
    /\ PriorReceipt # <<>> => ChainLink(env.payload, PriorReceipt[1])

\* Mutant of Valid: a receipt that settles something must come with it.
ValidAllSettled(env) ==
    /\ ReceiptParses(env, Anchors)
    /\ PriorReceipt # <<>> => ChainLink(env.payload, PriorReceipt[1])
    /\ env.payload.confirms = <<>> \/ ConfirmationLink(env.payload, Confirmed(env.payload)) = "passed"

\* receipt_signature, chain_link and confirmation_link: none of them failed.
Valid(env) ==
    /\ ReceiptParses(env, Anchors)
    /\ PriorReceipt # <<>> => ChainLink(env.payload, PriorReceipt[1])
    /\ ConfirmationLink(env.payload, Confirmed(env.payload)) # "failed"

\* Mutant of ReadNext: an entry that does not verify is passed over.
ReadOn ==
    /\ refused = <<>> /\ next <= Len(log)
    /\ walked' = IF Valid(log[next]) THEN Append(walked, log[next]) ELSE walked
    /\ next' = next + 1
    /\ UNCHANGED <<issued, log, refused, changes>>

\* Mutant of ReadNext: it waits for the receipt an entry says it settles.
ReadSettled ==
    /\ refused = <<>> /\ next <= Len(log)
    /\ log[next].payload.confirms = <<>> \/ Named(log[next].payload) # {}
    /\ IF Valid(log[next])
       THEN /\ walked' = Append(walked, log[next])
            /\ next' = next + 1
            /\ UNCHANGED refused
       ELSE /\ refused' = <<log[next]>>
            /\ UNCHANGED <<next, walked>>
    /\ UNCHANGED <<issued, log, changes>>

ReadNext ==
    /\ refused = <<>> /\ next <= Len(log)
    /\ IF Valid(log[next])
       THEN /\ walked' = Append(walked, log[next])
            /\ next' = next + 1
            /\ UNCHANGED refused
       ELSE /\ refused' = <<log[next]>>
            /\ UNCHANGED <<next, walked>>
    /\ UNCHANGED <<issued, log, changes>>

Next ==
    \/ \E speculative \in BOOLEAN, confirms \in Claims : Issue(speculative, confirms)
    \/ \E i \in 1..Len(log) :
          \/ Lose(i) \/ Repeat(i) \/ Swap(i) \/ Alter(i)
          \/ \E h \in Headers : Reenvelope(i, h)
    \/ ReadNext

Spec == Init /\ [][Next]_vars

\* The auditor does not stop half way; nothing is asked of the other two.
FairSpec == Spec /\ WF_vars(ReadNext)

------------------------------------------------------------------------------
(* What must hold.                                                          *)

\* Type invariant.
TypeOK ==
    /\ Len(issued) <= MaxIssued
    /\ changes \in 0..MaxChanges
    /\ next = Len(walked) + 1
    /\ \A i \in 1..Len(walked) : walked[i].unprotected \in Headers
    /\ Len(refused) <= 1

Successive(rc, successor) ==
    \E i \in 1..(Len(issued) - 1) : issued[i] = rc /\ issued[i + 1] = successor

\* What the auditor accepts is a stretch of what was issued: nothing missing from
\* its inside, nothing out of order, repeated or altered, whatever happened to the
\* log and however it grew under the walk. Where the stretch begins and ends, the
\* link cannot say (verify.go:606-617).
StretchOfTheChain ==
    walked # <<>> =>
        \E k \in 1..Len(issued) :
            /\ k + Len(walked) - 1 <= Len(issued)
            /\ \A i \in 1..Len(walked) : walked[i].payload = issued[k + i - 1]

\* A receipt that settles one the auditor has seen settles a speculative one, and is
\* not speculative itself (verify.go:574-604).
SettlesSpeculation ==
    \A i, j \in 1..Len(walked) :
        walked[j].payload.confirms = Digest(walked[i].payload) =>
            walked[i].payload.speculative /\ ~walked[j].payload.speculative

Missettles(rc) ==
    \E i \in 1..Len(walked) :
        /\ rc.confirms = Digest(walked[i].payload)
        /\ rc.speculative \/ ~walked[i].payload.speculative

\* An entry is refused for a reason found in what was issued: it is no receipt of
\* this chain, not the successor of the one before, or settles what it may not. The
\* envelope it is kept in is no reason, nor is a settled receipt that lies outside
\* the stretch walked (receipt.go:162-170, verify.go:577-580).
RefusedForCause ==
    refused # <<>> =>
        LET e == refused[1] IN
        \/ \A i \in 1..Len(issued) : issued[i] # e.payload
        \/ walked # <<>> /\ ~Successive(Last(walked).payload, e.payload)
        \/ Missettles(e.payload)

\* The walk gets to the end of the log, again and again while it grows, or to an
\* entry it refuses.
WalkCatchesUp == []<>(refused # <<>> \/ next > Len(log))
=============================================================================
