------------------------- MODULE ReceiptChainProofs -------------------------
(***************************************************************************)
(* What an audited log is worth, however many receipts are issued and      *)
(* however often the log is changed.                                       *)
(*                                                                         *)
(* The enforcement point numbers its receipts, each carries the digest of  *)
(* the one before, and digests are injective: the digest a receipt carries *)
(* names the one receipt it can follow. Every entry of the log is either a *)
(* receipt that was issued, in an envelope that verifies whatever its      *)
(* header, or an altered one that verifies nowhere.                        *)
(***************************************************************************)
EXTENDS ReceiptChain, SequenceTheorems, TLAPS

\* A sequence, of whatever elements.
IsList(s) == s \in Seq({s[i] : i \in 1..Len(s)})

Elements(s) == {s[i] : i \in 1..Len(s)}

EnvelopeFields == {"decodes", "kid", "alg", "signature", "kind", "canonical", "payload",
                   "unprotected"}

IsReceipt(rc) == rc = [id |-> rc.id, speculative |-> rc.speculative,
                       confirms |-> rc.confirms, prior_hash |-> rc.prior_hash]

\* The receipts issued are numbered, linked, and settle earlier ones at most.
Chained ==
    /\ IsList(issued) /\ Len(issued) <= MaxIssued
    /\ \A i \in 1..Len(issued) :
          /\ IsReceipt(issued[i])
          /\ issued[i].id = i
          /\ issued[i].prior_hash = IF i = 1 THEN <<>> ELSE Digest(issued[i - 1])
          /\ \/ issued[i].confirms \in {<<>>, <<"unknown">>}
             \/ \E j \in 1..(i - 1) : issued[i].confirms = Digest(issued[j])

Issued(rc, s) == rc.id \in 1..Len(s) /\ rc = s[rc.id]

\* An entry that verifies, and one that verifies nowhere.
Genuine(e, s) == Issued(e.payload, s) /\ ReceiptParses(e, Anchors)

Altered(e) == e.payload.id = 0 /\ e.signature = <<"stale">>

Entry(e, s) ==
    /\ DOMAIN e = EnvelopeFields
    /\ e.unprotected \in Headers
    /\ IsReceipt(e.payload)
    /\ Genuine(e, s) \/ Altered(e)

Kept == IsList(log) /\ \A i \in 1..Len(log) : Entry(log[i], issued)

\* The receipts accepted are consecutive, and settle what they may.
Walked ==
    /\ IsList(walked) /\ next = Len(walked) + 1
    /\ \A i \in 1..Len(walked) :
          /\ walked[i].unprotected \in Headers
          /\ Issued(walked[i].payload, issued)
          /\ walked[i].payload.id = walked[1].payload.id + i - 1
    /\ SettlesSpeculation

\* The reasons an issued receipt may have been refused for.
MissettlesIn(rc, s) ==
    \E i \in 1..Len(s) :
        /\ rc.confirms = Digest(s[i].payload)
        /\ rc.speculative \/ ~s[i].payload.speculative

Unfit(rc, s) ==
    \/ s # <<>> /\ rc.id # Last(s).payload.id + 1
    \/ MissettlesIn(rc, s)

Stopped ==
    /\ refused = <<>> \/ refused = <<refused[1]>>
    /\ refused # <<>> =>
          LET rc == refused[1].payload IN rc.id = 0 \/ (Issued(rc, issued) /\ Unfit(rc, walked))

IInv == Chained /\ Kept /\ Walked /\ Stopped /\ changes \in 0..MaxChanges

------------------------------------------------------------------------------
(* Sequences.                                                               *)

\* A sequence over some set is a sequence.
LEMMA SeqIsList ==
    ASSUME NEW T, NEW s \in Seq(T)
    PROVE  IsList(s)
<1> s \in [1..Len(s) -> {s[i] : i \in 1..Len(s)}] /\ Len(s) \in Nat
    BY LenProperties
<1> QED  BY SeqDef DEF IsList

\* What a sequence consists of.
LEMMA ListProperties ==
    ASSUME NEW s, IsList(s)
    PROVE  /\ Len(s) \in Nat
           /\ s \in Seq(Elements(s))
           /\ s # <<>> <=> Len(s) > 0
           /\ \A i \in 1..Len(s) : s[i] \in Elements(s)
           /\ s = [i \in 1..Len(s) |-> s[i]]
<1> s \in Seq(Elements(s))
    BY DEF IsList, Elements
<1>1. Len(s) \in Nat /\ s \in [1..Len(s) -> Elements(s)]
    BY LenProperties
<1>2. s # <<>> <=> Len(s) > 0
    BY EmptySeq, <1>1
<1> QED  BY <1>1, <1>2 DEF Elements

\* Appending.
LEMMA AppendList ==
    ASSUME NEW s, IsList(s), NEW e
    PROVE  /\ IsList(Append(s, e))
           /\ Len(Append(s, e)) = Len(s) + 1
           /\ Append(s, e) # <<>>
           /\ \A i \in 1..Len(s) : Append(s, e)[i] = s[i]
           /\ Append(s, e)[Len(s) + 1] = e
<1> DEFINE T == Elements(s) \cup {e}
<1>1. s \in Seq(T)
    BY ListProperties, SeqMonotonic
<1>2. e \in T
    OBVIOUS
<1> HIDE DEF T
<1>3. /\ Append(s, e) \in Seq(T)
      /\ Append(s, e) # <<>>
      /\ Len(Append(s, e)) = Len(s) + 1
      /\ \A i \in 1..Len(s) : Append(s, e)[i] = s[i]
      /\ Append(s, e)[Len(s) + 1] = e
    BY <1>1, <1>2, AppendProperties
<1> QED  BY <1>3, SeqIsList

\* Losing, repeating and replacing an element leave a sequence of the elements
\* there were, and the replacement.
LEMMA KeeperLists ==
    ASSUME NEW s, IsList(s), NEW i \in 1..Len(s), NEW e
    PROVE  /\ RemoveAt(s, i) \in Seq(Elements(s) \cup {e})
           /\ InsertAt(s, i, s[i]) \in Seq(Elements(s) \cup {e})
           /\ [s EXCEPT ![i] = e] \in Seq(Elements(s) \cup {e})
<1> DEFINE T == Elements(s) \cup {e}
<1>1. s \in Seq(T) /\ Len(s) \in Nat /\ e \in T
    BY ListProperties, SeqMonotonic
<1>2. \A j \in 1..Len(s) : s[j] \in T
    BY ListProperties
<1> HIDE DEF T
<1>3. SubSeq(s, 1, i - 1) \in Seq(T)
  <2>1. \A j \in 1..(i - 1) : s[j] \in T
    BY <1>1, <1>2
  <2> QED  BY <2>1, SubSeqProperties
<1>4. SubSeq(s, i + 1, Len(s)) \in Seq(T)
  <2>1. \A j \in (i + 1)..Len(s) : s[j] \in T
    BY <1>1, <1>2
  <2> QED  BY <1>1, <2>1, SubSeqProperties
<1>5. SubSeq(s, i, Len(s)) \in Seq(T)
  <2>1. \A j \in i..Len(s) : s[j] \in T
    BY <1>1, <1>2
  <2> QED  BY <1>1, <2>1, SubSeqProperties
<1>6. <<s[i]>> \in Seq(T)
    BY <1>2
<1>7. RemoveAt(s, i) \in Seq(T)
    BY <1>3, <1>4, ConcatProperties DEF RemoveAt
<1>8. InsertAt(s, i, s[i]) \in Seq(T)
  <2>1. SubSeq(s, 1, i - 1) \o <<s[i]>> \in Seq(T)
    BY <1>3, <1>6, ConcatProperties
  <2> QED  BY <2>1, <1>5, ConcatProperties DEF InsertAt
<1>9. [s EXCEPT ![i] = e] \in Seq(T)
    BY <1>1, ExceptSeq
<1> QED  BY <1>7, <1>8, <1>9 DEF T

\* Exchanging two neighbours.
LEMMA SwapList ==
    ASSUME NEW s, IsList(s), NEW i \in 1..Len(s), i < Len(s)
    PROVE  [s EXCEPT ![i] = s[i + 1], ![i + 1] = s[i]] \in Seq(Elements(s))
<1>1. s \in Seq(Elements(s)) /\ Len(s) \in Nat
    BY ListProperties
<1>2. i + 1 \in 1..Len(s)
    BY <1>1
<1>3. s[i] \in Elements(s) /\ s[i + 1] \in Elements(s)
    BY <1>2, ListProperties
<1>4. /\ [s EXCEPT ![i] = s[i + 1]] \in Seq(Elements(s))
      /\ Len([s EXCEPT ![i] = s[i + 1]]) = Len(s)
    BY <1>1, <1>3, ExceptSeq
<1> QED  BY <1>2, <1>3, <1>4, ExceptSeq

------------------------------------------------------------------------------
(* Digests and entries.                                                     *)

\* A digest names one value, and is neither the empty one nor one nobody knows.
LEMMA Digests ==
    /\ \A v, w : Digest(v) = Digest(w) => v = w
    /\ \A v : Digest(v) # <<>> /\ Digest(v) # <<"unknown">>
<1>1. \A v : Len(Digest(v)) = 2 /\ Digest(v)[2] = v
    BY DEF Digest
<1>2. Len(<<>>) = 0 /\ Len(<<"unknown">>) = 1
    OBVIOUS
<1> QED  BY <1>1, <1>2

\* The bounds are numbers.
LEMMA Bounds == MaxIssued \in Nat /\ MaxChanges \in Nat
    BY ReceiptChainAssumption, Zenon

\* What the enforcement point seals verifies.
LEMMA SealGenuine ==
    ASSUME NEW rc
    PROVE  /\ ReceiptParses(Seal(rc), Anchors)
           /\ DOMAIN Seal(rc) = EnvelopeFields
           /\ Seal(rc).unprotected \in Headers
           /\ Seal(rc).payload = rc
<1>1. Seal(rc).unprotected \in Headers
    BY ReceiptChainAssumption, Zenon DEF Seal
<1>2. SignatureVerifies(Seal(rc), Anchors[Kid])
    BY ReceiptChainAssumption, Zenon DEF Seal, SignatureVerifies
<1>3. verifyEnvelope(Seal(rc), Anchors, "enforcement_point")
    BY <1>2, ReceiptChainAssumption, Zenon DEF Seal, verifyEnvelope
<1>4. Unmarshals(Seal(rc), "receipt")
    BY DEF Seal, Unmarshals
<1>5. DOMAIN Seal(rc) = EnvelopeFields /\ Seal(rc).payload = rc
    BY DEF Seal, EnvelopeFields
<1> QED  BY <1>1, <1>3, <1>4, <1>5 DEF ReceiptParses

\* The signature an altered payload is left with verifies under no anchor.
LEMMA AlteredNeverParses ==
    ASSUME NEW e, Altered(e)
    PROVE  ~ReceiptParses(e, Anchors)
<1> SUFFICES ASSUME ReceiptParses(e, Anchors)  PROVE FALSE
    OBVIOUS
<1>1. e.kid \in DOMAIN Anchors /\ SignatureVerifies(e, Anchors[e.kid])
    BY DEF ReceiptParses, verifyEnvelope
<1>2. e.signature = <<"stale">>
    BY DEF Altered
<1> DEFINE public == Anchors[e.kid].public
<1>3. /\ Len(e.signature) = Len(public)
      /\ \A i \in 1..Len(public) : e.signature[i] = public[i]
    BY <1>1 DEF SignatureVerifies
<1>4. \A i \in 1..Len(public) : public[i] # "stale"
    BY <1>1, ReceiptChainAssumption, Zenon
<1> HIDE DEF public
<1>5. \A x : Len(<<x>>) = 1 /\ <<x>>[1] = x
    OBVIOUS
<1>6. e.signature[1] = "stale"
    BY <1>2, <1>5, Zenon
<1>7. Len(public) = 1
    BY <1>2, <1>3, <1>5, Zenon
<1>8. 1 \in 1..Len(public)
    BY <1>7
<1> QED  BY <1>3, <1>4, <1>6, <1>8, Zenon

\* Altering an entry and rewriting its header leave an entry.
LEMMA ChangedEntry ==
    ASSUME NEW e, Entry(e, issued)
    PROVE  /\ Entry([e EXCEPT !.payload.id = 0, !.signature = <<"stale">>], issued)
           /\ \A h \in Headers : Entry([e EXCEPT !.unprotected = h], issued)
<1>1. Entry([e EXCEPT !.payload.id = 0, !.signature = <<"stale">>], issued)
  <2> DEFINE a == [e EXCEPT !.payload.id = 0, !.signature = <<"stale">>]
  <2>1. /\ DOMAIN a = EnvelopeFields
        /\ a.unprotected = e.unprotected
        /\ a.payload = [e.payload EXCEPT !.id = 0]
        /\ a.signature = <<"stale">>
    BY DEF Entry, EnvelopeFields
  <2> HIDE DEF a
  <2>2. IsReceipt(a.payload) /\ a.payload.id = 0
    BY <2>1 DEF Entry, IsReceipt
  <2> QED  BY <2>1, <2>2 DEF Entry, Altered, a
<1>2. ASSUME NEW h \in Headers  PROVE Entry([e EXCEPT !.unprotected = h], issued)
  <2> DEFINE a == [e EXCEPT !.unprotected = h]
  <2>1. /\ DOMAIN a = EnvelopeFields
        /\ a.unprotected = h
        /\ a.payload = e.payload /\ a.signature = e.signature
        /\ a.decodes = e.decodes /\ a.kid = e.kid /\ a.alg = e.alg
        /\ a.kind = e.kind /\ a.canonical = e.canonical
    BY DEF Entry, EnvelopeFields
  <2> HIDE DEF a
  <2>2. Genuine(e, issued) => Genuine(a, issued)
    BY <2>1 DEF Genuine, ReceiptParses, verifyEnvelope, SignatureVerifies, Unmarshals
  <2>3. Altered(e) => Altered(a)
    BY <2>1 DEF Altered
  <2> QED  BY <2>1, <2>2, <2>3 DEF Entry, a
<1> QED  BY <1>1, <1>2

------------------------------------------------------------------------------
(* The invariant.                                                           *)

\* Nothing is issued, kept or walked yet.
LEMMA Initially ==
    ASSUME Init
    PROVE  IInv
<1>1. \A s : s = <<>> => IsList(s) /\ Len(s) = 0
    BY EmptySeq, SeqIsList
<1>2. Chained /\ Kept
    BY <1>1, Bounds DEF Init, Chained, Kept
<1>3. Walked /\ Stopped
    BY <1>1 DEF Init, Walked, Stopped, SettlesSpeculation
<1> QED  BY <1>2, <1>3, Bounds DEF Init, IInv

\* The enforcement point issues a receipt.
LEMMA IssueKeeps ==
    ASSUME IInv,
           NEW speculative \in BOOLEAN, NEW confirms \in Claims,
           Issue(speculative, confirms)
    PROVE  IInv'
<1> DEFINE n == Len(issued) + 1
           rc == [id |-> n, speculative |-> speculative,
                  confirms |-> confirms, prior_hash |-> DigestOfLast(issued)]
<1>1. /\ Len(issued) < MaxIssued
      /\ issued' = Append(issued, rc) /\ log' = Append(log, Seal(rc))
      /\ UNCHANGED <<next, walked, refused, changes>>
    BY DEF Issue
<1>2. IsList(issued) /\ Len(issued) \in Nat /\ IsList(log)
    BY ListProperties DEF IInv, Chained, Kept
<1>3. IsReceipt(rc) /\ rc.id = n /\ rc.confirms = confirms
    BY DEF IsReceipt
<1>4. rc.prior_hash = IF n = 1 THEN <<>> ELSE Digest(issued[n - 1])
  <2>1. issued = <<>> <=> n = 1
    BY <1>2, ListProperties
  <2> QED  BY <1>2, <2>1 DEF DigestOfLast, Last
<1>5. \/ confirms \in {<<>>, <<"unknown">>}
      \/ \E j \in 1..(n - 1) : confirms = Digest(issued[j])
    BY <1>2 DEF Claims
<1> HIDE DEF rc
<1>6. /\ IsList(issued') /\ Len(issued') = n
      /\ \A i \in 1..Len(issued) : issued'[i] = issued[i]
      /\ issued'[n] = rc
    BY <1>1, <1>2, AppendList
<1>7. Chained'
  <2>1. Len(issued') <= MaxIssued
    BY <1>1, <1>2, <1>6, Bounds
  <2>2. ASSUME NEW i \in 1..n
        PROVE  /\ IsReceipt(issued'[i])
               /\ issued'[i].id = i
               /\ issued'[i].prior_hash = IF i = 1 THEN <<>> ELSE Digest(issued'[i - 1])
               /\ \/ issued'[i].confirms \in {<<>>, <<"unknown">>}
                  \/ \E j \in 1..(i - 1) : issued'[i].confirms = Digest(issued'[j])
    <3>1. CASE i = n
      <4>1. i # 1 => issued'[i - 1] = issued[i - 1]
        BY <1>2, <1>6, <3>1
      <4>2. \A j \in 1..(i - 1) : issued'[j] = issued[j]
        BY <1>2, <1>6, <3>1
      <4> QED  BY <1>3, <1>4, <1>5, <1>6, <3>1, <4>1, <4>2
    <3>2. CASE i \in 1..Len(issued)
      <4>1. i # 1 => issued'[i - 1] = issued[i - 1]
        BY <1>2, <1>6, <3>2
      <4>2. \A j \in 1..(i - 1) : issued'[j] = issued[j]
        BY <1>2, <1>6, <3>2
      <4>3. issued'[i] = issued[i]
        BY <1>6, <3>2
      <4> QED  BY <3>2, <4>1, <4>2, <4>3 DEF IInv, Chained
    <3> QED  BY <1>2, <3>1, <3>2
  <2> QED  BY <1>6, <2>1, <2>2 DEF Chained
<1>8. \A x : Issued(x, issued) => Issued(x, issued')
    BY <1>2, <1>6 DEF Issued
<1>9. Kept'
  <2>1. /\ IsList(log') /\ Len(log') = Len(log) + 1 /\ Len(log) \in Nat
        /\ \A i \in 1..Len(log) : log'[i] = log[i]
        /\ log'[Len(log) + 1] = Seal(rc)
    BY <1>1, <1>2, AppendList, ListProperties
  <2>2. Entry(log'[Len(log) + 1], issued')
    <3>1. Issued(rc, issued')
      BY <1>2, <1>3, <1>6 DEF Issued
    <3> QED  BY <1>3, <2>1, <3>1, SealGenuine DEF Entry, Genuine
  <2>3. ASSUME NEW i \in 1..Len(log)  PROVE Entry(log'[i], issued')
    <3>1. Entry(log[i], issued)
      BY DEF IInv, Kept
    <3> QED  BY <1>8, <2>1, <3>1 DEF Entry, Genuine, Altered
  <2> QED  BY <2>1, <2>2, <2>3 DEF Kept
<1>10. Walked'
  <2>1. SettlesSpeculation'
    BY <1>1 DEF IInv, Walked, SettlesSpeculation
  <2> QED  BY <1>1, <1>8, <2>1 DEF IInv, Walked
<1>11. Stopped'
    BY <1>1, <1>8 DEF IInv, Stopped, Unfit
<1> QED  BY <1>1, <1>7, <1>9, <1>10, <1>11 DEF IInv

\* The keeper of the log leaves entries, of which nothing else depends.
LEMMA ChangeKeeps ==
    ASSUME IInv,
           NEW e, Entry(e, issued), NEW changed \in Seq(Elements(log) \cup {e}), Change(changed)
    PROVE  IInv'
<1>1. /\ changes < MaxChanges /\ changes' = changes + 1 /\ log' = changed
      /\ UNCHANGED <<issued, next, walked, refused>>
    BY DEF Change
<1>2. Chained' /\ Walked' /\ Stopped'
    BY <1>1 DEF IInv, Chained, Walked, Stopped, Issued, Unfit, SettlesSpeculation
<1>3. Kept'
  <2>1. \A x \in Elements(log) \cup {e} : Entry(x, issued)
    BY DEF IInv, Kept, Elements
  <2>2. \A i \in 1..Len(changed) : changed[i] \in Elements(log) \cup {e}
    BY ElementOfSeq
  <2>3. \A x : Entry(x, issued) => Entry(x, issued')
    BY <1>1 DEF Entry, Genuine, Altered, Issued
  <2> QED  BY <1>1, <2>1, <2>2, <2>3, SeqIsList DEF Kept
<1>4. changes' \in 0..MaxChanges
    BY <1>1, Bounds DEF IInv
<1> QED  BY <1>2, <1>3, <1>4 DEF IInv

\* The auditor reads an entry.
LEMMA ReadKeeps ==
    ASSUME IInv, ReadNext
    PROVE  IInv'
<1> DEFINE e == log[next]
           rc == e.payload
           n == Len(walked) + 1
           last == Last(walked).payload
<1>1. /\ refused = <<>> /\ next <= Len(log)
      /\ \/ Valid(e) /\ walked' = Append(walked, e) /\ next' = next + 1 /\ refused' = refused
         \/ ~Valid(e) /\ refused' = <<e>> /\ next' = next /\ walked' = walked
      /\ UNCHANGED <<issued, log, changes>>
    BY DEF ReadNext
<1>2. IsList(walked) /\ Len(walked) \in Nat /\ next = n
    BY ListProperties DEF IInv, Walked
<1>3. Entry(e, issued)
    BY <1>1, <1>2, ListProperties DEF IInv, Kept
<1>4. Chained' /\ Kept' /\ changes' \in 0..MaxChanges
    BY <1>1 DEF IInv, Chained, Kept, Entry, Genuine, Altered, Issued
<1>5. \A x : Issued(x, issued) => Issued(x, issued')
    BY <1>1 DEF Issued
<1>6. /\ walked = <<>> => n = 1
      /\ walked # <<>> =>
            /\ n > 1 /\ last = walked[n - 1].payload
            /\ Issued(last, issued) /\ last.id = walked[1].payload.id + n - 2
    BY <1>2, ListProperties DEF IInv, Walked, Last
<1>7. walked # <<>> /\ Issued(rc, issued) => (ChainLink(rc, last) <=> rc.id = last.id + 1)
  <2> SUFFICES ASSUME walked # <<>>, Issued(rc, issued)
               PROVE  ChainLink(rc, last) <=> rc.id = last.id + 1
    OBVIOUS
  <2>1. /\ Len(issued) \in Nat
        /\ rc.id \in 1..Len(issued) /\ rc = issued[rc.id]
        /\ last.id \in 1..Len(issued) /\ last = issued[last.id]
    BY <1>6, ListProperties DEF IInv, Chained, Issued
  <2>2. rc.prior_hash = IF rc.id = 1 THEN <<>> ELSE Digest(issued[rc.id - 1])
    BY <2>1 DEF IInv, Chained
  <2>3. rc.id # 1 => rc.id - 1 \in 1..Len(issued) /\ issued[rc.id - 1].id = rc.id - 1
    BY <2>1 DEF IInv, Chained
  <2> HIDE DEF rc, last
  <2>4. ASSUME ChainLink(rc, last)  PROVE rc.id = last.id + 1
    <3>1. rc.id # 1 /\ issued[rc.id - 1] = last
      BY <2>2, <2>4, Digests DEF ChainLink
    <3> QED  BY <2>1, <2>3, <3>1
  <2>5. ASSUME rc.id = last.id + 1  PROVE ChainLink(rc, last)
    <3>1. rc.id # 1 /\ rc.id - 1 = last.id
      BY <2>1, <2>5
    <3> QED  BY <2>1, <2>2, <3>1 DEF ChainLink
  <2> QED  BY <2>4, <2>5
<1>8. PriorReceipt # <<>> <=> walked # <<>>
    BY DEF PriorReceipt
<1>9. walked # <<>> => PriorReceipt[1] = last
    BY DEF PriorReceipt
<1>10. CASE Valid(e)
  <2>1. walked' = Append(walked, e) /\ next' = next + 1 /\ refused' = <<>>
    BY <1>1, <1>10
  <2>2. Genuine(e, issued) /\ Issued(rc, issued)
    BY <1>3, <1>10, AlteredNeverParses DEF Entry, Valid, Genuine
  <2>3. walked # <<>> => rc.id = last.id + 1
    BY <1>7, <1>8, <1>9, <1>10, <2>2 DEF Valid
  <2> HIDE DEF e
  <2>4. /\ IsList(walked') /\ Len(walked') = n
        /\ \A i \in 1..Len(walked) : walked'[i] = walked[i]
        /\ walked'[n] = e
    BY <1>2, <2>1, AppendList
  <2>5. /\ e.unprotected \in Headers
        /\ rc.id \in 1..Len(issued)
    BY <1>3, <2>2 DEF Entry, Issued
  <2>6. rc.id = walked'[1].payload.id + n - 1
    <3>1. CASE walked = <<>>
      BY <1>6, <2>4, <2>5, <3>1
    <3>2. CASE walked # <<>>
      <4>1. walked'[1] = walked[1] /\ walked[1].payload.id \in Int
        BY <1>2, <1>6, <2>4, <3>2 DEF IInv, Walked, Issued
      <4>2. last.id = walked[1].payload.id + n - 2 /\ rc.id = last.id + 1
        BY <1>6, <2>3, <3>2
      <4> HIDE DEF rc, last
      <4> QED  BY <1>2, <4>1, <4>2
    <3> QED  BY <3>1, <3>2
  <2>7. ASSUME NEW i \in 1..n
        PROVE  /\ walked'[i].unprotected \in Headers
               /\ Issued(walked'[i].payload, issued')
               /\ walked'[i].payload.id = walked'[1].payload.id + i - 1
    <3>1. CASE i = n
      BY <1>5, <2>2, <2>4, <2>5, <2>6, <3>1
    <3>2. CASE i \in 1..Len(walked)
      <4>1. walked'[i] = walked[i] /\ walked'[1] = walked[1]
        BY <1>2, <2>4, <3>2
      <4> QED  BY <1>5, <3>2, <4>1 DEF IInv, Walked
    <3> QED  BY <1>2, <3>1, <3>2
  <2>8. SettlesSpeculation'
    <3> SUFFICES ASSUME NEW i \in 1..n, NEW j \in 1..n,
                        walked'[j].payload.confirms = Digest(walked'[i].payload)
                 PROVE  walked'[i].payload.speculative /\ ~walked'[j].payload.speculative
      BY <2>4 DEF SettlesSpeculation
    <3>1. i \in 1..(j - 1)
      <4> DEFINE x == walked'[i].payload
                 y == walked'[j].payload
      <4>1. /\ Issued(x, issued) /\ Issued(y, issued)
            /\ x.id = walked'[1].payload.id + i - 1
            /\ y.id = walked'[1].payload.id + j - 1
            /\ walked'[1].payload.id \in Int
            /\ y.confirms = Digest(x)
        <5>1. 1 \in 1..n
          BY <1>2
        <5>2. Issued(walked'[1].payload, issued) /\ Issued(x, issued) /\ Issued(y, issued)
          BY <1>1, <2>7, <5>1
        <5>3. walked'[1].payload.id \in Int
          BY <5>2 DEF Issued
        <5> QED
          BY <2>7, <5>2, <5>3
      <4> HIDE DEF x, y
      <4>2. /\ x.id \in 1..Len(issued) /\ y.id \in 1..Len(issued)
            /\ y = issued[y.id] /\ Len(issued) \in Nat
        BY <4>1, ListProperties DEF IInv, Chained, Issued
      <4>3. \/ y.confirms \in {<<>>, <<"unknown">>}
            \/ \E k \in 1..(y.id - 1) : y.confirms = Digest(issued[k])
        BY <4>2 DEF IInv, Chained
      <4>4. y.confirms # <<>> /\ y.confirms # <<"unknown">>
        BY <4>1, Digests, Zenon
      <4>5. PICK k \in 1..(y.id - 1) : y.confirms = Digest(issued[k])
        BY <4>3, <4>4, Zenon
      <4>6. issued[k] = x
        BY <4>1, <4>5, Digests, Zenon
      <4>7. issued[k].id = k
        BY <4>2 DEF IInv, Chained
      <4>8. x.id < y.id
        BY <4>2, <4>6, <4>7
      <4> QED  BY <1>2, <4>1, <4>8
    <3>2. i \in 1..Len(walked) /\ walked'[i] = walked[i]
      BY <1>2, <2>4, <3>1
    <3>3. CASE j \in 1..Len(walked)
      BY <2>4, <3>2, <3>3 DEF IInv, Walked, SettlesSpeculation
    <3>4. CASE j = n
      <4>1. i \in Named(rc)
        BY <2>4, <3>2, <3>4 DEF Named
      <4>2. PICK k \in Named(rc) : Confirmed(rc) = <<walked[k].payload>>
        BY <4>1 DEF Confirmed
      <4>3. walked[k].payload = walked[i].payload
        BY <4>1, <4>2, Digests DEF Named
      <4>4. ConfirmationLink(rc, Confirmed(rc)) # "failed"
        BY <1>10 DEF Valid
      <4>5. ~rc.speculative /\ walked[k].payload.speculative
        BY <4>2, <4>4 DEF ConfirmationLink, Judge, PassIf
      <4> QED  BY <2>4, <3>2, <3>4, <4>3, <4>5
    <3> QED  BY <1>2, <3>3, <3>4
  <2>9. Walked'
    BY <1>2, <2>1, <2>4, <2>7, <2>8 DEF Walked
  <2>10. Stopped'
    BY <2>1 DEF Stopped
  <2> QED  BY <1>4, <2>9, <2>10 DEF IInv
<1>11. CASE ~Valid(e)
  <2>1. walked' = walked /\ next' = next /\ refused' = <<e>>
    BY <1>1, <1>11
  <2>2. Walked'
    <3>1. SettlesSpeculation'
      BY <2>1 DEF IInv, Walked, SettlesSpeculation
    <3> QED  BY <1>5, <2>1, <3>1 DEF IInv, Walked
  <2>3. rc.id = 0 \/ (Issued(rc, issued) /\ Unfit(rc, walked))
    <3>1. CASE Altered(e)
      BY <3>1 DEF Altered
    <3>2. CASE Genuine(e, issued) /\ walked # <<>> /\ ~ChainLink(rc, last)
      BY <1>7, <3>2 DEF Genuine, Unfit
    <3>3. CASE Genuine(e, issued) /\ ConfirmationLink(rc, Confirmed(rc)) = "failed"
      <4>1. /\ Confirmed(rc) # <<>>
            /\ ~ (/\ rc.confirms # <<>> /\ ~rc.speculative
                  /\ Confirmed(rc)[1].speculative
                  /\ rc.confirms = Digest(Confirmed(rc)[1]))
        BY <3>3 DEF ConfirmationLink, Judge, PassIf
      <4>2. PICK k \in Named(rc) : Confirmed(rc) = <<walked[k].payload>>
        BY <4>1 DEF Confirmed
      <4>3. k \in 1..Len(walked) /\ rc.confirms = Digest(walked[k].payload)
        BY <4>2 DEF Named
      <4>4. rc.speculative \/ ~walked[k].payload.speculative
        BY <4>1, <4>2, <4>3, Digests
      <4> QED  BY <3>3, <4>3, <4>4 DEF Genuine, Unfit, MissettlesIn
    <3> QED  BY <1>3, <1>8, <1>9, <1>11, <3>1, <3>2, <3>3 DEF Entry, Valid, Genuine
  <2>4. Stopped'
    <3> HIDE DEF e
    <3>1. refused'[1] = e /\ refused' = <<refused'[1]>>
      BY <2>1
    <3> HIDE DEF rc
    <3>2. rc.id = 0 \/ (Issued(rc, issued') /\ Unfit(rc, walked'))
      BY <1>5, <2>1, <2>3
    <3>3. refused'[1].payload = rc
      BY <3>1 DEF rc
    <3> QED  BY <3>1, <3>2, <3>3 DEF Stopped
  <2> QED  BY <1>4, <2>2, <2>4 DEF IInv
<1> QED  BY <1>10, <1>11

\* Every step keeps the invariant.
LEMMA IInvariance ==
    ASSUME IInv, [Next]_vars
    PROVE  IInv'
<1>1. ASSUME NEW speculative \in BOOLEAN, NEW confirms \in Claims,
             Issue(speculative, confirms)
      PROVE  IInv'
    BY <1>1, IssueKeeps
<1>2. ASSUME NEW i \in 1..Len(log),
             \/ Lose(i) \/ Repeat(i) \/ Swap(i) \/ Alter(i)
             \/ \E h \in Headers : Reenvelope(i, h)
      PROVE  IInv'
  <2> DEFINE altered == [log[i] EXCEPT !.payload.id = 0, !.signature = <<"stale">>]
             wrapped(h) == [log[i] EXCEPT !.unprotected = h]
  <2>1. IsList(log) /\ Entry(log[i], issued)
    BY DEF IInv, Kept
  <2>2. CASE Lose(i)
    BY <2>1, <2>2, KeeperLists, ChangeKeeps DEF Lose
  <2>3. CASE Repeat(i)
    BY <2>1, <2>3, KeeperLists, ChangeKeeps DEF Repeat
  <2>4. CASE Swap(i)
    <3>1. [log EXCEPT ![i] = log[i + 1], ![i + 1] = log[i]]
             \in Seq(Elements(log) \cup {log[i]})
      BY <2>1, <2>4, SwapList, SeqMonotonic DEF Swap
    <3> QED  BY <2>1, <2>4, <3>1, ChangeKeeps DEF Swap
  <2>5. CASE Alter(i)
    <3>1. [log EXCEPT ![i] = altered] \in Seq(Elements(log) \cup {altered})
      BY <2>1, KeeperLists
    <3>2. Entry(altered, issued)
      BY <2>1, ChangedEntry
    <3> QED  BY <2>5, <3>1, <3>2, ChangeKeeps DEF Alter
  <2>6. ASSUME NEW h \in Headers, Reenvelope(i, h)  PROVE IInv'
    <3>1. [log EXCEPT ![i] = wrapped(h)] \in Seq(Elements(log) \cup {wrapped(h)})
      BY <2>1, KeeperLists
    <3>2. Entry(wrapped(h), issued)
      BY <2>1, ChangedEntry
    <3>3. Change([log EXCEPT ![i] = wrapped(h)])
      BY <2>6 DEF Reenvelope
    <3> QED  BY <3>1, <3>2, <3>3, ChangeKeeps
  <2> QED  BY <1>2, <2>2, <2>3, <2>4, <2>5, <2>6
<1>3. CASE ReadNext
    BY <1>3, ReadKeeps
<1>4. CASE UNCHANGED vars
    BY <1>4 DEF vars, IInv, Chained, Kept, Walked, Stopped, Entry, Genuine, Altered, Issued,
                Unfit, SettlesSpeculation
<1> QED  BY <1>1, <1>2, <1>3, <1>4 DEF Next

\* Every reachable state satisfies it.
THEOREM Invariance == Spec => []IInv
<1>1. Init => IInv
    BY Initially
<1>2. IInv /\ [Next]_vars => IInv'
    BY IInvariance
<1> QED  BY <1>1, <1>2, PTL DEF Spec

------------------------------------------------------------------------------
(* What follows from it.                                                    *)

\* TypeOK: the log stays within the bounds, and the auditor's position is the
\* number of entries it has accepted.
THEOREM TypeCorrect == Spec => []TypeOK
<1>1. IInv => TypeOK
  <2> SUFFICES ASSUME IInv  PROVE TypeOK
    OBVIOUS
  <2>1. Len(refused) <= 1
    <3>1. refused = <<>> \/ refused = <<refused[1]>>
      BY DEF IInv, Stopped
    <3>2. CASE refused = <<>>
      BY <3>2, EmptySeq
    <3>3. CASE refused = <<refused[1]>>
      <4>1. \A x : Len(<<x>>) = 1
        OBVIOUS
      <4>2. Len(refused) = 1
        BY <3>3, <4>1, Zenon
      <4> QED  BY <4>2
    <3> QED  BY <3>1, <3>2, <3>3
  <2> QED  BY <2>1 DEF IInv, Chained, Walked, TypeOK
<1> QED  BY <1>1, Invariance, PTL

\* StretchOfTheChain: what the auditor accepts is a stretch of what was issued, for
\* any number of receipts and of changes to the log.
THEOREM AuditedStretch == Spec => []StretchOfTheChain
<1>1. IInv => StretchOfTheChain
  <2> SUFFICES ASSUME IInv, walked # <<>>
               PROVE  \E k \in 1..Len(issued) :
                         /\ k + Len(walked) - 1 <= Len(issued)
                         /\ \A i \in 1..Len(walked) : walked[i].payload = issued[k + i - 1]
    BY DEF StretchOfTheChain
  <2> DEFINE k == walked[1].payload.id
  <2>1. /\ Len(walked) \in Nat /\ Len(walked) > 0 /\ Len(issued) \in Nat
    BY ListProperties DEF IInv, Walked, Chained
  <2>2. \A i \in 1..Len(walked) :
           /\ walked[i].payload.id \in 1..Len(issued)
           /\ walked[i].payload = issued[walked[i].payload.id]
           /\ walked[i].payload.id = k + i - 1
    BY DEF IInv, Walked, Issued
  <2>3. k \in 1..Len(issued)
    BY <2>1, <2>2
  <2>4. k + Len(walked) - 1 <= Len(issued)
    <3>1. Len(walked) \in 1..Len(walked)
      BY <2>1
    <3>2. k + Len(walked) - 1 \in 1..Len(issued)
      BY <2>2, <3>1
    <3> QED  BY <2>1, <3>2
  <2> HIDE DEF k
  <2>5. \A i \in 1..Len(walked) : walked[i].payload = issued[k + i - 1]
    BY <2>2
  <2> QED  BY <2>3, <2>4, <2>5
<1> QED  BY <1>1, Invariance, PTL

\* SettlesSpeculation: among the receipts accepted, what is settled is speculative
\* and what settles it is not.
THEOREM SettledAreSpeculative == Spec => []SettlesSpeculation
<1>1. IInv => SettlesSpeculation
    BY DEF IInv, Walked
<1> QED  BY <1>1, Invariance, PTL

\* RefusedForCause: an entry is refused for a reason found in what was issued, and
\* receipts issued after the refusal do not take the reason away.
THEOREM RefusesForCause == Spec => []RefusedForCause
<1>1. IInv => RefusedForCause
  <2> DEFINE rc == refused[1].payload
  <2> SUFFICES ASSUME IInv, refused # <<>>
               PROVE  \/ \A i \in 1..Len(issued) : issued[i] # rc
                      \/ walked # <<>> /\ ~Successive(Last(walked).payload, rc)
                      \/ Missettles(rc)
    BY DEF RefusedForCause
  <2>1. rc.id = 0 \/ (Issued(rc, issued) /\ Unfit(rc, walked))
    BY DEF IInv, Stopped
  <2> HIDE DEF rc
  <2>2. Len(issued) \in Nat /\ \A i \in 1..Len(issued) : issued[i].id = i
    BY ListProperties DEF IInv, Chained
  <2>3. CASE rc.id = 0
    BY <2>2, <2>3
  <2>4. CASE walked # <<>> /\ rc.id # Last(walked).payload.id + 1
    <3> DEFINE last == Last(walked).payload
    <3> SUFFICES ASSUME Successive(last, rc)  PROVE FALSE
      BY <2>4
    <3>1. PICK i \in 1..(Len(issued) - 1) : issued[i] = last /\ issued[i + 1] = rc
      BY DEF Successive
    <3>2. last.id = i /\ rc.id = i + 1
      BY <2>2, <3>1
    <3> QED  BY <2>4, <3>2
  <2> QED  BY <2>1, <2>3, <2>4 DEF Unfit, Missettles, MissettlesIn
<1> QED  BY <1>1, Invariance, PTL

------------------------------------------------------------------------------
(* The log nobody touched.                                                  *)

\* As long as the keeper changes nothing, the auditor accepts the receipts from the
\* first one on, and stops only at one that settles what it may not.
AcceptsUntouched ==
    changes = 0 =>
        /\ Len(walked) <= Len(issued)
        /\ \A i \in 1..Len(walked) : walked[i].payload = issued[i]
        /\ refused # <<>> => Missettles(refused[1].payload)

Untouched ==
    /\ changes = 0 =>
          Len(log) = Len(issued) /\ \A i \in 1..Len(log) : log[i].payload = issued[i]
    /\ AcceptsUntouched

\* AcceptsUntouched: Verify asks nothing of an honest log that it does not have.
THEOREM UntouchedLogAccepted == Spec => []AcceptsUntouched
<1>1. Init => Untouched
    BY EmptySeq DEF Init, Untouched, AcceptsUntouched
<1>2. IInv /\ IInv' /\ Untouched /\ [Next]_vars => Untouched'
  <2> SUFFICES ASSUME IInv, IInv', Untouched, [Next]_vars, changes' = 0
               PROVE  /\ Len(log') = Len(issued')
                      /\ \A i \in 1..Len(log') : log'[i].payload = issued'[i]
                      /\ Len(walked') <= Len(issued')
                      /\ \A i \in 1..Len(walked') : walked'[i].payload = issued'[i]
                      /\ refused' # <<>> => MissettlesIn(refused'[1].payload, walked')
    BY DEF Untouched, AcceptsUntouched, Missettles, MissettlesIn
  <2>1. ASSUME NEW changed, Change(changed)  PROVE FALSE
    BY <2>1 DEF Change, IInv
  <2>2. changes = 0
    BY <2>1 DEF Next, vars, Issue, ReadNext, Lose, Repeat, Swap, Alter, Reenvelope
  <2>3. /\ IsList(log) /\ IsList(issued) /\ IsList(walked)
        /\ Len(log) \in Nat /\ Len(issued) \in Nat /\ Len(walked) \in Nat
    BY ListProperties DEF IInv, Chained, Kept, Walked
  <2>4. /\ Len(log) = Len(issued)
        /\ \A i \in 1..Len(log) : log[i].payload = issued[i]
        /\ Len(walked) <= Len(issued)
        /\ \A i \in 1..Len(walked) : walked[i].payload = issued[i]
        /\ refused # <<>> => MissettlesIn(refused[1].payload, walked)
    BY <2>2 DEF Untouched, AcceptsUntouched, Missettles, MissettlesIn
  <2>5. ASSUME NEW speculative \in BOOLEAN, NEW confirms \in Claims,
               Issue(speculative, confirms)
        PROVE  /\ Len(log') = Len(issued')
               /\ \A i \in 1..Len(log') : log'[i].payload = issued'[i]
               /\ Len(walked') <= Len(issued')
               /\ \A i \in 1..Len(walked') : walked'[i].payload = issued'[i]
               /\ refused' # <<>> => MissettlesIn(refused'[1].payload, walked')
    <3>1. PICK rc : /\ issued' = Append(issued, rc) /\ log' = Append(log, Seal(rc))
                    /\ walked' = walked /\ refused' = refused
      BY <2>5 DEF Issue
    <3>2. /\ Len(issued') = Len(issued) + 1 /\ Len(log') = Len(log) + 1
          /\ \A i \in 1..Len(issued) : issued'[i] = issued[i]
          /\ \A i \in 1..Len(log) : log'[i] = log[i]
          /\ issued'[Len(issued) + 1] = rc /\ log'[Len(log) + 1] = Seal(rc)
      BY <2>3, <3>1, AppendList
    <3>3. log'[Len(log) + 1].payload = rc
      BY <3>2, SealGenuine
    <3>4. refused' # <<>> => MissettlesIn(refused'[1].payload, walked')
      BY <2>4, <3>1
    <3> QED  BY <2>3, <2>4, <3>1, <3>2, <3>3, <3>4
  <2>6. CASE ReadNext
    <3> DEFINE e == log[next]
               rc == e.payload
               n == Len(walked) + 1
    <3>1. /\ next <= Len(log) /\ next = n /\ UNCHANGED <<issued, log>>
          /\ \/ Valid(e) /\ walked' = Append(walked, e) /\ refused' = <<>>
             \/ ~Valid(e) /\ refused' = <<e>> /\ walked' = walked
      BY <2>6 DEF ReadNext, IInv, Walked
    <3>2. Entry(e, issued) /\ rc = issued[n] /\ rc.id = n /\ n \in 1..Len(issued)
      BY <2>3, <2>4, <3>1 DEF IInv, Kept, Chained
    <3> HIDE DEF e
    <3>3. CASE Valid(e)
      <4>1. /\ walked' = Append(walked, e) /\ refused' = <<>>
            /\ Len(walked') = n
            /\ \A i \in 1..Len(walked) : walked'[i] = walked[i]
            /\ walked'[n] = e
        BY <2>3, <3>1, <3>3, AppendList
      <4> QED  BY <2>3, <2>4, <3>1, <3>2, <4>1
    <3>4. CASE ~Valid(e)
      <4>1. refused' = <<e>> /\ walked' = walked
        BY <3>1, <3>4
      <4>2. refused'[1].payload = rc
        BY <4>1
      <4>3. rc.id # 0 /\ Issued(rc, issued) /\ Unfit(rc, walked)
        <5>1. rc.id # 0
          BY <2>3, <3>2
        <5>2. rc.id = 0 \/ (Issued(rc, issued') /\ Unfit(rc, walked'))
          <6>1. refused' # <<>>
            BY <4>1
          <6> HIDE DEF rc
          <6> QED  BY <4>2, <6>1 DEF IInv, Stopped
        <5> QED  BY <3>1, <4>1, <5>1, <5>2
      <4>4. walked # <<>> => rc.id = Last(walked).payload.id + 1
        <5> SUFFICES ASSUME walked # <<>>  PROVE rc.id = Last(walked).payload.id + 1
          OBVIOUS
        <5>1. Len(walked) \in 1..Len(walked) /\ Len(walked) \in 1..Len(issued)
          BY <2>3, <2>4, ListProperties
        <5>2. Last(walked).payload.id = Len(walked)
          BY <2>4, <5>1 DEF Last, IInv, Chained
        <5> QED  BY <3>2, <5>2
      <4>5. MissettlesIn(rc, walked)
        <5> HIDE DEF rc
        <5> QED  BY <4>3, <4>4 DEF Unfit
      <4>6. MissettlesIn(refused'[1].payload, walked')
        <5> HIDE DEF rc
        <5> QED  BY <4>1, <4>2, <4>5
      <4> QED  BY <2>4, <3>1, <4>1, <4>6
    <3> QED  BY <3>3, <3>4
  <2>7. CASE UNCHANGED vars
    BY <2>4, <2>7 DEF vars
  <2> QED  BY <2>1, <2>5, <2>6, <2>7
           DEF Next, Lose, Repeat, Swap, Alter, Reenvelope
<1>3. Untouched => AcceptsUntouched
    BY DEF Untouched
<1> QED  BY <1>1, <1>2, <1>3, Invariance, PTL DEF Spec
=============================================================================
