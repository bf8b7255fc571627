-------------------------- MODULE ProvenanceProofs --------------------------
(***************************************************************************)
(* ReconstructProvenance implements its abstract specification for any     *)
(* number of receipts: it accepts exactly when they form one path, and     *)
(* then answers that path.                                                 *)
(*                                                                         *)
(* Soundness: the walk goes from the one root along unique children, so    *)
(* what it has passed is a path of distinct receipts; that it is all of    *)
(* them follows from their number. Completeness: along a path every loop   *)
(* passes its test, and the walk can only follow the path (Follows).       *)
(*                                                                         *)
(* Last, the walk is a loop without a condition: it runs out because the   *)
(* receipts it passes are distinct.                                        *)
(***************************************************************************)
EXTENDS Provenance, FiniteSetTheorems, TLAPS

Size == Len(receipts)

DigestOf(k) == receipts[k].commitment_digest

\* The receipts before position i, told apart by digest and sorted into roots.
Indexed ==
    /\ byDigest = {DigestOf(k) : k \in 1..(i-1)}
    /\ \A k \in 1..(i-1) : DigestOf(k) # <<>>
    /\ \A k, l \in 1..(i-1) : DigestOf(k) = DigestOf(l) => k = l
    /\ Len(roots) \in Nat
    /\ \A m \in 1..Len(roots) : roots[m] \in 1..(i-1) /\ IsRoot(receipts[roots[m]])
    /\ \A k \in 1..(i-1) : IsRoot(receipts[k]) => \E m \in 1..Len(roots) : roots[m] = k
    /\ \A k, m \in 1..Len(roots) : k < m => roots[k] < roots[m]

AfterIndex == {"resolve", "walk", "count", "accepted"}

\* What the walk has passed.
Walked ==
    /\ visited = {DigestOf(links[k]) : k \in 1..Len(links)}
    /\ \A k, l \in 1..Len(links) : links[k] = links[l] => k = l
    /\ Len(links) > 0 => links[1] = roots[1]
    /\ \A k \in 1..(Len(links) - 1) : PointsAt(receipts[links[k+1]], receipts[links[k]])

\* Where the walk stands.
Standing ==
    /\ pc \in {"resolve", "walk"} /\ Len(links) = 0 => cur = roots[1]
    /\ pc = "walk" /\ Len(links) > 0 => cur \in childOf(links[Len(links)])
    /\ pc = "count" => Len(links) > 0 /\ childOf(links[Len(links)]) = {}

\* On the receipts of a path the walk follows the path.
Follows ==
    \A p \in Path!Paths(receipts) : Path!SinglePath(receipts, p) =>
        Len(links) <= Size /\ \A k \in 1..Len(links) : links[k] = p[k]

IInv ==
    /\ TypeOK
    /\ receipts \in Presentations
    /\ pc \notin {"start", "rejected"} => Size > 0
    /\ pc \in {"start", "index", "resolve"} => links = <<>> /\ visited = {}
    /\ Indexed
    /\ pc \in AfterIndex => i = Size + 1 /\ Len(roots) = 1
    /\ pc \in AfterIndex => Walked /\ Standing /\ Follows
    /\ pc = "accepted" => Len(links) = Size
    /\ fault # "cycle"

------------------------------------------------------------------------------
(* Facts about paths and children.                                          *)

\* Whoever points at an identified receipt is no root.
LEMMA PointersDerive ==
    ASSUME NEW r, NEW q, PointsAt(r, q), q.commitment_digest # <<>>
    PROVE  ~IsRoot(r)
  BY DEF PointsAt, IsRoot

\* On a path, the only receipt that points at p[k] is p[k+1].
LEMMA PathChild ==
    ASSUME Size \in Nat, NEW p, Path!SinglePath(receipts, p),
           NEW k \in 1..Size, NEW c \in 1..Size, PointsAt(receipts[c], receipts[p[k]])
    PROVE  k < Size /\ c = p[k+1]
  <1>1. /\ p \in [1..Size -> 1..Size]
        /\ \A a \in 1..Size : DigestOf(a) # <<>>
        /\ \A a, b \in 1..Size : DigestOf(a) = DigestOf(b) => a = b
        /\ \A a, b \in 1..Size : p[a] = p[b] => a = b
        /\ \A a \in 1..Size : \E b \in 1..Size : p[b] = a
        /\ IsRoot(receipts[p[1]])
        /\ \A a \in 1..(Size - 1) : PointsAt(receipts[p[a+1]], receipts[p[a]])
    BY DEF Path!SinglePath, Path!Identified, Path!IsPath, Path!IsRoot, IsRoot,
           Path!DerivesFrom, PointsAt, DigestOf, Size
  <1>2. PICK b \in 1..Size : p[b] = c
    BY <1>1
  <1>3. ~IsRoot(receipts[c])
    <2>1. p[k] \in 1..Size /\ DigestOf(p[k]) # <<>>
      BY <1>1
    <2> QED
      BY <2>1, PointersDerive DEF DigestOf
  <1>4. b # 1
    BY <1>1, <1>2, <1>3
  <1>5. b - 1 \in 1..Size /\ b - 1 \in 1..(Size - 1) /\ (b - 1) + 1 = b
    BY <1>4
  <1>6. PointsAt(receipts[c], receipts[p[b-1]])
    BY <1>1, <1>2, <1>5
  <1>7. DigestOf(p[b-1]) = DigestOf(p[k])
    BY <1>6 DEF PointsAt, DigestOf
  <1>8. p[b-1] \in 1..Size /\ p[k] \in 1..Size
    BY <1>1, <1>5
  <1>9. b - 1 = k
    BY <1>1, <1>5, <1>7, <1>8
  <1> QED
    BY <1>2, <1>5, <1>9

\* The unique child of a receipt points at it and is one of the receipts.
LEMMA ChildPoints ==
    ASSUME NEW q, NEW c \in childOf(q)
    PROVE  c \in 1..Size /\ PointsAt(receipts[c], receipts[q])
  BY DEF childOf, Size

\* The walk never meets a digest again.
LEMMA NoCycle ==
    ASSUME IInv, pc = "walk"
    PROVE  DigestOf(cur) \notin visited
  <1> SUFFICES ASSUME DigestOf(cur) \in visited PROVE FALSE
    OBVIOUS
  <1>1. /\ Size \in Nat /\ links \in Seq(1..Size) /\ cur \in 1..Size /\ i = Size + 1
        /\ Indexed /\ Walked /\ Standing /\ Len(links) \in Nat
    BY PresentationsAssumption DEF IInv, TypeOK, AfterIndex, Size
  <1>2. /\ \A a \in 1..Size : DigestOf(a) # <<>>
        /\ \A a, b \in 1..Size : DigestOf(a) = DigestOf(b) => a = b
    BY <1>1 DEF Indexed
  <1>3. PICK k \in 1..Len(links) : DigestOf(links[k]) = DigestOf(cur)
    BY <1>1 DEF Walked
  <1>4. \A m \in 1..Len(links) : links[m] \in 1..Size
    BY <1>1
  <1>5. links[k] = cur
    BY <1>1, <1>2, <1>3, <1>4
  <1> DEFINE last == Len(links)
  <1>6. last > 0 /\ last \in 1..Len(links) /\ cur \in childOf(links[last])
    BY <1>1, <1>3 DEF Standing
  <1>7. PointsAt(receipts[cur], receipts[links[last]])
    BY <1>6, ChildPoints
  <1>8. ~IsRoot(receipts[cur])
    <2>1. receipts[links[last]].commitment_digest # <<>>
      BY <1>2, <1>4, <1>6 DEF DigestOf
    <2> QED
      BY <1>7, <2>1, PointersDerive
  <1>9. CASE k = 1
    <2>1. links[1] = roots[1] /\ Len(roots) = 1
      BY <1>1, <1>6 DEF Walked, IInv, AfterIndex
    <2>2. IsRoot(receipts[roots[1]])
      BY <1>1, <2>1 DEF Indexed
    <2> QED
      BY <1>5, <1>8, <1>9, <2>1, <2>2
  <1>10. CASE k # 1
    <2>1. k - 1 \in 1..(Len(links) - 1) /\ (k - 1) + 1 = k /\ k - 1 \in 1..Len(links)
      BY <1>1, <1>3, <1>10
    <2>2. PointsAt(receipts[links[k]], receipts[links[k-1]])
      BY <1>1, <2>1 DEF Walked
    <2>3. DigestOf(links[k-1]) = DigestOf(links[last])
      BY <1>5, <1>7, <2>2 DEF PointsAt, DigestOf
    <2>4. links[k-1] = links[last]
      BY <1>2, <1>4, <1>6, <2>1, <2>3
    <2>5. k - 1 = last
      BY <1>1, <1>6, <2>1, <2>4 DEF Walked
    <2> QED
      BY <1>1, <1>3, <2>5
  <1> QED
    BY <1>9, <1>10

------------------------------------------------------------------------------
(* The invariant is kept.                                                   *)

LEMMA Starts == Init => IInv
  <1> SUFFICES ASSUME Init PROVE IInv
    OBVIOUS
  <1>1. TypeOK
    BY PresentationsAssumption DEF Init, TypeOK
  <1>2. Indexed
    BY DEF Init, Indexed
  <1> QED
    BY <1>1, <1>2 DEF Init, IInv, AfterIndex, NoFault

LEMMA Bounds ==
    ASSUME IInv
    PROVE  /\ Size \in Nat /\ i \in Nat \ {0} /\ links \in Seq(1..Size)
           /\ Len(links) \in Nat /\ \A m \in 1..Len(links) : links[m] \in 1..Size
  BY PresentationsAssumption DEF IInv, TypeOK, Size

\* A refusal changes nothing the invariant speaks of but pc and fault.
LEMMA RejectStep ==
    ASSUME IInv, NEW what, Reject(what), what # NoFault, what # "cycle"
    PROVE  IInv'
  <1>1. TypeOK'
    BY DEF Reject, IInv, TypeOK
  <1>2. Indexed'
    BY DEF Reject, IInv, Indexed, DigestOf
  <1> QED
    BY <1>1, <1>2 DEF Reject, IInv, AfterIndex, Size

LEMMA StartStep == ASSUME IInv, Start PROVE IInv'
  <1>1. CASE Len(receipts) = 0
    <2>1. Reject("no receipts")
      BY <1>1 DEF Start
    <2> QED
      BY <2>1, RejectStep DEF NoFault
  <1>2. CASE Len(receipts) # 0
    <2>1. /\ pc' = "index"
          /\ UNCHANGED <<receipts, i, byDigest, roots, cur, visited, links, fault>>
      BY <1>2 DEF Start
    <2>2. TypeOK'
      BY <2>1 DEF IInv, TypeOK, Start
    <2>3. Indexed'
      BY <2>1 DEF IInv, Indexed, DigestOf
    <2> QED
      BY <1>2, <2>1, <2>2, <2>3, Bounds DEF IInv, AfterIndex, Size, Start
  <1> QED
    BY <1>1, <1>2

LEMMA IndexStep == ASSUME IInv, Index PROVE IInv'
  <1> DEFINE r == receipts[i]
  <1>1. CASE r.commitment_digest = <<>>
    <2>1. Reject("no commitment digest")
      BY <1>1 DEF Index
    <2> QED
      BY <2>1, RejectStep DEF NoFault
  <1>2. CASE r.commitment_digest # <<>> /\ r.commitment_digest \in byDigest
    <2>1. Reject("shared commitment digest")
      BY <1>2 DEF Index
    <2> QED
      BY <2>1, RejectStep DEF NoFault
  <1>3. CASE r.commitment_digest # <<>> /\ r.commitment_digest \notin byDigest
    <2>1. /\ byDigest' = byDigest \cup {DigestOf(i)}
          /\ roots' = IF IsRoot(receipts[i]) THEN Append(roots, i) ELSE roots
          /\ i' = i + 1
          /\ UNCHANGED <<receipts, pc, cur, visited, links, fault>>
          /\ pc = "index" /\ i <= Size
      BY <1>3 DEF Index, DigestOf, Size
    <2>2. /\ Size \in Nat /\ i \in 1..Size /\ i' - 1 = i /\ i' \in 1..(Size + 1)
          /\ 1..(i' - 1) = (1..(i-1)) \cup {i}
      BY <2>1, Bounds
    <2>3. TypeOK'
      <3>1. i' \in 1..(Len(receipts') + 1)
        BY <2>1, <2>2 DEF Size
      <3>2. byDigest' \subseteq {receipts'[k].commitment_digest : k \in 1..Len(receipts')}
        BY <2>1, <2>2 DEF IInv, TypeOK, DigestOf, Size
      <3> QED
        BY <2>1, <3>1, <3>2 DEF IInv, TypeOK
    <2>4. Indexed'
      <3>1. Indexed /\ DigestOf(i) # <<>> /\ DigestOf(i) \notin byDigest
        BY <1>3 DEF IInv, DigestOf
      <3>2. byDigest' = {DigestOf(k) : k \in 1..(i'-1)}
        BY <2>1, <2>2, <3>1 DEF Indexed
      <3>3. \A k \in 1..(i'-1) : DigestOf(k) # <<>>
        BY <2>2, <3>1 DEF Indexed
      <3>4. \A k, l \in 1..(i'-1) : DigestOf(k) = DigestOf(l) => k = l
        BY <2>2, <3>1 DEF Indexed
      <3>5. /\ Len(roots') \in Nat
            /\ \A m \in 1..Len(roots') : roots'[m] \in 1..(i'-1) /\ IsRoot(receipts[roots'[m]])
            /\ \A k \in 1..(i'-1) : IsRoot(receipts[k]) => \E m \in 1..Len(roots') : roots'[m] = k
            /\ \A k, m \in 1..Len(roots') : k < m => roots'[k] < roots'[m]
        <4>1. CASE ~IsRoot(receipts[i])
          <5>1. roots' = roots
            BY <2>1, <4>1
          <5> QED
            BY <2>2, <3>1, <4>1, <5>1 DEF Indexed
        <4>2. CASE IsRoot(receipts[i])
          <5>1. roots' = Append(roots, i)
            BY <2>1, <4>2
          <5>2. /\ Len(roots') = Len(roots) + 1 /\ roots'[Len(roots) + 1] = i
                /\ \A m \in 1..Len(roots) : roots'[m] = roots[m]
                /\ Len(roots) \in Nat
            BY <3>1, <5>1 DEF Indexed
          <5>3. \A m \in 1..Len(roots) :
                  roots[m] \in 1..(i-1) /\ IsRoot(receipts[roots[m]])
            BY <3>1 DEF Indexed
          <5>4. \A m \in 1..Len(roots') : roots'[m] \in 1..(i'-1) /\ IsRoot(receipts[roots'[m]])
            BY <2>2, <4>2, <5>2, <5>3
          <5>5. \A k \in 1..(i'-1) :
                  IsRoot(receipts[k]) => \E m \in 1..Len(roots') : roots'[m] = k
            <6> SUFFICES ASSUME NEW k \in 1..(i'-1), IsRoot(receipts[k])
                         PROVE  \E m \in 1..Len(roots') : roots'[m] = k
              OBVIOUS
            <6>1. CASE k = i
              BY <5>2, <6>1
            <6>2. CASE k # i
              <7>1. k \in 1..(i-1)
                BY <2>2, <6>2
              <7>2. PICK m \in 1..Len(roots) : roots[m] = k
                BY <3>1, <7>1 DEF Indexed
              <7> QED
                BY <5>2, <7>2
            <6> QED
              BY <6>1, <6>2
          <5>6. \A k, m \in 1..Len(roots') : k < m => roots'[k] < roots'[m]
            <6> SUFFICES ASSUME NEW k \in 1..Len(roots'), NEW m \in 1..Len(roots'), k < m
                         PROVE  roots'[k] < roots'[m]
              OBVIOUS
            <6>1. k \in 1..Len(roots) /\ roots'[k] = roots[k] /\ roots[k] \in 1..(i-1)
              BY <5>2, <5>3
            <6>2. CASE m = Len(roots) + 1
              BY <2>2, <5>2, <6>1, <6>2
            <6>3. CASE m # Len(roots) + 1
              <7>1. m \in 1..Len(roots) /\ roots'[m] = roots[m]
                BY <5>2, <6>3
              <7> QED
                BY <3>1, <6>1, <7>1 DEF Indexed
            <6> QED
              BY <6>2, <6>3
          <5> QED
            BY <5>2, <5>4, <5>5, <5>6
        <4> QED
          BY <4>1, <4>2
      <3>6. receipts' = receipts
        BY <2>1
      <3> QED
        BY <3>2, <3>3, <3>4, <3>5, <3>6 DEF Indexed, DigestOf
    <2> QED
      BY <2>1, <2>3, <2>4 DEF IInv, AfterIndex, Size
  <1> QED
    BY <1>1, <1>2, <1>3

LEMMA OneRootStep == ASSUME IInv, OneRoot PROVE IInv'
  <1>1. CASE Len(roots) # 1
    <2>1. Reject("not one root")
      BY <1>1 DEF OneRoot
    <2> QED
      BY <2>1, RejectStep DEF NoFault
  <1>2. CASE Len(roots) = 1
    <2>1. /\ pc = "index" /\ i > Size /\ pc' = "resolve" /\ cur' = roots[1]
          /\ UNCHANGED <<receipts, i, byDigest, roots, visited, links, fault>>
      BY <1>2 DEF OneRoot, Size
    <2>2. i = Size + 1 /\ Size > 0 /\ links = <<>> /\ visited = {} /\ Size \in Nat
      <3>1. i \in 1..(Size + 1)
        BY DEF IInv, TypeOK, Size
      <3> QED
        BY <2>1, <3>1, Bounds DEF IInv
    <2>3. roots[1] \in 1..Size
      BY <1>2, <2>2 DEF IInv, Indexed
    <2>4. TypeOK'
      BY <2>1, <2>3 DEF IInv, TypeOK, Size
    <2>5. Indexed'
      BY <2>1 DEF IInv, Indexed, DigestOf
    <2>6. Walked'
      BY <2>1, <2>2 DEF Walked
    <2>7. Standing'
      BY <2>1, <2>2 DEF Standing
    <2>8. Follows'
      BY <2>1, <2>2 DEF Follows, Size
    <2>9. Size' = Size
      BY <2>1 DEF Size
    <2> QED
      BY <1>2, <2>1, <2>2, <2>4, <2>5, <2>6, <2>7, <2>8, <2>9 DEF IInv, AfterIndex
  <1> QED
    BY <1>1, <1>2

LEMMA ResolveStep == ASSUME IInv, Resolve PROVE IInv'
  <1> DEFINE Broken == \E k \in 1..Len(receipts) :
             /\ ~IsRoot(receipts[k])
             /\ receipts[k].provenance[1].parent_commitment_digest \notin byDigest
  <1>1. CASE Broken
    <2>1. Reject("broken link")
      BY <1>1 DEF Resolve
    <2> QED
      BY <2>1, RejectStep DEF NoFault
  <1>2. CASE ~Broken
    <2>1. /\ pc = "resolve" /\ pc' = "walk"
          /\ UNCHANGED <<receipts, i, byDigest, roots, cur, visited, links, fault>>
      BY <1>2 DEF Resolve
    <2>2. links = <<>> /\ Len(roots) = 1 /\ cur \in 1..Size
      BY <2>1 DEF IInv, TypeOK, AfterIndex, Size
    <2>3. TypeOK'
      BY <2>1 DEF IInv, TypeOK
    <2>4. Indexed'
      BY <2>1 DEF IInv, Indexed, DigestOf
    <2>5. Walked'
      BY <2>1 DEF IInv, AfterIndex, Walked, DigestOf, PointsAt
    <2>6. Standing'
      BY <2>1, <2>2 DEF IInv, AfterIndex, Standing
    <2>7. Follows'
      BY <2>1 DEF IInv, AfterIndex, Follows, Size
    <2>8. Size' = Size
      BY <2>1 DEF Size
    <2> QED
      BY <2>1, <2>3, <2>4, <2>5, <2>6, <2>7, <2>8 DEF IInv, AfterIndex
  <1> QED
    BY <1>1, <1>2

LEMMA WalkStep == ASSUME IInv, Walk PROVE IInv'
  <1> DEFINE n == Len(links)
  <1>1. DigestOf(cur) \notin visited
    BY NoCycle DEF Walk
  <1>2. /\ pc = "walk"
        /\ visited' = visited \cup {DigestOf(cur)}
        /\ links' = Append(links, cur)
        /\ UNCHANGED <<receipts, i, byDigest, roots, fault>>
    BY <1>1 DEF Walk, DigestOf
  <1>3. \/ childOf(cur) = {} /\ pc' = "count" /\ cur' = cur
        \/ cur' \in childOf(cur) /\ pc' = "walk"
    BY <1>1 DEF Walk, DigestOf
  <1>4. /\ Size \in Nat /\ Size > 0 /\ i = Size + 1 /\ cur \in 1..Size
        /\ Len(roots) = 1 /\ Indexed /\ Walked /\ Standing /\ Follows /\ TypeOK
    BY <1>2, Bounds DEF IInv, TypeOK, AfterIndex, Size
  <1>5. links \in Seq(1..Size) /\ n \in Nat /\ \A m \in 1..n : links[m] \in 1..Size
    BY Bounds
  <1>6. /\ Len(links') = n + 1 /\ links'[n+1] = cur /\ links' \in Seq(1..Size)
        /\ \A m \in 1..n : links'[m] = links[m]
    BY <1>2, <1>4, <1>5
  <1>7. n > 0 => n \in 1..n /\ cur \in childOf(links[n])
    BY <1>2, <1>4, <1>5 DEF Standing
  <1>8. cur' \in 1..Size
    BY <1>3, <1>4, ChildPoints
  <1> HIDE DEF n
  <1>9. TypeOK'
    <2>1. visited' \subseteq byDigest'
      <3>1. DigestOf(cur) \in byDigest
        BY <1>4 DEF Indexed
      <3> QED
        BY <1>2, <1>4, <3>1 DEF TypeOK
    <2>2. pc' \in {"walk", "count"}
      BY <1>3
    <2>3. receipts' = receipts /\ Size' = Size
      BY <1>2 DEF Size
    <2> QED
      BY <1>2, <1>4, <1>6, <1>8, <2>1, <2>2, <2>3 DEF TypeOK, Size
  <1>10. Indexed'
    BY <1>2, <1>4 DEF Indexed, DigestOf
  <1>11. Walked'
    <2>1. visited' = {DigestOf(links'[k]) : k \in 1..Len(links')}
      <3>1. visited = {DigestOf(links[k]) : k \in 1..n}
        BY <1>4 DEF Walked, n
      <3>2. 1..(n+1) = (1..n) \cup {n+1}
        BY <1>5
      <3>3. {DigestOf(links'[k]) : k \in 1..(n+1)}
              = {DigestOf(links'[k]) : k \in 1..n} \cup {DigestOf(links'[n+1])}
        BY <3>2
      <3>4. {DigestOf(links'[k]) : k \in 1..n} = {DigestOf(links[k]) : k \in 1..n}
        BY <1>6
      <3> QED
        BY <1>2, <1>6, <3>1, <3>3, <3>4
    <2>2. \A k \in 1..n : links[k] # cur
      BY <1>1, <1>4 DEF Walked, n
    <2>3. \A k, l \in 1..Len(links') : links'[k] = links'[l] => k = l
      <3> SUFFICES ASSUME NEW k \in 1..(n+1), NEW l \in 1..(n+1), links'[k] = links'[l]
                   PROVE  k = l
        BY <1>6
      <3>1. \A a, b \in 1..n : links[a] = links[b] => a = b
        BY <1>4 DEF Walked, n
      <3>2. CASE k \in 1..n /\ l \in 1..n
        BY <1>6, <3>1, <3>2
      <3>3. CASE k \in 1..n /\ l = n + 1
        BY <1>6, <2>2, <3>3
      <3>4. CASE l \in 1..n /\ k = n + 1
        BY <1>6, <2>2, <3>4
      <3>5. k \in 1..n \/ k = n + 1
        BY <1>5
      <3>6. l \in 1..n \/ l = n + 1
        BY <1>5
      <3> QED
        BY <3>2, <3>3, <3>4, <3>5, <3>6
    <2>4. links'[1] = roots[1]
      <3>1. CASE n = 0
        BY <1>2, <1>4, <1>6, <3>1 DEF Standing, n
      <3>2. CASE n # 0
        <4>1. n > 0 /\ 1 \in 1..n
          BY <1>5, <3>2
        <4> QED
          BY <1>4, <1>6, <4>1 DEF Walked, n
      <3> QED
        BY <3>1, <3>2
    <2>5. \A k \in 1..(Len(links') - 1) : PointsAt(receipts[links'[k+1]], receipts[links'[k]])
      <3> SUFFICES ASSUME NEW k \in 1..n
                   PROVE  PointsAt(receipts[links'[k+1]], receipts[links'[k]])
        BY <1>5, <1>6
      <3>1. CASE k = n
        BY <1>5, <1>6, <1>7, <3>1, ChildPoints
      <3>2. CASE k # n
        <4>1. k \in 1..(n-1) /\ k + 1 \in 1..n
          BY <1>5, <3>2
        <4>2. PointsAt(receipts[links[k+1]], receipts[links[k]])
          BY <1>4, <4>1 DEF Walked, n
        <4> QED
          BY <1>6, <4>1, <4>2
      <3> QED
        BY <3>1, <3>2
    <2>6. receipts' = receipts /\ roots' = roots
      BY <1>2
    <2> QED
      BY <2>1, <2>3, <2>4, <2>5, <2>6 DEF Walked, DigestOf, PointsAt
  <1>12. Standing'
    <2>1. links'[Len(links')] = cur /\ Len(links') > 0 /\ Len(links') # 0
      BY <1>5, <1>6
    <2>2. childOf(links[Len(links)])' = childOf(cur)
      BY <1>2, <2>1 DEF childOf
    <2> QED
      BY <1>3, <2>1, <2>2 DEF Standing
  <1>13. Follows'
    <2> SUFFICES ASSUME NEW p \in Path!Paths(receipts), Path!SinglePath(receipts, p)
                 PROVE  n + 1 <= Size /\ \A k \in 1..(n+1) : links'[k] = p[k]
      BY <1>2, <1>6 DEF Follows, Size
    <2>1. n <= Size /\ \A k \in 1..n : links[k] = p[k]
      BY <1>4 DEF Follows, n
    <2>2. n + 1 <= Size /\ cur = p[n+1]
      <3>1. CASE n = 0
        <4>1. cur = roots[1]
          BY <1>2, <1>4, <3>1 DEF Standing, n
        <4>2. p[1] \in 1..Size /\ IsRoot(receipts[p[1]])
          <5>1. p \in [1..Size -> 1..Size] /\ Path!IsRoot(receipts[p[1]])
            BY DEF Path!SinglePath, Path!IsPath, Size
          <5> QED
            BY <1>4, <5>1 DEF Path!IsRoot, IsRoot
        <4>3. \E m \in 1..Len(roots) : roots[m] = p[1]
          BY <1>4, <4>2 DEF Indexed
        <4> QED
          BY <1>4, <3>1, <4>1, <4>3
      <3>2. CASE n # 0
        <4>1. n \in 1..Size /\ n \in 1..n /\ links[n] = p[n]
          BY <1>4, <1>5, <2>1, <3>2
        <4>2. PointsAt(receipts[cur], receipts[p[n]])
          BY <1>5, <1>7, <3>2, <4>1, ChildPoints
        <4>3. n < Size /\ cur = p[n+1]
          BY <1>4, <4>1, <4>2, PathChild
        <4> QED
          BY <1>4, <1>5, <4>3
      <3> QED
        BY <3>1, <3>2
    <2> QED
      BY <1>5, <1>6, <2>1, <2>2
  <1>14. Size' = Size
    BY <1>2 DEF Size
  <1> QED
    BY <1>2, <1>3, <1>4, <1>9, <1>10, <1>11, <1>12, <1>13, <1>14 DEF IInv, AfterIndex

LEMMA CountStep == ASSUME IInv, Count PROVE IInv'
  <1>1. CASE Len(links) # Size
    <2>1. Reject("not a single chain")
      BY <1>1 DEF Count, Size
    <2> QED
      BY <2>1, RejectStep DEF NoFault
  <1>2. CASE Len(links) = Size
    <2>1. /\ pc = "count" /\ pc' = "accepted"
          /\ UNCHANGED <<receipts, i, byDigest, roots, cur, visited, links, fault>>
      BY <1>2 DEF Count, Size
    <2>2. TypeOK'
      BY <2>1 DEF IInv, TypeOK
    <2>3. Indexed'
      BY <2>1 DEF IInv, Indexed, DigestOf
    <2>4. Walked'
      <3>1. Walked
        BY <2>1 DEF IInv, AfterIndex
      <3> QED
        BY <2>1, <3>1 DEF Walked, DigestOf, PointsAt
    <2>5. Standing'
      BY <2>1 DEF Standing
    <2>6. Follows'
      BY <2>1 DEF IInv, AfterIndex, Follows, Size
    <2>7. Size' = Size
      BY <2>1 DEF Size
    <2> QED
      BY <1>2, <2>1, <2>2, <2>3, <2>4, <2>5, <2>6, <2>7 DEF IInv, AfterIndex
  <1> QED
    BY <1>1, <1>2

LEMMA Inductive == IInv /\ [Next]_vars => IInv'
  <1> SUFFICES ASSUME IInv, [Next]_vars PROVE IInv'
    OBVIOUS
  <1>1. CASE UNCHANGED vars
    <2>1. TypeOK'
      BY <1>1 DEF IInv, TypeOK, vars
    <2>2. Indexed'
      BY <1>1 DEF IInv, Indexed, DigestOf, vars
    <2>3. Size' = Size /\ pc' = pc /\ fault' = fault
      BY <1>1 DEF Size, vars
    <2>4. pc \in AfterIndex => Walked' /\ Standing' /\ Follows'
      BY <1>1 DEF IInv, Walked, Standing, Follows, DigestOf, PointsAt, childOf, Size, vars
    <2> QED
      BY <1>1, <2>1, <2>2, <2>3, <2>4 DEF IInv, AfterIndex, vars
  <1> QED
    BY <1>1, StartStep, IndexStep, OneRootStep, ResolveStep, WalkStep, CountStep DEF Next

------------------------------------------------------------------------------
(* Both verdicts are right.                                                 *)

\* What it means for the receipts to form the path p.
OnPath(p) ==
    /\ Size > 0
    /\ p \in [1..Size -> 1..Size]
    /\ \A a \in 1..Size : DigestOf(a) # <<>>
    /\ \A a, b \in 1..Size : DigestOf(a) = DigestOf(b) => a = b
    /\ \A a \in 1..Size : \E b \in 1..Size : p[b] = a
    /\ IsRoot(receipts[p[1]])
    /\ \A a \in 1..(Size - 1) :
          ~IsRoot(receipts[p[a+1]]) /\ PointsAt(receipts[p[a+1]], receipts[p[a]])

LEMMA PathFacts ==
    ASSUME NEW p, Path!SinglePath(receipts, p)
    PROVE  OnPath(p)
  BY DEF OnPath, Path!SinglePath, Path!Identified, Path!IsPath, Path!IsRoot, IsRoot,
         Path!DerivesFrom, PointsAt, DigestOf, Size

\* Distinct receipts as many as there are receipts are all of them.
LEMMA AllReached ==
    ASSUME NEW n \in Nat, NEW f \in [1..n -> 1..n],
           \A k, l \in 1..n : f[k] = f[l] => k = l
    PROVE  \A a \in 1..n : \E b \in 1..n : f[b] = a
  <1>1. f \in Injection(1..n, 1..n)
    BY DEF Injection, IsInjective
  <1>2. IsFiniteSet(1..n)
    BY FS_Interval
  <1>3. f \in Surjection(1..n, 1..n)
    BY <1>1, <1>2, FS_Injection
  <1> QED
    BY <1>3 DEF Surjection

RightlyAccepted == pc = "accepted" => Path!SinglePath(receipts, links)

LEMMA AcceptedIsPath == IInv => RightlyAccepted
  <1> SUFFICES ASSUME IInv, pc = "accepted"
               PROVE  Path!SinglePath(receipts, links)
    BY DEF RightlyAccepted
  <1>1. /\ Size \in Nat /\ Size > 0 /\ Len(links) = Size /\ i = Size + 1
        /\ links \in Seq(1..Size) /\ Len(roots) = 1 /\ Indexed /\ Walked
    BY Bounds DEF IInv, AfterIndex
  <1>2. /\ \A a \in 1..Size : DigestOf(a) # <<>>
        /\ \A a, b \in 1..Size : DigestOf(a) = DigestOf(b) => a = b
    BY <1>1 DEF Indexed
  <1>3. links \in [1..Size -> 1..Size]
    BY <1>1
  <1>4. \A k, l \in 1..Size : links[k] = links[l] => k = l
    BY <1>1 DEF Walked
  <1>5. \A a \in 1..Size : \E b \in 1..Size : links[b] = a
    <2>1. Size \in Nat
      BY <1>1
    <2> QED
      BY <1>3, <1>4, <2>1, AllReached, Zenon
  <1>6. IsRoot(receipts[links[1]])
    <2>1. links[1] = roots[1]
      BY <1>1 DEF Walked
    <2>2. IsRoot(receipts[roots[1]])
      BY <1>1 DEF Indexed
    <2> QED
      BY <2>1, <2>2
  <1>7. ASSUME NEW k \in 1..(Size - 1)
        PROVE  /\ ~IsRoot(receipts[links[k+1]])
               /\ PointsAt(receipts[links[k+1]], receipts[links[k]])
    <2>1. PointsAt(receipts[links[k+1]], receipts[links[k]])
      BY <1>1 DEF Walked
    <2>2. links[k] \in 1..Size
      BY <1>1, <1>3
    <2>3. receipts[links[k]].commitment_digest # <<>>
      BY <1>2, <2>2 DEF DigestOf
    <2> QED
      BY <2>1, <2>3, PointersDerive
  <1>8. Path!Identified(receipts)
    BY <1>2 DEF Path!Identified, DigestOf, Size
  <1>9. Path!IsRoot(receipts[links[1]])
    BY <1>6 DEF Path!IsRoot, IsRoot
  <1>10. \A k \in 1..(Size - 1) : /\ ~Path!IsRoot(receipts[links[k+1]])
                                  /\ Path!DerivesFrom(receipts[links[k+1]], receipts[links[k]])
    BY <1>7 DEF Path!IsRoot, IsRoot, Path!DerivesFrom, PointsAt
  <1> QED
    BY <1>1, <1>3, <1>4, <1>5, <1>8, <1>9, <1>10
    DEF Path!SinglePath, Path!IsPath, Size

LEMMA MoreThanOne ==
    ASSUME NEW n \in Nat, NEW m \in 1..n, n # 1
    PROVE  1 \in 1..n /\ 2 \in 1..n
  OBVIOUS

LEMMA RefusedIsNoPath ==
    ASSUME IInv, Next, pc' = "rejected", pc # "rejected",
           NEW p, Path!SinglePath(receipts, p)
    PROVE  FALSE
  <1>0. /\ Size \in Nat /\ Size > 0 /\ i \in Nat \ {0}
        /\ p \in [1..Size -> 1..Size] /\ p \in Path!Paths(receipts)
    BY Bounds, PathFacts DEF OnPath, Path!Paths, Size
  <1>1. /\ \A a \in 1..Size : DigestOf(a) # <<>>
        /\ \A a, b \in 1..Size : DigestOf(a) = DigestOf(b) => a = b
    BY PathFacts DEF OnPath
  <1>2. \A a \in 1..Size : \E b \in 1..Size : p[b] = a
    BY PathFacts DEF OnPath
  <1>3. IsRoot(receipts[p[1]])
    BY PathFacts DEF OnPath
  <1>4. \A a \in 1..(Size - 1) : ~IsRoot(receipts[p[a+1]])
    BY PathFacts DEF OnPath
  <1>5. \A a \in 1..(Size - 1) : PointsAt(receipts[p[a+1]], receipts[p[a]])
    BY PathFacts DEF OnPath
  <1>6. CASE Start
    <2>1. Len(receipts) # 0
      BY <1>0 DEF Size
    <2>2. pc' = "index"
      BY <1>6, <2>1 DEF Start
    <2> QED
      BY <2>2
  <1>7. CASE Index
    <2>1. pc = "index" /\ i \in 1..Size
      <3>1. pc = "index" /\ i <= Size
        BY <1>7 DEF Index, Size
      <3> QED
        BY <1>0, <3>1
    <2>2. DigestOf(i) = <<>> \/ DigestOf(i) \in byDigest
      <3> SUFFICES ASSUME DigestOf(i) # <<>>, DigestOf(i) \notin byDigest PROVE FALSE
        OBVIOUS
      <3>1. pc' = pc
        BY <1>7 DEF Index, DigestOf
      <3> QED
        BY <3>1
    <2>3. byDigest = {DigestOf(k) : k \in 1..(i-1)}
      BY DEF IInv, Indexed
    <2>4. PICK k \in 1..(i-1) : DigestOf(k) = DigestOf(i)
      BY <1>1, <2>1, <2>2, <2>3
    <2>5. k \in 1..Size /\ k # i
      BY <1>0, <2>1
    <2> QED
      BY <1>1, <2>1, <2>4, <2>5
  <1>8. CASE OneRoot
    <2>1. Len(roots) # 1
      <3> SUFFICES ASSUME Len(roots) = 1 PROVE FALSE
        OBVIOUS
      <3>1. pc' = "resolve"
        BY <1>8 DEF OneRoot
      <3> QED
        BY <3>1
    <2>2. i = Size + 1
      <3>1. i > Size /\ i \in 1..(Size + 1)
        BY <1>8 DEF OneRoot, IInv, TypeOK, Size
      <3> QED
        BY <1>0, <3>1
    <2>3. /\ Len(roots) \in Nat
          /\ \A m \in 1..Len(roots) : roots[m] \in 1..Size /\ IsRoot(receipts[roots[m]])
          /\ \A k \in 1..Size : IsRoot(receipts[k]) => \E m \in 1..Len(roots) : roots[m] = k
          /\ \A k, m \in 1..Len(roots) : k < m => roots[k] < roots[m]
      BY <1>0, <2>2 DEF IInv, Indexed
    <2>4. \A k \in 1..Size : IsRoot(receipts[k]) => k = p[1]
      <3> SUFFICES ASSUME NEW k \in 1..Size, IsRoot(receipts[k]) PROVE k = p[1]
        OBVIOUS
      <3>1. PICK j \in 1..Size : p[j] = k
        BY <1>2
      <3>2. CASE j # 1
        <4>1. j - 1 \in 1..(Size - 1) /\ (j - 1) + 1 = j
          BY <1>0, <3>2
        <4>2. ~IsRoot(receipts[p[(j-1)+1]])
          BY <1>4, <4>1
        <4> QED
          BY <3>1, <4>1, <4>2
      <3> QED
        BY <3>1, <3>2
    <2>5. p[1] \in 1..Size
      BY <1>0
    <2>6. PICK m \in 1..Len(roots) : roots[m] = p[1]
      BY <1>3, <2>3, <2>5
    <2>7. 1 \in 1..Len(roots) /\ 2 \in 1..Len(roots)
      <3>1. Len(roots) \in Nat /\ m \in 1..Len(roots) /\ Len(roots) # 1
        BY <2>1, <2>3
      <3> QED
        BY <3>1, MoreThanOne
    <2>8. roots[1] = p[1] /\ roots[2] = p[1] /\ roots[1] < roots[2]
      BY <2>3, <2>4, <2>7
    <2> QED
      BY <1>0, <2>5, <2>8
  <1>9. CASE Resolve
    <2> DEFINE Broken(k) ==
             /\ ~IsRoot(receipts[k])
             /\ receipts[k].provenance[1].parent_commitment_digest \notin byDigest
    <2>1. pc = "resolve" /\ \E k \in 1..Size : Broken(k)
      <3> SUFFICES ASSUME ~\E k \in 1..Size : Broken(k) PROVE FALSE
        BY <1>9 DEF Resolve
      <3>1. pc' = "walk"
        BY <1>9 DEF Resolve, Size
      <3> QED
        BY <3>1
    <2>2. PICK k \in 1..Size : Broken(k)
      BY <2>1
    <2>3. PICK j \in 1..Size : p[j] = k
      BY <1>2
    <2>4. j # 1
      BY <1>3, <2>2, <2>3
    <2>5. j - 1 \in 1..(Size - 1) /\ (j - 1) + 1 = j /\ j - 1 \in 1..Size
      BY <1>0, <2>4
    <2>6. PointsAt(receipts[k], receipts[p[j-1]])
      BY <1>5, <2>3, <2>5
    <2>7. receipts[k].provenance[1].parent_commitment_digest = DigestOf(p[j-1])
      BY <2>6 DEF PointsAt, DigestOf
    <2>8. byDigest = {DigestOf(a) : a \in 1..Size}
      BY <1>0, <2>1 DEF IInv, Indexed, AfterIndex
    <2>9. p[j-1] \in 1..Size
      BY <1>0, <2>5
    <2> QED
      BY <2>2, <2>7, <2>8, <2>9
  <1>10. CASE Walk
    <2>1. DigestOf(cur) \notin visited
      BY <1>10, NoCycle DEF Walk
    <2>2. pc' = "count" \/ pc' = "walk"
      BY <1>10, <2>1 DEF Walk, DigestOf
    <2> QED
      BY <2>2
  <1>11. CASE Count
    <2> DEFINE m == Len(links)
    <2>1. m # Size /\ pc = "count"
      <3> SUFFICES ASSUME Len(links) = Len(receipts) PROVE FALSE
        BY <1>11 DEF Count, Size
      <3>1. pc' = "accepted"
        BY <1>11 DEF Count
      <3> QED
        BY <3>1
    <2>2. m \in Nat /\ m > 0 /\ childOf(links[m]) = {}
      BY <2>1, Bounds DEF IInv, AfterIndex, Standing
    <2>3. m <= Size /\ \A k \in 1..m : links[k] = p[k]
      BY <1>0, <2>1 DEF IInv, AfterIndex, Follows
    <2> HIDE DEF m
    <2>4. m \in 1..(Size - 1) /\ m \in 1..Size /\ m \in 1..m /\ m + 1 \in 1..Size
      BY <1>0, <2>1, <2>2, <2>3
    <2>5. links[m] = p[m] /\ PointsAt(receipts[p[m+1]], receipts[p[m]]) /\ p[m+1] \in 1..Size
      BY <1>0, <1>5, <2>3, <2>4
    <2>6. ASSUME NEW c \in 1..Size, PointsAt(receipts[c], receipts[p[m]])
          PROVE  c = p[m+1]
      BY <1>0, <2>4, <2>6, PathChild
    <2>7. p[m+1] \in childOf(p[m])
      BY <2>5, <2>6 DEF childOf, Size
    <2> QED
      BY <2>2, <2>5, <2>7
  <1> QED
    BY <1>6, <1>7, <1>8, <1>9, <1>10, <1>11 DEF Next

------------------------------------------------------------------------------
(* The theorems.                                                            *)

LEMMA Invariant == Spec => []IInv
  BY Starts, Inductive, PTL DEF Spec

\* The walk stays within the receipts and the index, and an error is returned
\* exactly when the receipts are refused (provenance.go:35-106).
THEOREM TypeCorrect == Spec => []TypeOK
  <1>1. IInv => TypeOK
    BY DEF IInv
  <1> QED
    BY <1>1, Invariant, PTL

\* Whatever the receipts refer to, the walk never comes back to a receipt
\* (provenance.go:79-81).
THEOREM NoCycleReported == Spec => []CyclesAreCountedOut
  <1>1. IInv => CyclesAreCountedOut
    BY DEF IInv, CyclesAreCountedOut
  <1> QED
    BY <1>1, Invariant, PTL

\* Each step of the loops is a verdict of the abstract specification, and the
\* right one, or leaves it undecided.
LEMMA StepImplements ==
    ASSUME IInv, IInv', [Next]_vars
    PROVE  [Path!Next]_<<receipts,
              IF pc = "accepted" THEN "accepted"
              ELSE IF pc = "rejected" THEN "refused" ELSE "undecided",
              IF pc = "accepted" THEN links ELSE <<>> >>
  <1>1. CASE UNCHANGED vars
    BY <1>1 DEF vars
  <1>2. CASE Next
    <2>1. pc \notin {"accepted", "rejected"} /\ receipts' = receipts
      BY <1>2 DEF Next, Start, Index, OneRoot, Resolve, Walk, Count, Reject
    <2>2. CASE pc' \notin {"accepted", "rejected"}
      BY <2>1, <2>2
    <2>3. CASE pc' = "accepted"
      <3>1. RightlyAccepted'
        BY AcceptedIsPath, PTL
      <3>2. Path!SinglePath(receipts, links')
        BY <2>1, <2>3, <3>1 DEF RightlyAccepted
      <3>3. Path!Accept
        BY <2>1, <2>3, <3>2 DEF Path!Accept
      <3> QED
        BY <3>3 DEF Path!Next
    <2>4. CASE pc' = "rejected"
      <3>1. \A p \in Path!Paths(receipts) : ~Path!SinglePath(receipts, p)
        BY <1>2, <2>1, <2>4, RefusedIsNoPath
      <3>2. Path!Refuse
        BY <2>1, <2>4, <3>1 DEF Path!Refuse
      <3> QED
        BY <3>2 DEF Path!Next
    <2> QED
      BY <2>2, <2>3, <2>4
  <1> QED
    BY <1>1, <1>2

\* Reconstruction accepts exactly the receipts that form one path from one root,
\* in whatever order they are presented, and answers that path
\* (provenance.go:26-106).
THEOREM Implements == Spec => ImplementsPath
  <1>1. Init => Path!Init
    BY DEF Init, Path!Init
  <1> QED
    BY <1>1, Invariant, StepImplements, PTL DEF Spec, ImplementsPath, Path!Spec

------------------------------------------------------------------------------
(* The loops run out. That a step is always taken is fairness, and stays   *)
(* with AlwaysDecides; that only so many can be taken is proved.           *)

\* How far each stage is from the verdict.
Ahead == [start |-> 5, index |-> 4, resolve |-> 3, walk |-> 2, count |-> 1,
          accepted |-> 0, rejected |-> 0]

\* What is left: stages, receipts to index and receipts to walk.
Remaining == Ahead[pc] + (Size + 1 - i) + (Size - Len(links))

WithinSize == Len(links) <= Size

\* Distinct receipts are no more than there are receipts.
LEMMA NoLonger ==
    ASSUME NEW n \in Nat, NEW m \in Nat, NEW f \in [1..m -> 1..n],
           \A k, l \in 1..m : f[k] = f[l] => k = l
    PROVE  m <= n
  <1>1. IsFiniteSet(1..n) /\ Cardinality(1..n) = n
    BY FS_Interval
  <1>2. IsFiniteSet(1..m) /\ Cardinality(1..m) = m
    BY FS_Interval
  <1>3. f \in Injection(1..m, 1..n)
    BY DEF Injection, IsInjective
  <1>4. Cardinality(1..m) <= Cardinality(1..n)
    BY <1>1, <1>2, <1>3, FS_Injection
  <1> QED
    BY <1>1, <1>2, <1>4

LEMMA WalkedWithinSize == IInv => (pc \in AfterIndex => WithinSize)
  <1> SUFFICES ASSUME IInv, pc \in AfterIndex PROVE WithinSize
    OBVIOUS
  <1> DEFINE m == Len(links)
  <1>1. Size \in Nat /\ m \in Nat /\ links \in Seq(1..Size) /\ Walked
    BY Bounds DEF IInv
  <1>2. links \in [1..m -> 1..Size]
    BY <1>1
  <1>3. \A k, l \in 1..m : links[k] = links[l] => k = l
    BY <1>1 DEF Walked
  <1> HIDE DEF m
  <1>4. m <= Size
    BY <1>1, <1>2, <1>3, NoLonger
  <1> QED
    BY <1>4 DEF m, WithinSize

LEMMA StaysWithinSize == IInv /\ IInv' /\ WithinSize /\ [Next]_vars => WithinSize'
  <1> SUFFICES ASSUME IInv, IInv', WithinSize, [Next]_vars PROVE WithinSize'
    OBVIOUS
  <1>1. pc' \in {"start", "index", "rejected"} \cup AfterIndex
    BY DEF IInv, TypeOK, AfterIndex
  <1>2. CASE pc' \in AfterIndex
    <2>1. (pc \in AfterIndex => WithinSize)'
      BY WalkedWithinSize, PTL
    <2> QED
      BY <1>2, <2>1 DEF AfterIndex
  <1>3. CASE pc' \in {"start", "index"}
    <2>1. links' = <<>> /\ Size' \in Nat
      BY <1>3, PresentationsAssumption DEF IInv, Size
    <2> QED
      BY <2>1 DEF WithinSize
  <1>4. CASE pc' = "rejected"
    <2>1. links' = links /\ receipts' = receipts
      <3>1. CASE UNCHANGED vars
        BY <3>1 DEF vars
      <3>2. CASE Next
        <4>1. receipts' = receipts
          BY <3>2, Zenon DEF Next, Start, Index, OneRoot, Resolve, Walk, Count, Reject
        <4>2. CASE Walk
          <5>1. (pc' = "rejected" /\ links' = links) \/ pc' \in {"count", "walk"}
            BY <4>2, Zenon DEF Walk, Reject
          <5> QED
            BY <1>4, <4>1, <5>1
        <4>3. CASE ~Walk
          BY <3>2, <4>1, <4>3, Zenon DEF Next, Start, Index, OneRoot, Resolve, Count, Reject
        <4> QED
          BY <4>2, <4>3
      <3> QED
        BY <3>1, <3>2
    <2> QED
      BY <2>1 DEF WithinSize, Size
  <1> QED
    BY <1>1, <1>2, <1>3, <1>4

LEMMA Measured == ASSUME IInv, WithinSize PROVE Remaining \in Nat
  <1>1. Size \in Nat /\ i \in 1..(Size + 1) /\ Len(links) \in Nat /\ Len(links) <= Size
    BY Bounds DEF IInv, TypeOK, Size, WithinSize
  <1>2. Ahead[pc] \in Nat
    BY DEF IInv, TypeOK, Ahead
  <1> QED
    BY <1>1, <1>2 DEF Remaining

\* A refusal skips the stages that are left.
LEMMA RejectNears ==
    ASSUME IInv, NEW what, Reject(what), pc \notin {"accepted", "rejected"}
    PROVE  Remaining' < Remaining
  <1>1. Size \in Nat /\ i \in Nat /\ Len(links) \in Nat
    BY Bounds
  <1>2. Size' = Size /\ i' = i /\ links' = links /\ pc' = "rejected"
    BY DEF Reject, Size
  <1>3. Ahead[pc] \in Nat /\ Ahead[pc] > 0 /\ Ahead["rejected"] = 0
    BY DEF IInv, TypeOK, Ahead
  <1> QED
    BY <1>1, <1>2, <1>3 DEF Remaining

LEMMA NextNears == ASSUME IInv, Next PROVE Remaining' < Remaining
  <1>1. /\ Size \in Nat /\ i \in Nat /\ Len(links) \in Nat
        /\ links \in Seq(1..Size)
    BY Bounds
  <1>2. /\ Ahead["start"] = 5 /\ Ahead["index"] = 4 /\ Ahead["resolve"] = 3
        /\ Ahead["walk"] = 2 /\ Ahead["count"] = 1
        /\ Ahead["accepted"] = 0
    BY DEF Ahead
  <1>3. pc \notin {"accepted", "rejected"} /\ Size' = Size
    BY DEF Next, Start, Index, OneRoot, Resolve, Walk, Count, Reject, Size
  <1>4. CASE \E what : Reject(what)
    BY <1>3, <1>4, RejectNears
  <1>5. CASE ~\E what : Reject(what)
    <2>1. CASE Start
      <3>1. pc = "start" /\ pc' = "index" /\ i' = i /\ links' = links
        BY <1>5, <2>1 DEF Start
      <3> QED
        BY <1>1, <1>2, <1>3, <3>1 DEF Remaining
    <2>2. CASE Index
      <3>1. pc' = pc /\ i' = i + 1 /\ links' = links
        BY <1>5, <2>2 DEF Index
      <3>2. pc = "index"
        BY <2>2 DEF Index
      <3> QED
        BY <1>1, <1>2, <1>3, <3>1, <3>2 DEF Remaining
    <2>3. CASE OneRoot
      <3>1. pc = "index" /\ pc' = "resolve" /\ i' = i /\ links' = links
        BY <1>5, <2>3 DEF OneRoot
      <3> QED
        BY <1>1, <1>2, <1>3, <3>1 DEF Remaining
    <2>4. CASE Resolve
      <3>1. pc = "resolve" /\ pc' = "walk" /\ i' = i /\ links' = links
        BY <1>5, <2>4 DEF Resolve
      <3> QED
        BY <1>1, <1>2, <1>3, <3>1 DEF Remaining
    <2>5. CASE Walk
      <3>1. pc = "walk" /\ pc' \in {"walk", "count"} /\ i' = i /\ links' = Append(links, cur)
        BY <1>5, <2>5 DEF Walk
      <3>2. Len(links') = Len(links) + 1
        <4>1. cur \in 1..Size
          BY <3>1 DEF IInv, TypeOK, Size
        <4> QED
          BY <1>1, <3>1, <4>1
      <3> QED
        BY <1>1, <1>2, <1>3, <3>1, <3>2 DEF Remaining
    <2>6. CASE Count
      <3>1. pc = "count" /\ pc' = "accepted" /\ i' = i /\ links' = links
        BY <1>5, <2>6 DEF Count
      <3> QED
        BY <1>1, <1>2, <1>3, <3>1 DEF Remaining
    <2> QED
      BY <2>1, <2>2, <2>3, <2>4, <2>5, <2>6 DEF Next
  <1> QED
    BY <1>4, <1>5

\* However many receipts there are and whatever they refer to, each step of the
\* three loops brings the verdict nearer, and there is none left to take after as
\* many as twice the receipts and five (provenance.go:35-106).
THEOREM LoopsRunOut ==
    Spec => /\ [](Remaining \in 0..(2 * Size + 5))
            /\ [][Remaining' < Remaining]_vars
  <1>1. Init => WithinSize
    BY PresentationsAssumption DEF Init, WithinSize, Size
  <1>2. IInv /\ WithinSize => Remaining \in 0..(2 * Size + 5)
    <2> SUFFICES ASSUME IInv, WithinSize PROVE Remaining \in 0..(2 * Size + 5)
      OBVIOUS
    <2>1. Size \in Nat /\ i \in 1..(Size + 1) /\ Len(links) \in Nat
      BY Bounds DEF IInv, TypeOK, Size
    <2>2. Ahead[pc] \in 0..5
      BY DEF IInv, TypeOK, Ahead
    <2>3. Remaining \in Nat
      BY Measured
    <2> QED
      BY <2>1, <2>2, <2>3 DEF Remaining
  <1>3. IInv /\ [Next]_vars => [Remaining' < Remaining]_vars
    BY NextNears
  <1> QED
    BY <1>1, <1>2, <1>3, StaysWithinSize, Invariant, PTL DEF Spec
=============================================================================
