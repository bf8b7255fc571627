------------------------- MODULE ReplayGuardProofs -------------------------
(***************************************************************************)
(* What a shared, query-only replay record guarantees, for any number of   *)
(* workers, receipts and crashes.                                          *)
(*                                                                         *)
(* While a receipt is not recorded every act on it belongs to a worker     *)
(* that has yet to record it, or was lost in a crash; a worker doing that  *)
(* is not also verifying it. Once it is recorded no verification of it     *)
(* succeeds, so what was under way is all there will be.                   *)
(***************************************************************************)
EXTENDS ReplayGuard, FiniteSetTheorems, TLAPS

Checked(key) == {w \in On(key) : doing[w] = "checked"}

Acted(key) == {w \in On(key) : doing[w] = "acted"}

KeyOf(w) == Digest(envelope[w].payload)

ActsOf(key) ==
    /\ acts[key] + Cardinality(Checked(key)) <= Cardinality(Workers) + crashes
    /\ key \notin seen => acts[key] <= Cardinality(Acted(key)) + crashes

IInv ==
    /\ TypeOK
    /\ \A key \in Keys : ActsOf(key)
    /\ \A w \in Workers : doing[w] = "acted" => acts[KeyOf(w)] > 0
    /\ \A key \in seen : acts[key] > 0
    /\ RefusedWasActed

------------------------------------------------------------------------------
(* Counting workers.                                                        *)

\* The workers checked and acted on one receipt are different workers.
LEMMA Counted ==
    ASSUME NEW key
    PROVE  /\ IsFiniteSet(Checked(key)) /\ IsFiniteSet(Acted(key))
           /\ Cardinality(Checked(key)) \in Nat /\ Cardinality(Acted(key)) \in Nat
           /\ Cardinality(Workers) \in Nat
  <1>1. Checked(key) \in SUBSET Workers /\ Acted(key) \in SUBSET Workers
    BY DEF Checked, Acted, On
  <1>2. IsFiniteSet(Workers)
    BY ReplayGuardAssumption
  <1>3. IsFiniteSet(Checked(key)) /\ IsFiniteSet(Acted(key))
    BY <1>1, <1>2, FS_Subset
  <1> QED
    BY <1>2, <1>3, FS_CardinalityType

LEMMA IdleCounted ==
    ASSUME NEW key, NEW w \in Workers, doing[w] = "nothing"
    PROVE  Cardinality(Checked(key)) + Cardinality(Acted(key)) + 1 <= Cardinality(Workers)
  <1> DEFINE C == Checked(key)
             A == Acted(key)
  <1>1. /\ IsFiniteSet(C) /\ IsFiniteSet(A) /\ IsFiniteSet(Workers)
        /\ Cardinality(C) \in Nat /\ Cardinality(A) \in Nat /\ Cardinality(Workers) \in Nat
    BY Counted, ReplayGuardAssumption
  <1>2. C \cap A = {} /\ w \notin C \cup A /\ (C \cup A) \cup {w} \in SUBSET Workers
    BY DEF Checked, Acted, On
  <1> HIDE DEF C, A
  <1>3. IsFiniteSet(C \cup A) /\ Cardinality(C \cup A) = Cardinality(C) + Cardinality(A)
    <2>1. /\ IsFiniteSet(C \cup A)
          /\ Cardinality(C \cup A)
               = Cardinality(C) + Cardinality(A) - Cardinality(C \cap A)
      BY <1>1, FS_Union
    <2>2. Cardinality(C \cap A) = 0
      BY <1>2, FS_EmptySet
    <2> QED
      BY <1>1, <2>1, <2>2
  <1>4. Cardinality((C \cup A) \cup {w}) = Cardinality(C \cup A) + 1
    BY <1>2, <1>3, FS_AddElement
  <1>5. Cardinality((C \cup A) \cup {w}) <= Cardinality(Workers)
    BY <1>1, <1>2, FS_Subset
  <1> QED
    BY <1>1, <1>3, <1>4, <1>5 DEF C, A

\* One element more, or fewer, or the same.
LEMMA OneMore ==
    ASSUME NEW S, IsFiniteSet(S), NEW x, x \notin S
    PROVE  Cardinality(S \cup {x}) = Cardinality(S) + 1
  BY FS_AddElement

LEMMA OneLess ==
    ASSUME NEW S, IsFiniteSet(S), NEW x \in S
    PROVE  Cardinality(S \ {x}) = Cardinality(S) - 1
  BY FS_RemoveElement

------------------------------------------------------------------------------
LEMMA Starts == Init => IInv
  <1> SUFFICES ASSUME Init PROVE IInv
    OBVIOUS
  <1>1. TypeOK
    BY ReplayGuardAssumption DEF Init, TypeOK, Keys
  <1>2. ASSUME NEW key \in Keys PROVE ActsOf(key)
    <2>1. Checked(key) = {} /\ acts[key] = 0 /\ crashes = 0
      BY DEF Init, Checked, On
    <2>2. Cardinality(Checked(key)) = 0
      BY <2>1, FS_EmptySet
    <2> QED
      BY <2>1, <2>2, Counted DEF ActsOf
  <1> QED
    BY <1>1, <1>2 DEF Init, IInv, RefusedWasActed, KeyOf

LEMMA Typed ==
    ASSUME TypeOK, NEW w \in Workers
    PROVE  KeyOf(w) \in Keys /\ acts[KeyOf(w)] \in Nat /\ crashes \in Nat
  <1>1. envelope[w] \in Presentable
    BY DEF TypeOK
  <1>2. KeyOf(w) \in Keys
    BY <1>1 DEF KeyOf, Keys
  <1> QED
    BY <1>2, ReplayGuardAssumption DEF TypeOK

LEMMA VerifyStep ==
    ASSUME IInv, NEW w \in Workers, NEW env \in Presentable, Verify(w, env)
    PROVE  IInv'
  <1> DEFINE k == Digest(env.payload)
  <1>1. /\ doing[w] = "nothing"
        /\ envelope' = [envelope EXCEPT ![w] = env]
        /\ UNCHANGED <<seen, acts, crashes>>
        /\ doing' = [doing EXCEPT ![w] = doing'[w]]
        /\ doing'[w] = "nothing" \/ (doing'[w] = "checked" /\ k \notin seen)
        /\ answer' = [answer EXCEPT ![w] = answer'[w]]
        /\ answer'[w] \in {"none", "passed"} \/ (answer'[w] = "failed" /\ k \in seen)
    <2>1. doing \in [Workers -> {"nothing", "checked", "acted"}]
          /\ answer \in [Workers -> {"none", "passed", "failed"}]
      BY DEF IInv, TypeOK
    <2> QED
      BY <2>1 DEF Verify, Seen, ReplayKey
  <1>2. k \in Keys
    BY DEF Keys
  <1>3. TypeOK
    BY DEF IInv
  <1>4. TypeOK'
    BY <1>1, <1>3 DEF TypeOK
  <1>5. /\ \A v \in Workers \ {w} : doing'[v] = doing[v] /\ envelope'[v] = envelope[v]
                                    /\ answer'[v] = answer[v]
        /\ envelope'[w] = env
    BY <1>1, <1>3 DEF TypeOK
  <1> HIDE DEF k
  <1>6. ASSUME NEW key \in Keys PROVE ActsOf(key)'
    <2>1. Acted(key)' = Acted(key)
      <3>1. \A v \in Workers : (v \in On(key) /\ doing[v] = "acted")
                                 <=> (v \in On(key)' /\ doing'[v] = "acted")
        BY <1>1, <1>5 DEF On
      <3> QED
        BY <3>1 DEF Acted, On
    <2>2. /\ acts[key] \in Nat /\ crashes \in Nat
          /\ Cardinality(Checked(key)) \in Nat /\ Cardinality(Acted(key)) \in Nat
          /\ Cardinality(Workers) \in Nat /\ IsFiniteSet(Checked(key))
      BY <1>3, Counted, ReplayGuardAssumption DEF TypeOK
    <2>3. ActsOf(key)
      BY DEF IInv
    <2>4. CASE key = k /\ doing'[w] = "checked"
      <3>1. w \in On(key)' /\ w \notin Checked(key)
        BY <1>1, <1>5, <2>4 DEF On, Checked, k
      <3>2. Checked(key)' = Checked(key) \cup {w}
        BY <1>1, <1>5, <2>4, <3>1 DEF Checked, On
      <3>3. Cardinality(Checked(key)') = Cardinality(Checked(key)) + 1
        BY <2>2, <3>1, <3>2, OneMore
      <3>4. key \notin seen
        BY <1>1, <2>4
      <3>5. Cardinality(Checked(key)) + Cardinality(Acted(key)) + 1 <= Cardinality(Workers)
        BY <1>1, IdleCounted
      <3>6. acts[key] <= Cardinality(Acted(key)) + crashes
        BY <2>3, <3>4 DEF ActsOf
      <3>7. acts[key] + Cardinality(Checked(key)') <= Cardinality(Workers) + crashes
        BY <2>2, <3>3, <3>5, <3>6
      <3>8. acts' = acts /\ crashes' = crashes /\ seen' = seen
        BY <1>1
      <3> QED
        BY <2>1, <3>6, <3>7, <3>8 DEF ActsOf
    <2>5. CASE ~(key = k /\ doing'[w] = "checked")
      <3>1. Checked(key)' = Checked(key)
        <4>1. \A v \in Workers : (v \in On(key) /\ doing[v] = "checked")
                                   <=> (v \in On(key)' /\ doing'[v] = "checked")
          BY <1>1, <1>5, <2>5 DEF On, k
        <4> QED
          BY <4>1 DEF Checked, On
      <3>2. acts' = acts /\ crashes' = crashes /\ seen' = seen
        BY <1>1
      <3> QED
        BY <2>1, <2>3, <3>1, <3>2 DEF ActsOf
    <2> QED
      BY <2>4, <2>5
  <1>7. \A v \in Workers : doing'[v] = "acted" => acts'[KeyOf(v)'] > 0
    <2> SUFFICES ASSUME NEW v \in Workers, doing'[v] = "acted" PROVE acts'[KeyOf(v)'] > 0
      OBVIOUS
    <2>1. v # w
      BY <1>1
    <2>2. doing[v] = "acted" /\ KeyOf(v)' = KeyOf(v)
      BY <1>5, <2>1 DEF KeyOf
    <2> QED
      BY <1>1, <2>2 DEF IInv
  <1>8. \A key \in seen' : acts'[key] > 0
    BY <1>1 DEF IInv
  <1>9. RefusedWasActed'
    <2> SUFFICES ASSUME NEW v \in Workers, answer'[v] = "failed"
                 PROVE  acts'[Digest(envelope'[v].payload)] > 0
      BY DEF RefusedWasActed
    <2>1. CASE v = w
      BY <1>1, <1>5, <2>1 DEF IInv, k
    <2>2. CASE v # w
      BY <1>1, <1>5, <2>2 DEF IInv, RefusedWasActed
    <2> QED
      BY <2>1, <2>2
  <1> QED
    BY <1>4, <1>6, <1>7, <1>8, <1>9 DEF IInv

\* The numbers of workers are finite numbers.
LEMMA Numbers ==
    ASSUME TypeOK, NEW key \in Keys
    PROVE  /\ acts[key] \in Nat /\ crashes \in Nat
           /\ Cardinality(Checked(key)) \in Nat /\ Cardinality(Acted(key)) \in Nat
           /\ Cardinality(Workers) \in Nat
           /\ IsFiniteSet(Checked(key)) /\ IsFiniteSet(Acted(key))
  BY Counted, ReplayGuardAssumption DEF TypeOK

\* A worker that leaves "checked" or "acted" is counted there no more, and is
\* counted where it goes.
LEMMA Moves ==
    ASSUME IInv, NEW w \in Workers, NEW to \in {"nothing", "acted"}, doing[w] # to,
           doing[w] # "nothing",
           doing' = [doing EXCEPT ![w] = to], envelope' = envelope,
           NEW key \in Keys
    PROVE  /\ key # KeyOf(w) => Checked(key)' = Checked(key) /\ Acted(key)' = Acted(key)
           /\ key = KeyOf(w) /\ doing[w] = "checked" =>
                 Cardinality(Checked(key)') = Cardinality(Checked(key)) - 1
           /\ key = KeyOf(w) /\ doing[w] = "acted" =>
                 /\ Checked(key)' = Checked(key)
                 /\ Cardinality(Acted(key)') = Cardinality(Acted(key)) - 1
           /\ key = KeyOf(w) /\ doing[w] = "checked" /\ to = "nothing" =>
                 Acted(key)' = Acted(key)
           /\ key = KeyOf(w) /\ to = "acted" =>
                 Cardinality(Acted(key)') = Cardinality(Acted(key)) + 1
  <1>1. /\ TypeOK /\ On(key)' = On(key)
        /\ doing'[w] = to /\ \A v \in Workers \ {w} : doing'[v] = doing[v]
        /\ doing[w] \in {"checked", "acted"}
        /\ w \in On(key) <=> key = KeyOf(w)
    BY DEF IInv, TypeOK, On, KeyOf
  <1>2. IsFiniteSet(Checked(key)) /\ IsFiniteSet(Acted(key))
    BY Counted
  <1>3. ASSUME key # KeyOf(w) PROVE Checked(key)' = Checked(key) /\ Acted(key)' = Acted(key)
    BY <1>1, <1>3 DEF Checked, Acted, On
  <1>4. ASSUME key = KeyOf(w), doing[w] = "checked"
        PROVE  Cardinality(Checked(key)') = Cardinality(Checked(key)) - 1
    <2>1. w \in Checked(key) /\ Checked(key)' = Checked(key) \ {w}
      BY <1>1, <1>4 DEF Checked, On
    <2> QED
      BY <1>2, <2>1, OneLess
  <1>5. ASSUME key = KeyOf(w), doing[w] = "acted"
        PROVE  /\ Checked(key)' = Checked(key)
               /\ Cardinality(Acted(key)') = Cardinality(Acted(key)) - 1
    <2>1. w \in Acted(key) /\ Acted(key)' = Acted(key) \ {w} /\ Checked(key)' = Checked(key)
      BY <1>1, <1>5 DEF Acted, Checked, On
    <2> QED
      BY <1>2, <2>1, OneLess
  <1>6. ASSUME key = KeyOf(w), doing[w] = "checked", to = "nothing"
        PROVE  Acted(key)' = Acted(key)
    BY <1>1, <1>6 DEF Acted, On
  <1>7. ASSUME key = KeyOf(w), to = "acted"
        PROVE  Cardinality(Acted(key)') = Cardinality(Acted(key)) + 1
    <2>1. w \notin Acted(key) /\ Acted(key)' = Acted(key) \cup {w}
      BY <1>1, <1>7 DEF Acted, On
    <2> QED
      BY <1>2, <2>1, OneMore
  <1> QED
    BY <1>3, <1>4, <1>5, <1>6, <1>7

LEMMA ActStep == ASSUME IInv, NEW w \in Workers, Act(w) PROVE IInv'
  <1> DEFINE k == KeyOf(w)
  <1>1. /\ doing[w] = "checked" /\ doing' = [doing EXCEPT ![w] = "acted"]
        /\ acts' = [acts EXCEPT ![k] = acts[k] + 1]
        /\ seen' = seen /\ envelope' = envelope /\ answer' = answer /\ crashes' = crashes
    BY DEF Act, KeyOf
  <1>2. TypeOK /\ k \in Keys /\ acts[k] \in Nat
    BY Typed DEF IInv
  <1> HIDE DEF k
  <1>3. TypeOK'
    BY <1>1, <1>2 DEF TypeOK
  <1>4. acts'[k] = acts[k] + 1 /\ \A key \in Keys : key # k => acts'[key] = acts[key]
    BY <1>1, <1>2 DEF TypeOK
  <1>5. ASSUME NEW key \in Keys PROVE ActsOf(key)'
    <2>1. ActsOf(key)
      BY DEF IInv
    <2>2. CASE key = k
      <3>1. /\ Cardinality(Checked(key)') = Cardinality(Checked(key)) - 1
            /\ Cardinality(Acted(key)') = Cardinality(Acted(key)) + 1
        BY <1>1, <2>2, Moves DEF k
      <3>2. /\ acts[key] \in Nat /\ crashes \in Nat
            /\ Cardinality(Checked(key)) \in Nat /\ Cardinality(Acted(key)) \in Nat
            /\ Cardinality(Workers) \in Nat
        BY <1>2, Numbers
      <3> QED
        BY <1>1, <1>4, <2>1, <2>2, <3>1, <3>2 DEF ActsOf
    <2>3. CASE key # k
      <3>1. Checked(key)' = Checked(key) /\ Acted(key)' = Acted(key)
        BY <1>1, <2>3, Moves DEF k
      <3>2. acts'[key] = acts[key] /\ seen' = seen /\ crashes' = crashes
        BY <1>1, <1>4, <2>3
      <3> QED
        BY <2>1, <3>1, <3>2 DEF ActsOf
    <2> QED
      BY <2>2, <2>3
  <1>6. \A key \in Keys : acts[key] > 0 => acts'[key] > 0
    BY <1>2, <1>4
  <1>7. \A v \in Workers : doing'[v] = "acted" => acts'[KeyOf(v)'] > 0
    <2> SUFFICES ASSUME NEW v \in Workers, doing'[v] = "acted" PROVE acts'[KeyOf(v)'] > 0
      OBVIOUS
    <2>1. KeyOf(v)' = KeyOf(v) /\ KeyOf(v) \in Keys
      BY <1>1, <1>2, Typed DEF KeyOf
    <2>2. CASE v = w
      <3>1. KeyOf(v) = k
        BY <2>2 DEF k
      <3> QED
        BY <1>2, <1>4, <2>1, <3>1
    <2>3. CASE v # w
      <3>1. doing[v] = "acted"
        BY <1>1, <1>2, <2>3 DEF TypeOK
      <3>2. acts[KeyOf(v)] > 0
        BY <3>1 DEF IInv
      <3> QED
        BY <1>6, <2>1, <3>2
    <2> QED
      BY <2>2, <2>3
  <1>8. \A key \in seen' : acts'[key] > 0
    BY <1>1, <1>2, <1>6 DEF IInv, TypeOK
  <1>9. RefusedWasActed'
    <2> SUFFICES ASSUME NEW v \in Workers, answer[v] = "failed"
                 PROVE  acts'[Digest(envelope[v].payload)] > 0
      BY <1>1 DEF RefusedWasActed
    <2>1. KeyOf(v) \in Keys /\ acts[KeyOf(v)] > 0
      BY <1>2, Typed DEF IInv, RefusedWasActed, KeyOf
    <2> QED
      BY <1>6, <2>1 DEF KeyOf
  <1> QED
    BY <1>3, <1>5, <1>7, <1>8, <1>9 DEF IInv

\* Giving up an attempt, whether it crashed or not.
LEMMA LeaveStep ==
    ASSUME IInv, NEW w \in Workers, NEW crashed \in {0, 1},
           doing[w] = "checked" \/ (doing[w] = "acted" /\ crashed = 1),
           doing' = [doing EXCEPT ![w] = "nothing"],
           crashes' = crashes + crashed, crashes' \in 0..MaxCrashes,
           UNCHANGED <<seen, envelope, answer, acts>>
    PROVE  IInv'
  <1> DEFINE k == KeyOf(w)
  <1>1. TypeOK /\ k \in Keys
    BY Typed DEF IInv
  <1> HIDE DEF k
  <1>2. TypeOK'
    BY <1>1 DEF TypeOK
  <1>3. ASSUME NEW key \in Keys PROVE ActsOf(key)'
    <2>1. ActsOf(key)
      BY DEF IInv
    <2>2. /\ acts[key] \in Nat /\ crashes \in Nat
          /\ Cardinality(Checked(key)) \in Nat /\ Cardinality(Acted(key)) \in Nat
          /\ Cardinality(Workers) \in Nat
      BY <1>1, Numbers
    <2>3. CASE key # k
      <3>1. Checked(key)' = Checked(key) /\ Acted(key)' = Acted(key)
        BY <2>3, Moves DEF k
      <3>2. acts' = acts /\ seen' = seen
        OBVIOUS
      <3> QED
        BY <2>1, <2>2, <3>1, <3>2 DEF ActsOf
    <2>4. CASE key = k /\ doing[w] = "checked"
      <3>1. /\ Cardinality(Checked(key)') = Cardinality(Checked(key)) - 1
            /\ Acted(key)' = Acted(key)
        BY <2>4, Moves DEF k
      <3> QED
        BY <2>1, <2>2, <3>1 DEF ActsOf
    <2>5. CASE key = k /\ doing[w] = "acted" /\ crashed = 1
      <3>1. /\ Checked(key)' = Checked(key)
            /\ Cardinality(Acted(key)') = Cardinality(Acted(key)) - 1
        BY <2>5, Moves DEF k
      <3> QED
        BY <2>1, <2>2, <2>5, <3>1 DEF ActsOf
    <2> QED
      BY <2>3, <2>4, <2>5
  <1>4. \A v \in Workers : doing'[v] = "acted" => acts'[KeyOf(v)'] > 0
    <2> SUFFICES ASSUME NEW v \in Workers, doing'[v] = "acted" PROVE acts'[KeyOf(v)'] > 0
      OBVIOUS
    <2>1. doing[v] = "acted" /\ KeyOf(v)' = KeyOf(v)
      BY <1>1 DEF TypeOK, KeyOf
    <2> QED
      BY <2>1 DEF IInv
  <1> QED
    BY <1>2, <1>3, <1>4 DEF IInv, RefusedWasActed

LEMMA RecordStep == ASSUME IInv, NEW w \in Workers, Record(w) PROVE IInv'
  <1> DEFINE k == KeyOf(w)
  <1>1. /\ doing[w] = "acted" /\ doing' = [doing EXCEPT ![w] = "nothing"]
        /\ seen' = seen \cup {k}
        /\ acts' = acts /\ envelope' = envelope /\ answer' = answer /\ crashes' = crashes
    BY DEF Record, KeyOf, ReplayKey
  <1>2. TypeOK /\ k \in Keys /\ acts[k] > 0
    BY <1>1, Typed DEF IInv
  <1> HIDE DEF k
  <1>3. TypeOK'
    BY <1>1, <1>2 DEF TypeOK
  <1>4. ASSUME NEW key \in Keys PROVE ActsOf(key)'
    <2>1. ActsOf(key)
      BY DEF IInv
    <2>2. CASE key # k
      <3>1. Checked(key)' = Checked(key) /\ Acted(key)' = Acted(key)
        BY <1>1, <2>2, Moves DEF k
      <3>2. key \in seen' <=> key \in seen
        BY <1>1, <2>2
      <3> QED
        BY <1>1, <2>1, <3>1, <3>2 DEF ActsOf
    <2>3. CASE key = k
      <3>1. Checked(key)' = Checked(key) /\ key \in seen'
        BY <1>1, <2>3, Moves DEF k
      <3> QED
        BY <1>1, <2>1, <3>1 DEF ActsOf
    <2> QED
      BY <2>2, <2>3
  <1>5. \A v \in Workers : doing'[v] = "acted" => acts'[KeyOf(v)'] > 0
    <2> SUFFICES ASSUME NEW v \in Workers, doing'[v] = "acted" PROVE acts'[KeyOf(v)'] > 0
      OBVIOUS
    <2>1. doing[v] = "acted" /\ KeyOf(v)' = KeyOf(v)
      BY <1>1, <1>2 DEF TypeOK, KeyOf
    <2> QED
      BY <1>1, <2>1 DEF IInv
  <1>6. \A key \in seen' : acts'[key] > 0
    BY <1>1, <1>2 DEF IInv
  <1> QED
    BY <1>1, <1>3, <1>4, <1>5, <1>6 DEF IInv, RefusedWasActed

LEMMA Inductive == IInv /\ [Next]_vars => IInv'
  <1> SUFFICES ASSUME IInv, [Next]_vars PROVE IInv'
    OBVIOUS
  <1>1. CASE UNCHANGED vars
    <2>1. \A key \in Keys : Checked(key)' = Checked(key) /\ Acted(key)' = Acted(key)
      BY <1>1 DEF vars, Checked, Acted, On
    <2> QED
      BY <1>1, <2>1 DEF vars, IInv, TypeOK, ActsOf, RefusedWasActed, KeyOf
  <1>2. ASSUME NEW w \in Workers, Discard(w) PROVE IInv'
    <2>1. /\ doing[w] = "checked" /\ doing' = [doing EXCEPT ![w] = "nothing"]
          /\ crashes' = crashes /\ UNCHANGED <<seen, envelope, answer, acts>>
      BY <1>2 DEF Discard
    <2>2. crashes \in 0..MaxCrashes /\ crashes' = crashes + 0
      BY <2>1 DEF IInv, TypeOK
    <2> QED
      BY <2>1, <2>2, LeaveStep
  <1>3. ASSUME NEW w \in Workers, Crash(w) PROVE IInv'
    <2>1. /\ doing[w] # "nothing" /\ crashes < MaxCrashes
          /\ doing' = [doing EXCEPT ![w] = "nothing"] /\ crashes' = crashes + 1
          /\ UNCHANGED <<seen, envelope, answer, acts>>
      BY <1>3 DEF Crash
    <2>2. doing[w] \in {"checked", "acted"} /\ crashes' \in 0..MaxCrashes
      BY <2>1, ReplayGuardAssumption DEF IInv, TypeOK
    <2> QED
      BY <2>1, <2>2, LeaveStep
  <1> QED
    BY <1>1, <1>2, <1>3, VerifyStep, ActStep, RecordStep DEF Next

LEMMA Invariant == Spec => []IInv
  BY Starts, Inductive, PTL DEF Spec

------------------------------------------------------------------------------
(* The theorems.                                                            *)

\* The record holds digests of receipts, and workers act on what was presented to
\* them (verify.go:250-260).
THEOREM TypeCorrect == Spec => []TypeOK
  <1>1. IInv => TypeOK
    BY DEF IInv
  <1> QED
    BY <1>1, Invariant, PTL

\* However the workers interleave, a receipt is acted on at most once per worker and
\* crash (verify.go:49-63, 250-260).
THEOREM ActsBounded == Spec => []ActsAccountedFor
  <1>1. IInv => ActsAccountedFor
    BY DEF IInv, ActsAccountedFor, ActsOf, Checked
  <1> QED
    BY <1>1, Invariant, PTL

\* No receipt is refused as a replay that nobody acted on (verify.go:68-83).
THEOREM RefusalsAreReplays == Spec => []RefusedWasActed
  <1>1. IInv => RefusedWasActed
    BY DEF IInv
  <1> QED
    BY <1>1, Invariant, PTL
=============================================================================
